------------------------- MODULE OfflineStatsProofs -------------------------
(***************************************************************************)
(* T4 and IW3 never mix the stats of two profiles, for any number of       *)
(* profiles, with failing writes and power cuts, and T4 keeps offline      *)
(* stats apart from those of Live and saves them before it leaves them, on  *)
(* a disk that works.  The properties are not inductive by themselves: what is saved   *)
(* or uploaded is what is in memory, so the invariant says whose stats the *)
(* memory holds, where they come from and how far they are.                *)
(***************************************************************************)
EXTENDS OfflineStats, TLAPS

(* Fetched stats that do not count as loaded come from Live: in T4 always, *)
(* in IW3 those of a profile that is on Live.                              *)
NativeStats ==
  fetched /\ ~offlineStatsLoaded /\ (title = "t4" \/ (live /\ signin = "settled")) =>
    mem.kind = "live"

(* A read from Live is for the profile on Live, never over loaded stats.   *)
ReadsNative == reading => live /\ ~offlineStatsLoaded

IntactFiles == \A u \in Profiles : Intact(files[u]) => files[u].stats \in Stats

(* While the disk works, loaded stats are at least as far as their file.   *)
LoadedAhead ==
  ~diskFails /\ offlineStatsLoaded /\ fetched =>
    /\ Intact(files[offlineStatsUser])
    /\ files[offlineStatsUser].stats.progress <= mem.progress

StatsInv ==
  /\ title \in {"iw3", "t4"}
  /\ title = "iw3" => ~offlineStatsLoaded
  /\ user \in Profiles /\ live \in BOOLEAN /\ diskFails \in BOOLEAN
  /\ live => user # Nobody
  /\ DOMAIN files = Profiles
  /\ server \in [Users -> Stats]
  /\ offlineStatsUser \in Profiles
  /\ offlineStatsLoaded \in BOOLEAN
  /\ IntactFiles
  /\ StatsKeptApart
  /\ FetchedStatsOfUser
  /\ LoadedStatsOfUser
  /\ NativeStats
  /\ ReadsNative
  /\ LoadedAhead

USE StatsStorageAssumption

LEMMA NewStatsType ==
  ASSUME user \in Profiles
  PROVE  NewStats \in Stats /\ NewStats.owner = user /\ NewStats.kind = "offline"
BY DEF NewStats, Stats

LEMMA StatsFileIntact ==
  ASSUME NEW s \in Stats
  PROVE  Intact(StatsFile(s)) /\ StatsFile(s).stats = s
<1>1. s # Damaged
  BY DEF Stats, Damaged
<1> QED
  BY <1>1 DEF Intact, StatsFile

(* Files that hold what they should.                                       *)
FilesInOrder == DOMAIN files = Profiles /\ IntactFiles /\ FilesOfOwners /\ (title = "t4" => FilesAreOffline)

(* A save of a profile's own stats: nobody else's file changes, and on a   *)
(* disk that works the file holds the stats afterwards.                    *)
LEMMA SaveFacts ==
  ASSUME StatsInv, NEW s \in Stats, s.owner = user, title = "t4" => s.kind = "offline",
         NEW needed, SaveStats(s, needed), title' = title
  PROVE  /\ FilesInOrder'
         /\ \A u \in Profiles \ {user} : files'[u] = files[u]
         /\ ~diskFails => files'[user] = StatsFile(s)
<1>1. PICK w \in WriteFileToDisk(s) : files' = [files EXCEPT ![user] = w.file]
  BY DEF SaveStats, StatsPath
<1>2. Intact(w.file) => w.file.stats = s \/ w.file = files[user]
  BY DEF WriteFileToDisk, StatsFile, ShortFile, Intact
<1>3. /\ DOMAIN files' = Profiles /\ files'[user] = w.file
      /\ \A u \in Profiles \ {user} : files'[u] = files[u]
  BY <1>1 DEF StatsInv
<1>4. ASSUME NEW u \in Profiles, Intact(files'[u])
      PROVE  /\ files'[u].stats \in Stats /\ files'[u].stats.owner = u
             /\ title = "t4" => files'[u].stats.kind = "offline"
  BY <1>2, <1>3, <1>4 DEF StatsInv, IntactFiles, StatsKeptApart, FilesOfOwners, FilesAreOffline
<1>5. ~diskFails => w.file = StatsFile(s)
  BY DEF WriteFileToDisk
<1> QED
  BY <1>3, <1>4, <1>5 DEF FilesInOrder, IntactFiles, FilesOfOwners, FilesAreOffline

(* Loading puts stats of the profile into memory, and replaces no file     *)
(* that could be loaded.                                                   *)
LEMMA LoadFacts ==
  ASSUME StatsInv, LoadOrInitializeStats, title' = title
  PROVE  /\ mem' \in Stats /\ mem'.owner = user /\ (title = "t4" => mem'.kind = "offline")
         /\ FilesInOrder'
         /\ \A u \in Profiles : Intact(files[u]) => files'[u] = files[u]
         /\ ~diskFails => Intact(files'[user]) /\ files'[user].stats = mem'
<1>1. CASE Loadable
  BY <1>1 DEF LoadOrInitializeStats, Loadable, StatsPath, StatsInv, IntactFiles, StatsKeptApart,
     FilesOfOwners, FilesAreOffline, FilesInOrder
<1>2. CASE ~Loadable
  <2>1. mem' = NewStats /\ SaveStats(NewStats, TRUE) /\ ~Intact(files[user])
    BY <1>2 DEF LoadOrInitializeStats, Loadable, StatsPath
  <2>2. /\ FilesInOrder'
        /\ \A u \in Profiles \ {user} : files'[u] = files[u]
        /\ ~diskFails => files'[user] = StatsFile(NewStats)
    BY <2>1, NewStatsType, SaveFacts DEF StatsInv
  <2> QED
    BY <2>1, <2>2, NewStatsType, StatsFileIntact DEF StatsInv
<1> QED
  BY <1>1, <1>2

-----------------------------------------------------------------------------
(* The engine *)

LEMMA EngineSteps ==
  ASSUME StatsInv, EngineNext, UNCHANGED <<title, diskFails, t4Vars>>
  PROVE  StatsInv'
<1> USE DEF StatsInv, IntactFiles, StatsKeptApart, FilesOfOwners, FilesAreOffline, LiveKeepsLive,
            FetchedStatsOfUser, LoadedStatsOfUser, NativeStats, ReadsNative, LoadedAhead,
            t4Vars, engineVars, memVars, Profiles
<1>1. CASE ReadDone
  BY <1>1 DEF ReadDone
<1>2. CASE ChangeProfile
  BY <1>2 DEF ChangeProfile
<1>3. CASE SetUpGame
  BY <1>3 DEF SetUpGame
<1>4. CASE Play
  <2>1. /\ mem' \in Stats /\ mem'.kind = mem.kind /\ mem'.owner = mem.owner
        /\ mem'.progress = mem.progress + 1 /\ mem.progress \in Nat
    BY <1>4 DEF Play, Stats
  <2>2. \A u \in Profiles : Intact(files[u]) => files[u].stats.progress \in Nat
    BY DEF Stats
  <2>3. LoadedAhead'
    BY <1>4, <2>1, <2>2 DEF Play
  <2> QED
    BY <1>4, <2>1, <2>3 DEF Play
<1>5. CASE RestartTitle
  BY <1>5 DEF RestartTitle, MemoryLost
<1>6. CASE PowerOff
  <2>1. PICK f \in {ShortFile, GarbledFile} : files' = [files EXCEPT ![user] = f]
    BY <1>6 DEF PowerOff, StatsPath
  <2>2. ~Intact(f)
    BY DEF Intact, ShortFile, GarbledFile, StatsFile
  <2>3. DOMAIN files' = Profiles /\ \A u \in Profiles : Intact(files'[u]) => files'[u] = files[u]
    BY <2>1, <2>2
  <2> QED
    BY <1>6, <2>3 DEF PowerOff, MemoryLost
<1> QED
  BY <1>1, <1>2, <1>3, <1>4, <1>5, <1>6 DEF EngineNext

(* Uploading what the engine has fetched for the profile on Live.          *)
LEMMA NativeUploadStep ==
  ASSUME StatsInv, NativeUploadStats, ~offlineStatsLoaded, signin = "settled",
         UNCHANGED <<title, diskFails, engineVars, t4Vars>>
  PROVE  StatsInv'
<1>1. server' \in [Users -> Stats] /\ LiveKeepsLive'
  <2>1. CASE fetched /\ live
    <3>1. mem \in Stats /\ mem.owner = user /\ mem.kind = "live" /\ user \in Users
      BY <2>1 DEF StatsInv, FetchedStatsOfUser, NativeStats, Profiles
    <3> QED
      BY <2>1, <3>1 DEF NativeUploadStats, StatsInv, StatsKeptApart, LiveKeepsLive
  <2>2. CASE ~(fetched /\ live)
    BY <2>2 DEF NativeUploadStats, StatsInv, StatsKeptApart, LiveKeepsLive
  <2> QED
    BY <2>1, <2>2
<1> QED
  BY <1>1 DEF NativeUploadStats, StatsInv, IntactFiles, StatsKeptApart, FilesOfOwners,
     FilesAreOffline, FetchedStatsOfUser, LoadedStatsOfUser, NativeStats, ReadsNative, LoadedAhead,
     engineVars, t4Vars

LEMMA NativeReadStep ==
  ASSUME StatsInv, NativeReadStats, ~offlineStatsLoaded,
         UNCHANGED <<title, user, live, diskFails, files, t4Vars>>
  PROVE  StatsInv'
BY DEF NativeReadStats, StatsInv, IntactFiles, StatsKeptApart, FilesOfOwners, FilesAreOffline,
   LiveKeepsLive, FetchedStatsOfUser, LoadedStatsOfUser, NativeStats, ReadsNative, LoadedAhead, t4Vars

-----------------------------------------------------------------------------
(* T4 *)

(* Loading for a profile that is not on Live.                              *)
LEMMA LoadOfflineStep ==
  ASSUME StatsInv, title = "t4", LoadOffline, PlaysOffline, UNCHANGED <<title, user, live, diskFails>>
  PROVE  StatsInv'
<1>1. /\ fetched' /\ offlineStatsLoaded' = TRUE /\ offlineStatsUser' = user
      /\ UNCHANGED <<reading, server>> /\ ~live
  BY DEF LoadOffline, LoadOrInitializeStats, PlaysOffline, SignedInToLive
<1>2. /\ mem' \in Stats /\ mem'.owner = user /\ mem'.kind = "offline"
      /\ FilesInOrder' /\ (~diskFails => Intact(files'[user]) /\ files'[user].stats = mem')
  BY LoadFacts DEF LoadOffline
<1>3. mem'.progress \in Nat
  BY <1>2 DEF Stats
<1>4. LoadedAhead'
  BY <1>1, <1>2, <1>3 DEF LoadedAhead
<1> QED
  BY <1>1, <1>2, <1>4 DEF FilesInOrder, StatsInv, IntactFiles, StatsKeptApart, FilesOfOwners,
     FilesAreOffline, LiveKeepsLive, FetchedStatsOfUser, LoadedStatsOfUser, NativeStats, ReadsNative

(* Restoring saves only what was loaded for the profile that is signed in. *)
LEMMA RestoreStep ==
  ASSUME StatsInv, title = "t4", RestoreNativeStats, UNCHANGED <<title, user, live, diskFails>>
  PROVE  StatsInv'
<1>1. /\ offlineStatsLoaded' = FALSE /\ fetched' = FALSE /\ reading' = live
      /\ UNCHANGED <<mem, server, offlineStatsUser>>
  BY DEF RestoreNativeStats, NativeReadStats, LoadedAfterRestore
<1>2. FilesInOrder'
  <2>1. CASE RestoreSaves /\ fetched
    <3>1. mem \in Stats /\ mem.owner = user /\ mem.kind = "offline" /\ SaveStats(mem, writeNeeded)
      BY <2>1 DEF RestoreNativeStats, RestoreSaves, StatsInv, FetchedStatsOfUser, LoadedStatsOfUser
    <3> QED
      BY <3>1, SaveFacts
  <2>2. CASE ~(RestoreSaves /\ fetched)
    BY <2>2 DEF RestoreNativeStats, FilesInOrder, StatsInv, IntactFiles, StatsKeptApart,
       FilesOfOwners, FilesAreOffline
  <2> QED
    BY <2>1, <2>2
<1> QED
  BY <1>1, <1>2 DEF FilesInOrder, StatsInv, IntactFiles, StatsKeptApart, FilesOfOwners,
     FilesAreOffline, LiveKeepsLive, FetchedStatsOfUser, LoadedStatsOfUser, NativeStats, ReadsNative,
     LoadedAhead

(* A save in the middle of an offline game.                                *)
LEMMA T4SaveStep ==
  ASSUME StatsInv, title = "t4", UploadSaves, SaveStats(mem, writeNeeded), signin = "settled",
         UNCHANGED <<title, diskFails, engineVars, mem, fetched, reading, server, t4Vars>>
  PROVE  StatsInv'
<1>1. /\ mem \in Stats /\ mem.owner = user /\ mem.kind = "offline"
      /\ offlineStatsUser = user /\ offlineStatsLoaded /\ fetched
  BY DEF UploadSaves, StatsInv, FetchedStatsOfUser, LoadedStatsOfUser
<1>2. FilesInOrder' /\ (~diskFails => files'[user] = StatsFile(mem))
  BY <1>1, SaveFacts
<1>3. mem.progress \in Nat /\ Intact(StatsFile(mem)) /\ StatsFile(mem).stats = mem
  BY <1>1, StatsFileIntact DEF Stats
<1>4. LoadedAhead'
  BY <1>1, <1>2, <1>3 DEF LoadedAhead, t4Vars
<1> QED
  BY <1>1, <1>2, <1>4 DEF FilesInOrder, StatsInv, IntactFiles, StatsKeptApart, FilesOfOwners,
     FilesAreOffline, LiveKeepsLive, FetchedStatsOfUser, LoadedStatsOfUser, NativeStats, ReadsNative,
     engineVars, t4Vars

LEMMA T4Steps ==
  ASSUME StatsInv, title = "t4", T4Next, UNCHANGED <<title, diskFails>>
  PROVE  StatsInv'
<1>1. CASE T4ReadStatsHook
  <2>1. CASE PlaysOffline /\ LoadOffline
    BY <1>1, <2>1, LoadOfflineStep DEF T4ReadStatsHook
  <2>2. CASE RestoreNativeStats
    BY <1>1, <2>2, RestoreStep DEF T4ReadStatsHook
  <2>3. CASE ~offlineStatsLoaded /\ NativeReadStats /\ UNCHANGED <<files, writeNeeded, t4Vars>>
    BY <1>1, <2>3, NativeReadStep DEF T4ReadStatsHook
  <2> QED
    BY <1>1, <2>1, <2>2, <2>3 DEF T4ReadStatsHook
<1>2. CASE T4UploadStatsHook
  <2>1. CASE UploadRestores /\ RestoreNativeStats
    BY <1>2, <2>1, RestoreStep DEF T4UploadStatsHook, engineVars
  <2>2. CASE ~UploadRestores /\ PlaysOffline /\ UploadSaves
    BY <1>2, <2>2, T4SaveStep DEF T4UploadStatsHook
  <2>3. CASE ~UploadRestores /\ PlaysOffline /\ ~UploadSaves
    BY <1>2, <2>3 DEF T4UploadStatsHook, StatsInv, IntactFiles, StatsKeptApart, FilesOfOwners,
       FilesAreOffline, LiveKeepsLive, FetchedStatsOfUser, LoadedStatsOfUser, NativeStats, ReadsNative,
       LoadedAhead, engineVars, t4Vars
  <2>4. CASE ~UploadRestores /\ ~PlaysOffline
    BY <1>2, <2>4, NativeUploadStep DEF T4UploadStatsHook, UploadRestores
  <2> QED
    BY <1>2, <2>1, <2>2, <2>3, <2>4 DEF T4UploadStatsHook
<1>3. CASE LoadOfflineStats
  BY <1>3, LoadOfflineStep DEF LoadOfflineStats, engineVars
<1>4. CASE OpenMainMenu
  BY <1>4, RestoreStep DEF OpenMainMenu
<1> QED
  BY <1>1, <1>2, <1>3, <1>4 DEF T4Next

-----------------------------------------------------------------------------
(* IW3 *)

LEMMA Iw3LoadStep ==
  ASSUME StatsInv, title = "iw3", LoadOrInitializeStats, ~live,
         UNCHANGED <<title, user, live, diskFails, t4Vars>>
  PROVE  StatsInv'
<1>1. fetched' /\ UNCHANGED <<reading, server>>
  BY DEF LoadOrInitializeStats
<1>2. mem' \in Stats /\ mem'.owner = user /\ FilesInOrder'
  BY LoadFacts
<1> QED
  BY <1>1, <1>2 DEF FilesInOrder, StatsInv, IntactFiles, StatsKeptApart, FilesOfOwners,
     FilesAreOffline, LiveKeepsLive, FetchedStatsOfUser, LoadedStatsOfUser, NativeStats, ReadsNative,
     LoadedAhead, t4Vars

LEMMA Iw3Steps ==
  ASSUME StatsInv, title = "iw3", Iw3Next, UNCHANGED <<title, diskFails, t4Vars>>
  PROVE  StatsInv'
<1>1. CASE Iw3ReadStatsHook
  <2>1. CASE ReadsFile
    BY <1>1, <2>1, Iw3LoadStep DEF Iw3ReadStatsHook, ReadsFile, SignedInToLive, StatsInv
  <2>2. CASE ~ReadsFile
    BY <1>1, <2>2, NativeReadStep DEF Iw3ReadStatsHook, StatsInv
  <2> QED
    BY <2>1, <2>2
<1>2. CASE Iw3UploadStatsHook
  <2>1. CASE IsOfflineGame /\ fetched
    <3>1. SaveStats(mem, writeNeeded) /\ UNCHANGED <<engineVars, mem, fetched, reading, server>>
      BY <1>2, <2>1 DEF Iw3UploadStatsHook
    <3>2. mem \in Stats /\ mem.owner = user
      BY <1>2, <2>1 DEF Iw3UploadStatsHook, StatsInv, FetchedStatsOfUser
    <3>3. FilesInOrder'
      BY <3>1, <3>2, SaveFacts
    <3> QED
      BY <3>1, <3>3 DEF FilesInOrder, StatsInv, IntactFiles, StatsKeptApart, FilesOfOwners,
         FilesAreOffline, LiveKeepsLive, FetchedStatsOfUser, LoadedStatsOfUser, NativeStats, ReadsNative,
         LoadedAhead, engineVars, t4Vars
  <2>2. CASE IsOfflineGame /\ ~fetched
    BY <1>2, <2>2 DEF Iw3UploadStatsHook, StatsInv, IntactFiles, StatsKeptApart, FilesOfOwners,
       FilesAreOffline, LiveKeepsLive, FetchedStatsOfUser, LoadedStatsOfUser, NativeStats, ReadsNative,
       LoadedAhead, engineVars, t4Vars
  <2>3. CASE ~IsOfflineGame
    BY <1>2, <2>3, NativeUploadStep DEF Iw3UploadStatsHook, StatsInv
  <2> QED
    BY <2>1, <2>2, <2>3
<1>3. CASE EnsureOfflineStats \/ LoadStatsScript
  BY <1>3, Iw3LoadStep DEF EnsureOfflineStats, LoadStatsScript, SignedInToLive, engineVars
<1> QED
  BY <1>1, <1>2, <1>3 DEF Iw3Next

-----------------------------------------------------------------------------
THEOREM StatsInvHolds == Spec => []StatsInv
<1>1. Init => StatsInv
  <2> SUFFICES ASSUME Init PROVE StatsInv
    OBVIOUS
  <2> USE DEF Init
  <2>1. \A u \in Profiles : ~Intact(files[u])
    BY DEF Intact, NoFile
  <2>2. server \in [Users -> Stats] /\ LiveKeepsLive
    BY DEF Stats, LiveKeepsLive, Profiles
  <2>3. DOMAIN files = Profiles /\ Nobody \in Profiles
    BY DEF Profiles
  <2> QED
    BY <2>1, <2>2, <2>3 DEF StatsInv, IntactFiles, StatsKeptApart, FilesOfOwners, FilesAreOffline,
       FetchedStatsOfUser, LoadedStatsOfUser, NativeStats, ReadsNative, LoadedAhead
<1>2. StatsInv /\ [Next]_vars => StatsInv'
  <2> SUFFICES ASSUME StatsInv, [Next]_vars PROVE StatsInv'
    OBVIOUS
  <2>1. CASE Next
    BY <2>1, T4Steps, Iw3Steps, EngineSteps DEF Next
  <2>2. CASE UNCHANGED vars
    BY <2>2 DEF vars, engineVars, memVars, t4Vars, StatsInv, IntactFiles, StatsKeptApart,
       FilesOfOwners, FilesAreOffline, LiveKeepsLive, FetchedStatsOfUser, LoadedStatsOfUser,
       NativeStats, ReadsNative, LoadedAhead
  <2> QED
    BY <2>1, <2>2
<1> QED
  BY <1>1, <1>2, PTL DEF Spec

(* Each profile's file holds its own stats, in T4 nothing but offline      *)
(* stats, and Live never gets offline stats or those of another profile:   *)
(* the saves of t4/mp stats.cpp:385-414 and the guard at :363-378, and     *)
(* iw3/mp stats.cpp:503-523.                                               *)
THEOREM StatsStayApart == Spec => []StatsKeptApart
<1>1. StatsInv => StatsKeptApart
  BY DEF StatsInv
<1> QED
  BY <1>1, StatsInvHolds, PTL

(* A profile plays with its own stats, in both titles, and T4's            *)
(* offlineStatsLoaded and offlineStatsUser tell the truth about memory.    *)
THEOREM ProfilesPlayOwnStats == Spec => []PlayersOwnStats
<1>1. StatsInv => PlayersOwnStats
  BY DEF StatsInv, PlayersOwnStats
<1> QED
  BY <1>1, StatsInvHolds, PTL

-----------------------------------------------------------------------------
(* A file that is replaced by stats that are at least as far.              *)
LEMMA SaveKeepsProgress ==
  ASSUME StatsInv, title = "t4", ~diskFails, title' = title, SaveStats(mem, writeNeeded),
         offlineStatsLoaded, fetched, offlineStatsUser = user
  PROVE  KeepsProgress /\ files'[user] = StatsFile(mem)
<1>1. mem \in Stats /\ mem.owner = user /\ mem.kind = "offline"
  BY DEF StatsInv, FetchedStatsOfUser, LoadedStatsOfUser
<1>2. /\ \A u \in Profiles \ {user} : files'[u] = files[u]
      /\ files'[user] = StatsFile(mem)
  BY <1>1, SaveFacts
<1>3. Intact(StatsFile(mem)) /\ StatsFile(mem).stats = mem
  BY <1>1, StatsFileIntact
<1>4. \A u \in Profiles : Intact(files[u]) => files[u].stats.progress \in Nat
  BY DEF StatsInv, IntactFiles, Stats
<1>5. files[user].stats.progress <= mem.progress /\ mem.progress \in Nat
  BY <1>1 DEF StatsInv, LoadedAhead, Stats
<1> QED
  BY <1>2, <1>3, <1>4, <1>5 DEF KeepsProgress

LEMMA SameFilesKeepProgress ==
  ASSUME StatsInv, \A u \in Profiles : Intact(files[u]) => files'[u] = files[u]
  PROVE  KeepsProgress
<1>1. \A u \in Profiles : Intact(files[u]) => files[u].stats.progress \in Nat
  BY DEF StatsInv, IntactFiles, Stats
<1> QED
  BY <1>1 DEF KeepsProgress

LEMMA RestoreKeepsProgress ==
  ASSUME StatsInv, title = "t4", ~diskFails, title' = title, RestoreNativeStats
  PROVE  KeepsProgress /\ SavesUnsaved
<1>1. CASE RestoreSaves /\ fetched
  BY <1>1, SaveKeepsProgress DEF RestoreNativeStats, RestoreSaves, SavesUnsaved
<1>2. CASE ~(RestoreSaves /\ fetched)
  BY <1>2, SameFilesKeepProgress DEF RestoreNativeStats, RestoreSaves, SavesUnsaved
<1> QED
  BY <1>1, <1>2

(* On a disk that works, whoever signs in or out between two steps: a save  *)
(* never replaces more by less, and what is not saved is saved before the   *)
(* native stats take its place (t4/mp stats.cpp:368-380); where it is not,  *)
(* the title restarts, or reads the file again in an offline game (:384).  *)
THEOREM SavedBeforeReplaced == Spec => ProgressReachesDisk
<1>1. ASSUME StatsInv, [Next]_vars, title = "t4", ~diskFails
      PROVE  KeepsProgress /\ SavesUnsaved
  <2> USE <1>1
  <2>1. CASE T4Next /\ title' = title
    <3>1. CASE RestoreNativeStats
      BY <2>1, <3>1, RestoreKeepsProgress
    <3>2. CASE LoadOffline /\ PlaysOffline
      <4>1. KeepsProgress
        BY <2>1, <3>2, LoadFacts, SameFilesKeepProgress DEF LoadOffline
      <4>2. ASSUME offlineStatsLoaded, fetched, offlineStatsUser = user
            PROVE  PlaysOffline /\ offlineStatsLoaded' /\ mem' = files[user].stats
        <5>1. Loadable
          BY <4>2 DEF StatsInv, LoadedAhead, Loadable, StatsPath
        <5> QED
          BY <3>2, <5>1 DEF LoadOffline, LoadOrInitializeStats, StatsPath
      <4> QED
        BY <4>1, <4>2 DEF SavesUnsaved
    <3>3. CASE UNCHANGED files /\ (~offlineStatsLoaded \/ UNCHANGED <<mem, fetched>>)
      BY <3>3, SameFilesKeepProgress DEF SavesUnsaved, GivenUp
    <3>4. CASE /\ UploadSaves /\ SaveStats(mem, writeNeeded) /\ signin = "settled"
               /\ UNCHANGED <<mem, fetched>>
      <4>1. offlineStatsUser = user /\ offlineStatsLoaded /\ fetched
        BY <3>4 DEF UploadSaves, StatsInv, LoadedStatsOfUser
      <4> QED
        BY <2>1, <3>4, <4>1, SaveKeepsProgress DEF SavesUnsaved
    <3> QED
      BY <2>1, <3>1, <3>2, <3>3, <3>4
      DEF T4Next, T4ReadStatsHook, T4UploadStatsHook, LoadOfflineStats, OpenMainMenu, NativeUploadStats
  <2>2. CASE EngineNext /\ UNCHANGED <<title, t4Vars>>
    <3>1. UNCHANGED files
      BY <2>2 DEF EngineNext, ReadDone, ChangeProfile, SetUpGame, Play, RestartTitle, PowerOff
    <3>2. \/ ~offlineStatsLoaded \/ UNCHANGED <<mem, fetched>>
          \/ fetched' = fetched /\ mem' = [mem EXCEPT !.progress = mem.progress + 1]
          \/ mem' = NoStats
      BY <2>2 DEF EngineNext, ReadDone, ChangeProfile, SetUpGame, Play, RestartTitle, PowerOff,
         MemoryLost, memVars, StatsInv, ReadsNative
    <3> QED
      BY <3>1, <3>2, SameFilesKeepProgress DEF SavesUnsaved, GivenUp
  <2>3. CASE UNCHANGED vars
    BY <2>3, SameFilesKeepProgress DEF vars, memVars, SavesUnsaved, GivenUp
  <2> QED
    BY <2>1, <2>2, <2>3 DEF Next
<1> QED
  BY <1>1, StatsInvHolds, PTL DEF Spec, ProgressReachesDisk
=============================================================================
