---------------------------- MODULE OfflineStats ----------------------------
(***************************************************************************)
(* The offline stats of iw3 and t4 (game/<title>/mp/components/stats.cpp): *)
(* one controller's stats in the game's memory, a file per profile under   *)
(* codxe:\players, the profile's stats on Xbox Live, and the engine around *)
(* them.  In IW3 a profile that is not signed in to Live reads its stats   *)
(* from its file, and an offline game saves them there.  In T4 offline     *)
(* stats take the place of the profile's own while an offline game is set  *)
(* up; offlineStatsLoaded remembers that, and for whom, until the native   *)
(* stats are restored.                                                     *)
(*                                                                         *)
(* Stats are a record of whose they are, where they come from and how much *)
(* has been played for them.                                               *)
(***************************************************************************)
EXTENDS Naturals

CONSTANTS
  Users,        \* profiles that can sign in on the controller
  MaxProgress,  \* bound: what can be played for
  RereadsOnLive \* titles that read stats again when the connection to Live changes

Nobody == "nobody"   \* controller_%u.stat

ASSUME StatsStorageAssumption ==
  /\ Nobody \notin Users
  /\ MaxProgress \in Nat
  /\ "iw3" \in RereadsOnLive

VARIABLES
  title,        \* "iw3" or "t4"
  user,         \* the profile that is signed in, or Nobody
  live,         \* it is signed in to Live
  signin,       \* "changed" until the title has read the new profile's stats
  game,         \* what the menus have set up
  mem,          \* playerStats
  fetched,      \* statsFetched
  writeNeeded,  \* statWriteNeeded
  reading,      \* a read from Live is under way
  files,        \* per profile: its .stat file
  server,       \* per profile: its stats on Live
  diskFails,    \* of this behaviour: writes may fail and the power may go
  offlineStatsLoaded, \* T4's statics, which survive a restart of the title
  offlineStatsUser

engineVars == <<user, live, signin, game>>
memVars == <<mem, fetched, writeNeeded>>
t4Vars == <<offlineStatsLoaded, offlineStatsUser>>
vars == <<title, engineVars, memVars, reading, files, server, diskFails, t4Vars>>

Games == {"menu", "splitscreen", "systemlink", "online"}
Profiles == Users \union {Nobody}
Stats == [owner : Profiles, kind : {"offline", "live"}, progress : 0..MaxProgress]
NoStats == [owner |-> Nobody, kind |-> "none"]
Damaged == [owner |-> Nobody, kind |-> "damaged"]

(* A file: none, one of the wrong size, or one of the right size whose     *)
(* checksum fits its stats or does not.                                    *)
NoFile == [size |-> "none"]
ShortFile == [size |-> "short"]
StatsFile(s) == [size |-> "full", stats |-> s]
GarbledFile == StatsFile(Damaged)
Intact(f) == f.size = "full" /\ f.stats # Damaged

Init ==
  /\ title \in {"iw3", "t4"}
  /\ diskFails \in BOOLEAN
  /\ user \in Profiles
  /\ live \in BOOLEAN /\ (live => user # Nobody)
  /\ signin = "changed"
  /\ game = "menu"
  /\ mem = NoStats
  /\ fetched = FALSE /\ writeNeeded = FALSE /\ reading = FALSE
  /\ files = [u \in Profiles |-> NoFile]
  /\ server = [u \in Users |-> [owner |-> u, kind |-> "live", progress |-> 0]]
  /\ offlineStatsLoaded = FALSE
  /\ offlineStatsUser = Nobody

(* IW3: the dvars; T4: the dvars, or the setup menus that are open.        *)
IsOfflineGame == game \in {"splitscreen", "systemlink"}
SignedInToLive == live
NewStats == [owner |-> user, kind |-> "offline", progress |-> 0]

-----------------------------------------------------------------------------
(* filesystem.cpp and the stats files *)

(* What WriteFileToDisk may leave and return.  It fails only if the file   *)
(* cannot be opened: a short fwrite counts as success.                     *)
WriteFileToDisk(s) ==
  {[file |-> StatsFile(s), ok |-> TRUE]} \union
  (IF diskFails THEN {[file |-> ShortFile, ok |-> TRUE], [file |-> files[user], ok |-> FALSE]}
   ELSE {})

(* GetStatsPath: the profile's file, the controller's if there is none.    *)
StatsPath == user

(* SaveStats of stats s that are fetched.                                  *)
SaveStats(s, needed) ==
  \E w \in WriteFileToDisk(s) :
    /\ files' = [files EXCEPT ![StatsPath] = w.file]
    /\ writeNeeded' = (needed /\ ~w.ok)

LoadableUnchecked == files[StatsPath].size = "full"

(* LoadStats takes a file of the right size, version and checksum.         *)
Loadable == Intact(files[StatsPath])

(* InitializeStats; LoadOrInitializeStats once its guards hold.            *)
LoadOrInitializeStats ==
  /\ fetched' = TRUE
  /\ IF Loadable
     THEN /\ mem' = files[StatsPath].stats
          /\ writeNeeded' = FALSE
          /\ UNCHANGED files
     ELSE /\ mem' = NewStats
          /\ SaveStats(NewStats, TRUE)
  /\ UNCHANGED <<reading, server>>

-----------------------------------------------------------------------------
(* The engine's own stats *)

NativeReadStats ==
  /\ fetched' = FALSE
  /\ reading' = live
  /\ UNCHANGED <<mem, server>>

NativeUploadStats ==
  /\ IF fetched /\ live
     THEN /\ server' = [server EXCEPT ![user] = mem]
          /\ writeNeeded' = FALSE
     ELSE UNCHANGED <<server, writeNeeded>>
  /\ UNCHANGED <<mem, fetched, reading, files>>

ReadDone ==
  /\ reading /\ signin = "settled"
  /\ reading' = FALSE
  /\ mem' = server[user]
  /\ fetched' = TRUE /\ writeNeeded' = FALSE
  /\ UNCHANGED <<engineVars, files, server>>

(* The engine reads the stats of a profile that has signed in before it    *)
(* does anything else with stats; a read from Live that was under way is   *)
(* dropped.  It need not do so when the profile stays and only its         *)
(* connection to Live comes or goes.                                       *)
ChangeProfile ==
  /\ signin = "settled"
  /\ user' \in Profiles /\ live' \in BOOLEAN
  /\ live' => user' # Nobody
  /\ signin' = IF user' # user \/ title \in RereadsOnLive THEN "changed" ELSE "settled"
  /\ reading' = FALSE
  /\ UNCHANGED <<game, memVars, files, server>>

SetUpGame ==
  /\ signin = "settled"
  /\ game' \in Games
  /\ UNCHANGED <<user, live, signin, memVars, reading, files, server>>

Play ==
  /\ signin = "settled" /\ game # "menu"
  /\ fetched /\ mem.progress < MaxProgress
  /\ mem' = [mem EXCEPT !.progress = @ + 1]
  /\ writeNeeded' = TRUE
  /\ UNCHANGED <<engineVars, fetched, reading, files, server>>

MemoryLost ==
  /\ mem' = NoStats
  /\ fetched' = FALSE /\ writeNeeded' = FALSE /\ reading' = FALSE
  /\ game' = "menu" /\ signin' = "changed"
  /\ UNCHANGED <<user, live, server>>

RestartTitle == MemoryLost /\ UNCHANGED files

(* The power goes while the file is written.                               *)
PowerOff ==
  /\ diskFails /\ signin = "settled" /\ fetched /\ ~live /\ IsOfflineGame
  /\ files' \in {[files EXCEPT ![StatsPath] = f] : f \in {ShortFile, GarbledFile}}
  /\ MemoryLost

EngineNext == ReadDone \/ ChangeProfile \/ SetUpGame \/ Play \/ RestartTitle \/ PowerOff

-----------------------------------------------------------------------------
(* T4 *)

PlaysOffline == IsOfflineGame /\ ~SignedInToLive

LoadOffline ==
  /\ LoadOrInitializeStats
  /\ offlineStatsLoaded' = TRUE
  /\ offlineStatsUser' = user

(* Mutants: whoever is signed in now gets the file; nobody does.           *)
RestoreSavesForAnyone == writeNeeded
RestoreSavesNever == FALSE
RestoreSaves == offlineStatsUser = user /\ writeNeeded

(* Mutant: the restored stats still count as the loaded ones.              *)
LoadedAfterRestoreKeep == TRUE
LoadedAfterRestore == FALSE

RestoreNativeStats ==
  /\ offlineStatsLoaded
  /\ IF RestoreSaves /\ fetched THEN SaveStats(mem, writeNeeded) ELSE UNCHANGED <<files, writeNeeded>>
  /\ offlineStatsLoaded' = LoadedAfterRestore
  /\ NativeReadStats
  /\ UNCHANGED offlineStatsUser

T4ReadStatsHook ==
  /\ \/ PlaysOffline /\ LoadOffline
     \/ ~PlaysOffline /\ RestoreNativeStats
     \/ /\ ~PlaysOffline /\ ~offlineStatsLoaded
        /\ NativeReadStats
        /\ UNCHANGED <<files, writeNeeded, t4Vars>>
  /\ signin' = "settled"
  /\ UNCHANGED <<user, live, game>>

UploadRestores == offlineStatsLoaded /\ ~PlaysOffline
UploadSaves == offlineStatsLoaded /\ writeNeeded /\ fetched

T4UploadStatsHook ==
  /\ signin = "settled"
  /\ \/ UploadRestores /\ RestoreNativeStats
     \/ /\ ~UploadRestores
        /\ IF PlaysOffline
           THEN /\ IF UploadSaves THEN SaveStats(mem, writeNeeded) ELSE UNCHANGED <<files, writeNeeded>>
                /\ UNCHANGED <<mem, fetched, reading, server>>
           ELSE NativeUploadStats
        /\ UNCHANGED t4Vars
  /\ UNCHANGED engineVars

(* The setup menus' onOpen, and StartServer of an offline game.            *)
LoadOfflineStats ==
  /\ signin = "settled"
  /\ PlaysOffline
  /\ ~offlineStatsLoaded \/ ~fetched \/ offlineStatsUser # user
  /\ LoadOffline
  /\ UNCHANGED engineVars

(* The main menu or a Live menu opens: RestoreLiveStats.                   *)
OpenMainMenu ==
  /\ signin = "settled"
  /\ RestoreNativeStats
  /\ game' = "menu"
  /\ UNCHANGED <<user, live, signin>>

T4Next == T4ReadStatsHook \/ T4UploadStatsHook \/ LoadOfflineStats \/ OpenMainMenu

-----------------------------------------------------------------------------
(* IW3 *)

ReadsFile == ~SignedInToLive

Iw3ReadStatsHook ==
  /\ IF ReadsFile THEN LoadOrInitializeStats
     ELSE NativeReadStats /\ UNCHANGED <<files, writeNeeded>>
  /\ signin' = "settled"
  /\ UNCHANGED <<user, live, game>>

Iw3UploadStatsHook ==
  /\ signin = "settled"
  /\ IF IsOfflineGame
     THEN /\ IF fetched THEN SaveStats(mem, writeNeeded) ELSE UNCHANGED <<files, writeNeeded>>
          /\ UNCHANGED <<mem, fetched, reading, server>>
     ELSE NativeUploadStats
  /\ UNCHANGED engineVars

(* The class menus of a split-screen game open.                            *)
EnsureOfflineStats ==
  /\ signin = "settled"
  /\ game = "splitscreen" /\ ~SignedInToLive /\ ~fetched
  /\ LoadOrInitializeStats
  /\ UNCHANGED engineVars

(* The setup menus' onOpen.                                                *)
LoadStatsScript ==
  /\ signin = "settled"
  /\ ~SignedInToLive
  /\ LoadOrInitializeStats
  /\ UNCHANGED engineVars

Iw3Next == Iw3ReadStatsHook \/ Iw3UploadStatsHook \/ EnsureOfflineStats \/ LoadStatsScript

Next ==
  /\ \/ title = "t4" /\ T4Next
     \/ title = "iw3" /\ Iw3Next /\ UNCHANGED t4Vars
     \/ EngineNext /\ UNCHANGED t4Vars
  /\ UNCHANGED <<title, diskFails>>

Spec == Init /\ [][Next]_vars

-----------------------------------------------------------------------------
(* Properties *)

(* Types.                                                                  *)
TypeOK ==
  /\ title \in {"iw3", "t4"}
  /\ user \in Profiles /\ live \in BOOLEAN /\ signin \in {"settled", "changed"}
  /\ game \in Games
  /\ mem \in Stats \union {NoStats}
  /\ fetched \in BOOLEAN /\ writeNeeded \in BOOLEAN /\ reading \in BOOLEAN
  /\ files \in [Profiles -> {NoFile, ShortFile, GarbledFile} \union {StatsFile(s) : s \in Stats}]
  /\ server \in [Users -> Stats]
  /\ diskFails \in BOOLEAN
  /\ offlineStatsLoaded \in BOOLEAN /\ offlineStatsUser \in Profiles

(* A profile's file holds that profile's stats, across sign-ins in the     *)
(* middle of games and restarts (the paths of SaveStats and the profile    *)
(* that the memory belongs to, RestoreNativeStats' offlineStatsUsers).     *)
FilesOfOwners ==
  \A u \in Profiles : Intact(files[u]) => files[u].stats.owner = u

(* Files hold offline stats only: "offline stats (unlocked on first use)   *)
(* are only for profiles that are not signed in to Live" (iw3 stats.cpp).  *)
FilesAreOffline ==
  \A u \in Profiles : Intact(files[u]) => files[u].stats.kind = "offline"

(* Live never gets unlocked offline stats, nor those of another profile:   *)
(* "Xbox Live profiles keep their Live stats".                             *)
LiveKeepsLive ==
  \A u \in Users : server[u].owner = u /\ server[u].kind = "live"

(* Neither files nor Live mix the stats of two profiles, nor Live's stats  *)
(* with offline ones, nor T4's files offline stats with those of Live.     *)
StatsKeptApart ==
  FilesOfOwners /\ LiveKeepsLive /\ (title = "t4" => FilesAreOffline)

(* IW3's files hold offline stats only: the read hook leaves the stats of a *)
(* profile that is on Live to the engine (stats.cpp:486).                   *)
Iw3FilesAreOffline == title = "iw3" => FilesAreOffline

(* The stats that the title plays with are those of the profile that is    *)
(* signed in, whoever came and went meanwhile, whether they were read from *)
(* a file or from Live, and never a damaged file                           *)
(* (iw3/mp/components/stats.cpp:404, :508-516, t4/mp's :349-397).            *)
FetchedStatsOfUser ==
  fetched => mem \in Stats /\ (signin = "settled" => mem.owner = user)

(* T4: while offline stats count as loaded, the stats that are fetched are *)
(* the offline stats of the profile they were loaded for, and it is the    *)
(* one that is signed in: no fetch from Live, restart or change of profile *)
(* slips in between (every way into and out of offlineStatsLoaded).        *)
LoadedStatsOfUser ==
  offlineStatsLoaded /\ fetched =>
    /\ mem.kind = "offline" /\ mem.owner = offlineStatsUser
    /\ signin = "settled" => offlineStatsUser = user

(* A profile plays with its own stats, and offlineStatsLoaded and          *)
(* offlineStatsUser tell the truth about them.                             *)
PlayersOwnStats == FetchedStatsOfUser /\ LoadedStatsOfUser

(* While the disk works, saved progress is never replaced by less: what    *)
(* profiles come and go between a load and a save (LoadStats, SaveStats).  *)
KeepsProgress ==
  \A u \in Profiles : Intact(files[u]) =>
    /\ Intact(files'[u])
    /\ files'[u].stats.progress >= files[u].stats.progress

(* The stats in memory are given up: they are not as they were, nor played *)
(* for once more.                                                          *)
GivenUp == ~fetched' \/ mem' \notin {mem, [mem EXCEPT !.progress = @ + 1]}

(* While the disk works, unsaved offline stats of the profile that is       *)
(* signed in are in its file before Live's take their place                *)
(* (RestoreNativeStats saves before the native read), whatever reads are   *)
(* under way.  Two things take them back to what was saved last: a restart  *)
(* of the title, and stats that the engine reads again in an offline game,  *)
(* which are those of the file (LiveStorage_ReadStats_Hook, :384-387).     *)
SavesUnsaved ==
  offlineStatsLoaded /\ fetched /\ writeNeeded /\ offlineStatsUser = user /\ GivenUp =>
    \/ files'[user] = StatsFile(mem)
    \/ mem' = NoStats
    \/ PlaysOffline /\ offlineStatsLoaded' /\ mem' = files[user].stats

(* On a working disk what T4 has saved stays, and what is not yet saved is  *)
(* saved before it leaves offline stats.  What was played since the last    *)
(* save is lost with a restart, a change of profile, or a read in an        *)
(* offline game.                                                           *)
ProgressReachesDisk ==
  [][title = "t4" /\ ~diskFails => KeepsProgress /\ SavesUnsaved]_vars
=============================================================================
