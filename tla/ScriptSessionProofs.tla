-------------------------- MODULE ScriptSessionProofs --------------------------
(***************************************************************************)
(* What holds of script sessions for every value of the constants: of the  *)
(* files that scripts open, of the strings of their hud elements, of the    *)
(* calls they make, of the fields of players and of what they make of      *)
(* entities.  MCScriptSession checks the same properties on a small        *)
(* instance.                                                               *)
(***************************************************************************)
EXTENDS ScriptFiles, HudStrings, ScriptCalls, ScriptFields, ScriptEntities, WellFoundedInduction, TLAPS

-----------------------------------------------------------------------------
(* For any files, size of the table, lines, sessions and titles. *)

(* Lines whose write call succeeded are on disk or in the buffer of a slot  *)
(* that is open.                                                           *)
Buffered(f) == UNION {handles[h].buffer : h \in {g \in Handle : Open(g) /\ handles[g].file = f}}

LinesKept ==
  \A f \in Files :
    /\ disk[f] # NoFile => acked[f] \subseteq disk[f] \union Buffered(f)
    /\ disk[f] = NoFile => acked[f] = {} /\ \A h \in Handle : Open(h) => handles[h].file # f

(* Nothing is left between titles, and between sessions only by IW5.       *)
Leftovers ==
  /\ ~running /\ title # "iw5" => \A h \in Handle : ~Open(h)
  /\ title = "none" => opened = NoOpen /\ \A h \in Handle : args[h] = NoArgs

FilesInv == SessionOwnsHandles /\ HandlesNameFiles /\ LinesKept /\ Leftovers

LEMMA FilesHold ==
  ASSUME FilesInv
  PROVE  FilesOfSession
<1>1. ASSUME NEW f \in Files, \A h \in Handle : Open(h) => handles[h].file # f
      PROVE  Buffered(f) = {}
  BY <1>1 DEF Buffered
<1> QED
  BY <1>1 DEF FilesInv, FilesOfSession, NothingLost, LinesKept, FS_TestFile, FileExists, FileRead,
     CanOpen

LEMMA ClosedOrOpen ==
  ASSUME NEW r \in OpenFiles
  PROVE  r # Closed
BY DEF OpenFiles, Modes, Closed

(* The slot that Open takes is free and within the table.                  *)
LEMMA FirstFreeIsFree ==
  ASSUME FreeSlots # {}
  PROVE  FirstFree \in Handle /\ ~Open(FirstFree)
<1> DEFINE C == FreeSlots
<1>1. C \subseteq Nat
  BY ScriptFilesAssumption DEF FreeSlots, Handle
<1>2. PICK x \in C : \A y \in C : ~(<<y, x>> \in OpToRel(<, Nat))
  <2> HIDE DEF C
  <2> QED BY <1>1, NatLessThanWellFounded, WFMin, Zenon DEF C
<1>3. ASSUME NEW y \in C PROVE x <= y
  <2>1. x \in Nat /\ y \in Nat
    BY <1>1
  <2>2. ~(<<y, x>> \in OpToRel(<, Nat))
    BY <1>2
  <2>3. ~(y < x)
    BY <2>1, <2>2, Zenon DEF OpToRel
  <2> QED
    BY <2>1, <2>3
<1>4. FirstFree \in C
  BY <1>3 DEF FirstFree
<1> QED
  BY <1>4 DEF FreeSlots

(* What closing the slots in hs leaves on disk.                            *)
LEMMA FlushedKeeps ==
  ASSUME TypeOK, NEW hs \in SUBSET Handle
  PROVE  /\ Flushed(hs) \in [Files -> (SUBSET Lines) \union {NoFile}]
         /\ \A f \in Files : disk[f] = NoFile <=> Flushed(hs)[f] = NoFile
         /\ \A f \in Files : disk[f] # NoFile =>
              /\ disk[f] \subseteq Flushed(hs)[f]
              /\ \A h \in hs :
                   Open(h) /\ handles[h].file = f => handles[h].buffer \subseteq Flushed(hs)[f]
<1> DEFINE B(f) == UNION {handles[h].buffer : h \in {g \in hs : Open(g) /\ handles[g].file = f}}
<1>1. \A f \in Files : B(f) \subseteq Lines
  BY DEF TypeOK, OpenFiles, Open
<1>2. \A f \in Files : Flushed(hs)[f] = IF disk[f] = NoFile THEN NoFile ELSE disk[f] \union B(f)
  BY DEF Flushed
<1>3. \A f \in Files, h \in hs : Open(h) /\ handles[h].file = f => handles[h].buffer \subseteq B(f)
  OBVIOUS
<1>4. \A f \in Files : disk[f] # NoFile => disk[f] \union B(f) \in SUBSET Lines
  BY <1>1 DEF TypeOK
<1>5. NoFile \notin SUBSET Lines
  BY ScriptFilesAssumption DEF NoFile
<1>6. \A f \in Files : Flushed(hs)[f] \in (SUBSET Lines) \union {NoFile}
  BY <1>2, <1>4
<1>7. Flushed(hs) \in [Files -> (SUBSET Lines) \union {NoFile}]
  BY <1>6 DEF Flushed
<1> HIDE DEF B
<1> QED
  BY <1>2, <1>3, <1>4, <1>5, <1>7

(* Closing the slots in hs loses no line and leaves the others as they are. *)
LEMMA ClosingKeeps ==
  ASSUME FilesInv, NEW hs \in SUBSET Handle,
         handles' = [h \in Handle |-> IF h \in hs THEN Closed ELSE handles[h]],
         disk' = Flushed(hs), UNCHANGED acked
  PROVE  /\ handles' \in [Handle -> OpenFiles \union {Closed}]
         /\ disk' \in [Files -> (SUBSET Lines) \union {NoFile}]
         /\ \A h \in Handle : Open(h)' <=> h \notin hs /\ Open(h)
         /\ \A h \in Handle : Open(h)' => handles'[h] = handles[h]
         /\ LinesKept'
<1>1. /\ handles' \in [Handle -> OpenFiles \union {Closed}]
      /\ \A h \in Handle : Open(h)' <=> h \notin hs /\ Open(h)
      /\ \A h \in Handle : Open(h)' => handles'[h] = handles[h]
  BY DEF FilesInv, SessionOwnsHandles, TypeOK, Open
<1>2. TypeOK
  BY DEF FilesInv, SessionOwnsHandles
<1>3. ASSUME NEW f \in Files, disk[f] # NoFile
      PROVE  Buffered(f) \subseteq disk'[f] \union Buffered(f)'
  <2>1. ASSUME NEW h \in Handle, Open(h), handles[h].file = f
        PROVE  handles[h].buffer \subseteq disk'[f] \union Buffered(f)'
    <3>1. CASE h \in hs
      BY <1>2, <1>3, <2>1, <3>1, FlushedKeeps
    <3>2. CASE h \notin hs
      BY <1>1, <2>1, <3>2 DEF Buffered
    <3> QED
      BY <3>1, <3>2
  <2> QED
    BY <2>1 DEF Buffered
<1>4. /\ disk' \in [Files -> (SUBSET Lines) \union {NoFile}]
      /\ \A f \in Files : disk[f] = NoFile <=> disk'[f] = NoFile
      /\ \A f \in Files : disk[f] # NoFile => disk[f] \subseteq disk'[f]
  BY <1>2, FlushedKeeps
<1>5. ASSUME NEW f \in Files, disk'[f] # NoFile
      PROVE  acked'[f] \subseteq disk'[f] \union Buffered(f)'
  BY <1>3, <1>4, <1>5 DEF FilesInv, LinesKept
<1>6. ASSUME NEW f \in Files, disk'[f] = NoFile
      PROVE  acked'[f] = {} /\ \A h \in Handle : Open(h)' => handles'[h].file # f
  BY <1>1, <1>4, <1>6 DEF FilesInv, LinesKept
<1> QED
  BY <1>1, <1>4, <1>5, <1>6 DEF LinesKept

(* A call that opens nothing returns no number to be mistaken.             *)
LEMMA NoNumber ==
  ASSUME opened' = NoOpen, title' \in AllTitles \union {"none"},
         title' = "iw2" => ColumnsOfOpenFile'
  PROVE  HandlesNameFiles'
<1>1. title' # "iw4" => Slot(opened.number)' = 0
  BY DEF Slot, IW2Slot, IW3Slot, IW5Slot, Get, IsValidHandle, Handle, NoOpen, AllTitles
<1> QED
  BY <1>1 DEF HandlesNameFiles, ColumnsOfOpenFile, NoOpen

LEMMA CloseFileKeeps ==
  ASSUME FilesInv, NEW n \in Numbers, CloseFile(n)
  PROVE  FilesInv'
<1> DEFINE s == Slot(n)
<1>1. s \in Handle /\ Open(s)
  BY ScriptFilesAssumption DEF CloseFile, Slot, IW2Slot, IW3Slot, IW4Slot, IW5Slot, Get,
     IsValidHandle, Handle,
     FilesInv, SessionOwnsHandles, TypeOK, AllTitles
<1>2. /\ handles' = [h \in Handle |-> IF h \in {s} THEN Closed ELSE handles[h]]
      /\ disk' = Flushed({s}) /\ UNCHANGED <<title, running, session, acked>>
      /\ args' = [args EXCEPT ![s] = NoArgs] /\ opened' = NoOpen /\ running
  BY <1>1 DEF CloseFile, Close, FilesInv, SessionOwnsHandles, TypeOK
<1> HIDE DEF s
<1>3. /\ handles' \in [Handle -> OpenFiles \union {Closed}]
      /\ disk' \in [Files -> (SUBSET Lines) \union {NoFile}]
      /\ \A h \in Handle : Open(h)' <=> h \notin {s} /\ Open(h)
      /\ \A h \in Handle : Open(h)' => handles'[h] = handles[h]
      /\ LinesKept'
  BY <1>1, <1>2, ClosingKeeps
<1>4. SessionOwnsHandles'
  BY <1>1, <1>2, <1>3 DEF FilesInv, SessionOwnsHandles, TypeOK
<1>5. HandlesNameFiles'
  <2>1. title' \in AllTitles
    BY <1>2, ScriptFilesAssumption DEF FilesInv, SessionOwnsHandles, TypeOK
  <2>2. title = "iw2" => ColumnsOfOpenFile'
    BY <1>1, <1>2, <1>3 DEF FilesInv, SessionOwnsHandles, TypeOK, HandlesNameFiles,
       ColumnsOfOpenFile
  <2> QED
    BY <1>2, <2>1, <2>2, NoNumber
<1>6. Leftovers'
  BY <1>1, <1>2, <1>3 DEF FilesInv, Leftovers, SessionOwnsHandles, TypeOK
<1> QED
  BY <1>3, <1>4, <1>5, <1>6 DEF FilesInv

(* A slot that a script's number names is open.                            *)
LEMMA SlotIsOpen ==
  ASSUME FilesInv, NEW n \in Numbers, Slot(n) # 0
  PROVE  Slot(n) \in Handle /\ Open(Slot(n))
BY ScriptFilesAssumption DEF Slot, IW2Slot, IW3Slot, IW4Slot, IW5Slot, Get, IsValidHandle, Handle,
   FilesInv, SessionOwnsHandles, TypeOK, AllTitles

LEMMA ReadLineKeeps ==
  ASSUME FilesInv, NEW n \in Numbers, ReadLine(n)
  PROVE  FilesInv'
<1> DEFINE s == Slot(n)
<1>1. s \in Handle /\ Open(s)
  BY SlotIsOpen DEF ReadLine
<1>2. UNCHANGED <<title, running, session, handles, disk, acked>> /\ opened' = NoOpen /\ running
  BY DEF ReadLine
<1>3. \E x \in {NoArgs, handles[s].file} :
        args' = [args EXCEPT ![s] = x] /\ (x = NoArgs \/ x = handles[s].file)
  BY DEF ReadLine
<1> HIDE DEF s
<1>4. PICK x : args' = [args EXCEPT ![s] = x] /\ (x = NoArgs \/ x = handles[s].file)
  BY <1>3
<1>5. handles[s].file \in Files
  BY <1>1 DEF FilesInv, SessionOwnsHandles, TypeOK, OpenFiles, Open
<1>6. SessionOwnsHandles'
  BY <1>1, <1>2, <1>4, <1>5 DEF FilesInv, SessionOwnsHandles, TypeOK, Open
<1>7. HandlesNameFiles'
  <2>1. title' \in AllTitles
    BY <1>2, ScriptFilesAssumption DEF FilesInv, SessionOwnsHandles, TypeOK
  <2>2. title = "iw2" => ColumnsOfOpenFile'
    BY <1>1, <1>2, <1>4 DEF FilesInv, SessionOwnsHandles, TypeOK, HandlesNameFiles,
       ColumnsOfOpenFile, Open
  <2> QED
    BY <1>2, <2>1, <2>2, NoNumber
<1>8. LinesKept' /\ Leftovers'
  BY <1>2 DEF FilesInv, LinesKept, Leftovers, Buffered, Open, SessionOwnsHandles, TypeOK
<1> QED
  BY <1>6, <1>7, <1>8 DEF FilesInv

LEMMA WriteLineKeeps ==
  ASSUME FilesInv, NEW n \in Numbers, WriteLine(n)
  PROVE  FilesInv'
<1> DEFINE s == Slot(n)
           f == handles[s].file
<1>1. s \in Handle /\ Open(s) /\ handles[s] \in OpenFiles
  BY SlotIsOpen DEF WriteLine, FilesInv, SessionOwnsHandles, TypeOK, Open
<1>2. /\ UNCHANGED <<title, running, session, args, disk>> /\ opened' = NoOpen /\ running
      /\ handles[s].mode # "read"
  BY DEF WriteLine
<1>3. PICK line \in Lines :
        /\ handles' = [handles EXCEPT ![s].buffer = @ \union {line}]
        /\ acked' = [acked EXCEPT ![f] = @ \union {line}]
  BY DEF WriteLine
<1> HIDE DEF s
<1>4. f \in Files
  BY <1>1 DEF OpenFiles
<1>5. /\ handles'[s] = [handles[s] EXCEPT !.buffer = handles[s].buffer \union {line}]
      /\ \A h \in Handle \ {s} : handles'[h] = handles[h]
  BY <1>1, <1>3 DEF FilesInv, SessionOwnsHandles, TypeOK
<1>6. /\ handles'[s] \in OpenFiles /\ handles'[s].buffer = handles[s].buffer \union {line}
      /\ handles'[s].mode = handles[s].mode /\ handles'[s].file = f
      /\ handles'[s].session = handles[s].session
  BY <1>1, <1>5 DEF OpenFiles
<1>7. /\ handles' \in [Handle -> OpenFiles \union {Closed}]
      /\ \A h \in Handle : Open(h)' <=> Open(h)
      /\ \A h \in Handle : Open(h) => handles'[h].file = handles[h].file
  BY <1>1, <1>3, <1>5, <1>6, ClosedOrOpen DEF FilesInv, SessionOwnsHandles, TypeOK, Open
<1>8. acked' \in [Files -> SUBSET Lines]
  BY <1>3, <1>4 DEF FilesInv, SessionOwnsHandles, TypeOK
<1>9. SessionOwnsHandles'
  BY <1>1, <1>2, <1>5, <1>6, <1>7, <1>8 DEF FilesInv, SessionOwnsHandles, TypeOK
<1>10. HandlesNameFiles'
  <2>1. title' \in AllTitles
    BY <1>2, ScriptFilesAssumption DEF FilesInv, SessionOwnsHandles, TypeOK
  <2>2. title = "iw2" => ColumnsOfOpenFile'
    BY <1>2, <1>7 DEF FilesInv, HandlesNameFiles, ColumnsOfOpenFile
  <2> QED
    BY <1>2, <2>1, <2>2, NoNumber
<1>11. LinesKept'
  <2>1. ASSUME NEW g \in Files
        PROVE  Buffered(g) \subseteq Buffered(g)' /\ (g = f => line \in Buffered(g)')
    <3>1. ASSUME NEW h \in Handle, Open(h), handles[h].file = g
          PROVE  handles[h].buffer \subseteq handles'[h].buffer /\ Open(h)' /\ handles'[h].file = g
      BY <1>5, <1>6, <1>7, <3>1
    <3>2. g = f => line \in handles'[s].buffer /\ handles'[s].file = g
      BY <1>6
    <3> QED
      BY <1>1, <1>7, <3>1, <3>2 DEF Buffered
  <2>2. /\ acked'[f] = acked[f] \union {line}
        /\ \A g \in Files \ {f} : acked'[g] = acked[g]
    BY <1>3, <1>4 DEF FilesInv, SessionOwnsHandles, TypeOK
  <2>3. disk[f] # NoFile
    BY <1>1, <1>4 DEF FilesInv, LinesKept
  <2> QED
    BY <1>2, <1>4, <1>7, <2>1, <2>2, <2>3 DEF FilesInv, LinesKept
<1>12. Leftovers'
  BY <1>2, <1>7 DEF FilesInv, Leftovers, SessionOwnsHandles, TypeOK
<1> QED
  BY <1>9, <1>10, <1>11, <1>12 DEF FilesInv

LEMMA FileWriteKeeps ==
  ASSUME FilesInv, NEW f \in Files, NEW mode \in Modes, NEW line \in Lines, FileWrite(f, mode, line)
  PROVE  FilesInv'
<1> DEFINE before == IF mode = "write" \/ disk[f] = NoFile THEN {} ELSE disk[f]
<1>1. /\ UNCHANGED <<title, running, session, handles, args>> /\ opened' = NoOpen
      /\ running /\ title = "iw4"
      /\ disk' = [disk EXCEPT ![f] = before \union {line}]
      /\ acked' = [acked EXCEPT ![f] = (IF mode = "write" THEN {} ELSE acked[f]) \union {line}]
  BY DEF FileWrite
<1>2. before \subseteq Lines /\ before \union {line} # NoFile
  BY ScriptFilesAssumption DEF FilesInv, SessionOwnsHandles, TypeOK, NoFile
<1>3. SessionOwnsHandles'
  BY <1>1, <1>2 DEF FilesInv, SessionOwnsHandles, TypeOK, Open
<1>4. HandlesNameFiles'
  BY <1>1 DEF HandlesNameFiles, ColumnsOfOpenFile, NoOpen
<1>5. LinesKept'
  <2>1. \A g \in Files : Buffered(g)' = Buffered(g)
    BY <1>1 DEF Buffered, Open
  <2>2. (IF mode = "write" THEN {} ELSE acked[f]) \subseteq before \union Buffered(f)
    BY DEF FilesInv, LinesKept
  <2> HIDE DEF before
  <2>3. ASSUME NEW g \in Files
        PROVE  /\ disk'[g] # NoFile => acked'[g] \subseteq disk'[g] \union Buffered(g)
               /\ disk'[g] = NoFile =>
                    acked'[g] = {} /\ \A h \in Handle : Open(h) => handles[h].file # g
    BY <1>1, <1>2, <2>2 DEF FilesInv, LinesKept, SessionOwnsHandles, TypeOK
  <2> QED
    BY <1>1, <2>1, <2>3 DEF LinesKept, Open
<1>6. Leftovers'
  BY <1>1 DEF Leftovers
<1> QED
  BY <1>3, <1>4, <1>5, <1>6 DEF FilesInv

LEMMA StartSessionKeeps ==
  ASSUME FilesInv, StartSession
  PROVE  FilesInv'
<1>1. /\ title \in AllTitles /\ ~running /\ session \in 0..MaxSession /\ session < MaxSession
      /\ running' = TRUE /\ session' = session + 1
      /\ UNCHANGED <<title, args, acked>> /\ opened' = NoOpen
  BY ScriptFilesAssumption DEF StartSession, FilesInv, SessionOwnsHandles, TypeOK
<1>2. session' \in 0..MaxSession
  BY <1>1, ScriptFilesAssumption
<1>3. CASE title = "iw5"
  <2>1. /\ handles' = [h \in Handle |-> IF h \in Handle THEN Closed ELSE handles[h]]
        /\ disk' = Flushed(Handle)
    BY <1>3 DEF StartSession, CloseAll
  <2>2. /\ handles' \in [Handle -> OpenFiles \union {Closed}]
        /\ disk' \in [Files -> (SUBSET Lines) \union {NoFile}]
        /\ \A h \in Handle : ~Open(h)'
        /\ LinesKept'
    BY <1>1, <2>1, ClosingKeeps
  <2>3. SessionOwnsHandles'
    BY <1>1, <1>2, <2>2 DEF FilesInv, SessionOwnsHandles, TypeOK, AllTitles
  <2>4. HandlesNameFiles'
    BY <1>1, <1>3, NoNumber
  <2>5. Leftovers'
    BY <1>1, <1>3 DEF Leftovers
  <2> QED
    BY <2>2, <2>3, <2>4, <2>5 DEF FilesInv
<1>4. CASE title # "iw5"
  <2>1. UNCHANGED <<handles, disk>> /\ \A h \in Handle : ~Open(h)
    BY <1>1, <1>4 DEF StartSession, FilesInv, Leftovers
  <2>2. \A h \in Handle : ~Open(h)'
    BY <2>1 DEF Open
  <2>3. SessionOwnsHandles'
    BY <1>1, <1>2, <2>1, <2>2 DEF FilesInv, SessionOwnsHandles, TypeOK, AllTitles
  <2>4. HandlesNameFiles'
    BY <1>1, <2>1, NoNumber DEF FilesInv, HandlesNameFiles, ColumnsOfOpenFile
  <2>5. LinesKept'
    BY <1>1, <2>1, <2>2 DEF FilesInv, LinesKept, Buffered, Open
  <2>6. Leftovers'
    BY <1>1 DEF Leftovers, AllTitles
  <2> QED
    BY <2>3, <2>4, <2>5, <2>6 DEF FilesInv
<1> QED
  BY <1>3, <1>4

(* What the end of a session and the plugin's destruction have in common.   *)
LEMMA ClosingAllKeeps ==
  ASSUME FilesInv, CloseAll, ClearArgs, opened' = NoOpen, UNCHANGED <<session, acked>>,
         title' \in Titles \union {"none"}, running' = FALSE
  PROVE  FilesInv'
<1>1. /\ handles' = [h \in Handle |-> IF h \in Handle THEN Closed ELSE handles[h]]
      /\ disk' = Flushed(Handle) /\ UNCHANGED acked
  BY DEF CloseAll
<1>2. /\ handles' \in [Handle -> OpenFiles \union {Closed}]
      /\ disk' \in [Files -> (SUBSET Lines) \union {NoFile}]
      /\ \A h \in Handle : ~Open(h)'
      /\ LinesKept'
  BY <1>1, ClosingKeeps
<1>3. args' \in [Handle -> Files \union {NoArgs}] /\ \A h \in Handle : args'[h] = NoArgs
  BY DEF ClearArgs
<1>4. SessionOwnsHandles'
  BY <1>2, <1>3 DEF FilesInv, SessionOwnsHandles, TypeOK
<1>5. HandlesNameFiles'
  <2>1. title' \in AllTitles \union {"none"}
    BY ScriptFilesAssumption
  <2> QED
    BY <1>3, <2>1, NoNumber DEF ColumnsOfOpenFile
<1>6. Leftovers'
  BY <1>2, <1>3 DEF Leftovers
<1> QED
  BY <1>2, <1>4, <1>5, <1>6 DEF FilesInv

LEMMA EndSessionKeeps ==
  ASSUME FilesInv, EndSession
  PROVE  FilesInv'
<1>1. running /\ running' = FALSE /\ opened' = NoOpen /\ UNCHANGED <<title, session, acked>>
      /\ title \in Titles
  BY DEF EndSession, FilesInv, SessionOwnsHandles, TypeOK
<1>2. CASE title = "iw5"
  <2>1. UNCHANGED <<handles, args, disk>>
    BY <1>2 DEF EndSession
  <2>2. SessionOwnsHandles'
    BY <1>1, <1>2, <2>1 DEF FilesInv, SessionOwnsHandles, TypeOK, Open
  <2>3. HandlesNameFiles'
    BY <1>1, <1>2, NoNumber DEF AllTitles
  <2>4. LinesKept' /\ Leftovers'
    BY <1>1, <1>2, <2>1 DEF FilesInv, LinesKept, Leftovers, Buffered, Open
  <2> QED
    BY <2>2, <2>3, <2>4 DEF FilesInv
<1>3. CASE title # "iw5"
  BY <1>1, <1>3, ClosingAllKeeps DEF EndSession
<1> QED
  BY <1>2, <1>3

LEMMA UnloadPluginKeeps ==
  ASSUME FilesInv, UnloadPlugin
  PROVE  FilesInv'
BY ClosingAllKeeps DEF UnloadPlugin

LEMMA StartTitleKeeps ==
  ASSUME FilesInv, StartTitle
  PROVE  FilesInv'
<1>1. /\ title = "none" /\ title' \in Titles /\ ~running
      /\ UNCHANGED <<running, session, handles, args, disk, acked, opened>>
  BY DEF StartTitle, FilesInv, SessionOwnsHandles, TypeOK
<1>2. /\ opened' = NoOpen /\ \A h \in Handle : args[h] = NoArgs /\ ~Open(h)
  BY <1>1 DEF FilesInv, Leftovers, SessionOwnsHandles, TypeOK
<1>3. SessionOwnsHandles'
  BY <1>1, <1>2 DEF FilesInv, SessionOwnsHandles, TypeOK, Open
<1>4. HandlesNameFiles'
  <2>1. title' \in AllTitles
    BY <1>1, ScriptFilesAssumption
  <2> QED
    BY <1>1, <1>2, <2>1, NoNumber DEF ColumnsOfOpenFile
<1>5. LinesKept'
  BY <1>1 DEF FilesInv, LinesKept, Buffered, Open
<1>6. Leftovers'
  BY <1>1, <1>2, ScriptFilesAssumption DEF Leftovers, Open, AllTitles
<1> QED
  BY <1>3, <1>4, <1>5, <1>6 DEF FilesInv

(* An open that fills slot h: it was free, and h is what Open returned, or  *)
(* the one file of IW4.                                                    *)
LEMMA OpensFreeSlot ==
  ASSUME FilesInv, running, NEW f \in Files, NEW mode \in Modes, OpensSlot(f, mode) # 0
  PROVE  /\ OpensSlot(f, mode) \in Handle /\ ~Open(OpensSlot(f, mode))
         /\ CanOpen(f, mode)
         /\ title = "iw4" => OpensSlot(f, mode) = 1 /\ OpenResult(f, mode) = 1
         /\ title = "iw2" => OpenResult(f, mode) = OpensSlot(f, mode) - 1
         /\ title \in {"iw3", "iw5", "t4"} => OpenResult(f, mode) = OpensSlot(f, mode)
<1>1. 1 \in Handle /\ title \in AllTitles
  BY ScriptFilesAssumption DEF Handle, FilesInv, SessionOwnsHandles, TypeOK
<1>2. CASE title = "iw4"
  BY <1>1, <1>2 DEF OpensSlot, IW4OpenFileResult, OpenResult
<1>3. CASE title # "iw4"
  <2>1. OpensSlot(f, mode) = Opened(f, mode) /\ Opened(f, mode) > 0
    BY <1>3 DEF OpensSlot
  <2>2. FreeSlots # {} /\ CanOpen(f, mode) /\ Opened(f, mode) = FirstFree
    BY <2>1 DEF Opened, NO_FREE_HANDLES, OPEN_FAILED
  <2>3. FirstFree \in Handle /\ ~Open(FirstFree)
    BY <2>2, FirstFreeIsFree
  <2>4. FirstFree \in Nat \ {0}
    BY <2>3, ScriptFilesAssumption DEF Handle
  <2>5. /\ title = "iw2" => OpenResult(f, mode) = FirstFree - 1
        /\ title \in {"iw3", "iw5", "t4"} => OpenResult(f, mode) = FirstFree
    BY <2>2, <2>4 DEF OpenResult, IW2OpenFileResult, IW3FOpenResult, T4FOpenResult,
       IW5OpenFileResult, NO_FREE_HANDLES
  <2> QED
    BY <1>3, <2>1, <2>2, <2>3, <2>5
<1> QED
  BY <1>2, <1>3

(* An open that fills no slot returns a number that names none.            *)
LEMMA FailedOpen ==
  ASSUME FilesInv, running, NEW f \in Files, NEW mode \in Modes, OpensSlot(f, mode) = 0, title # "iw4"
  PROVE  OpenResult(f, mode) \in {-1, 0} /\ (title = "iw2" => OpenResult(f, mode) = -1)
<1>1. title \in AllTitles
  BY ScriptFilesAssumption DEF FilesInv, SessionOwnsHandles, TypeOK
<1>2. FreeSlots # {} => FirstFree > 0
  BY FirstFreeIsFree, ScriptFilesAssumption DEF Handle
<1>3. Opened(f, mode) \in {-1, 0}
  BY <1>2 DEF OpensSlot, Opened, NO_FREE_HANDLES, OPEN_FAILED
<1> QED
  BY <1>1, <1>3 DEF OpenResult, IW2OpenFileResult, IW3FOpenResult, T4FOpenResult,
     IW5OpenFileResult, NO_FREE_HANDLES, OPEN_FAILED, Aborted, AllTitles

LEMMA OpenFileKeeps ==
  ASSUME FilesInv, NEW f \in Files, NEW mode \in Modes, OpenFile(f, mode)
  PROVE  FilesInv'
<1>1. PICK s : s = OpensSlot(f, mode)
  OBVIOUS
<1>2. PICK n : n = OpenResult(f, mode)
  OBVIOUS
<1>3. /\ running /\ UNCHANGED <<title, running, session>> /\ title \in AllTitles
      /\ opened' = [number |-> n, slot |-> s]
  BY <1>1, <1>2, ScriptFilesAssumption DEF OpenFile, FilesInv, SessionOwnsHandles, TypeOK
<1>4. CASE s = 0
  <2>1. UNCHANGED <<handles, args, disk, acked>>
    BY <1>1, <1>4 DEF OpenFile
  <2>2. SessionOwnsHandles' /\ LinesKept' /\ Leftovers'
    BY <1>3, <2>1 DEF FilesInv, SessionOwnsHandles, TypeOK, LinesKept, Leftovers, Buffered,
       Open, AllTitles
  <2>3. title # "iw4" => n \in {-1, 0} /\ (title = "iw2" => n = -1)
    BY <1>1, <1>2, <1>3, <1>4, FailedOpen
  <2>4. title # "iw4" => Slot(opened.number)' = 0
    BY <1>3, <2>3 DEF Slot, IW2Slot, IW3Slot, IW5Slot, Get, IsValidHandle, Handle, AllTitles
  <2>5. HandlesNameFiles'
    BY <1>3, <1>4, <2>1, <2>4 DEF FilesInv, HandlesNameFiles, ColumnsOfOpenFile, Open
  <2> QED
    BY <2>2, <2>5 DEF FilesInv
<1>5. CASE s # 0
  <2> DEFINE file == [mode |-> mode, file |-> f, buffer |-> {}, session |-> session]
  <2>1. /\ s \in Handle /\ ~Open(s) /\ CanOpen(f, mode)
        /\ title = "iw4" => n = 1 /\ s = 1
        /\ title = "iw2" => n = s - 1
        /\ title \in {"iw3", "iw5", "t4"} => n = s
    BY <1>1, <1>2, <1>3, <1>5, OpensFreeSlot
  <2>2. /\ handles' = [handles EXCEPT ![s] = file]
        /\ args' = [args EXCEPT ![s] = NoArgs]
        /\ disk' = [disk EXCEPT ![f] = IF mode = "write" \/ disk[f] = NoFile THEN {} ELSE disk[f]]
        /\ acked' = [acked EXCEPT ![f] = IF mode = "write" THEN {} ELSE acked[f]]
    BY <1>1, <1>5 DEF OpenFile
  <2>3. file \in OpenFiles
    BY DEF OpenFiles, FilesInv, SessionOwnsHandles, TypeOK
  <2>5. /\ handles' \in [Handle -> OpenFiles \union {Closed}]
        /\ handles'[s] = file /\ file # Closed
        /\ \A h \in Handle \ {s} : handles'[h] = handles[h]
    BY <2>1, <2>2, <2>3, ClosedOrOpen DEF FilesInv, SessionOwnsHandles, TypeOK
  <2>6. /\ file.file = f /\ file.buffer = {} /\ file.session = session
    OBVIOUS
  <2> HIDE DEF file
  <2>7. \A h \in Handle : Open(h)' <=> h = s \/ Open(h)
    BY <2>5 DEF Open
  <2>8. SessionOwnsHandles'
    BY <1>3, <2>1, <2>2, <2>5, <2>6, <2>7 DEF FilesInv, SessionOwnsHandles, TypeOK, AllTitles
  <2>9. HandlesNameFiles'
    <3>1. title # "iw4" => Slot(opened.number)' = s
      BY <1>3, <2>1, <2>7, ScriptFilesAssumption
         DEF Slot, IW2Slot, IW3Slot, IW5Slot, Get, IsValidHandle, Handle, AllTitles
    <3>2. title = "iw2" => ColumnsOfOpenFile'
      BY <2>1, <2>2, <2>5, <2>7 DEF FilesInv, SessionOwnsHandles, TypeOK, HandlesNameFiles,
         ColumnsOfOpenFile
    <3> QED
      BY <1>3, <2>1, <3>1, <3>2 DEF HandlesNameFiles, ColumnsOfOpenFile
  <2>10. LinesKept'
    <3>1. \A g \in Files : Buffered(g)' = Buffered(g)
      BY <2>1, <2>5, <2>6, <2>7 DEF Buffered
    <3>2. \A g \in Files \ {f} : disk'[g] = disk[g] /\ acked'[g] = acked[g]
      BY <2>2 DEF FilesInv, SessionOwnsHandles, TypeOK
    <3>3. /\ disk'[f] # NoFile
          /\ acked'[f] \subseteq disk'[f] \union Buffered(f)
      BY <2>2 DEF FilesInv, SessionOwnsHandles, TypeOK, LinesKept, NoFile
    <3> QED
      BY <2>5, <2>6, <2>7, <3>1, <3>2, <3>3 DEF FilesInv, LinesKept
  <2>11. Leftovers'
    BY <1>3 DEF Leftovers, AllTitles
  <2> QED
    BY <2>8, <2>9, <2>10, <2>11 DEF FilesInv
<1> QED
  BY <1>4, <1>5

(* For any files, any size of the table and any sequence of sessions and   *)
(* titles, ended or cut short: a session finds no handle of an earlier one, *)
(* numbers name the files they were returned for, and no line that a write *)
(* call acknowledged is lost with its handle.                              *)
THEOREM FilesOfSessionsApart == Spec => []FilesOfSession
<1>1. Init => FilesInv
  <2> SUFFICES ASSUME Init
               PROVE  FilesInv
    OBVIOUS
  <2>1. /\ \A h \in Handle : ~Open(h) /\ args[h] = NoArgs
        /\ title = "none" /\ running = FALSE /\ opened = NoOpen
        /\ \A f \in Files : acked[f] = {}
    BY DEF Init, Open
  <2>2. /\ disk \in [Files -> (SUBSET Lines) \union {NoFile}]
        /\ handles \in [Handle -> OpenFiles \union {Closed}]
        /\ args \in [Handle -> Files \union {NoArgs}]
        /\ acked \in [Files -> SUBSET Lines]
        /\ session \in 0..MaxSession
    BY ScriptFilesAssumption DEF Init
  <2>3. SessionOwnsHandles
    BY <2>1, <2>2 DEF SessionOwnsHandles, TypeOK
  <2>4. HandlesNameFiles
    BY <2>1 DEF HandlesNameFiles, ColumnsOfOpenFile, NoOpen, Slot
  <2> QED
    BY <2>1, <2>3, <2>4 DEF FilesInv, LinesKept, Leftovers
<1>2. FilesInv /\ [Next]_vars => FilesInv'
  <2> SUFFICES ASSUME FilesInv, [Next]_vars
               PROVE  FilesInv'
    OBVIOUS
  <2>1. ASSUME NEW f \in Files, NEW mode \in Modes, OpenFile(f, mode)
        PROVE  FilesInv'
    BY <2>1, OpenFileKeeps
  <2>2. ASSUME NEW n \in Numbers, CloseFile(n) \/ ReadLine(n) \/ WriteLine(n)
        PROVE  FilesInv'
    BY <2>2, CloseFileKeeps, ReadLineKeeps, WriteLineKeeps
  <2>3. ASSUME NEW f \in Files, NEW mode \in Modes, NEW line \in Lines, FileWrite(f, mode, line)
        PROVE  FilesInv'
    BY <2>3, FileWriteKeeps
  <2>4. CASE StartSession \/ EndSession \/ StartTitle \/ UnloadPlugin
    BY <2>4, StartSessionKeeps, EndSessionKeeps, StartTitleKeeps, UnloadPluginKeeps
  <2>5. CASE UNCHANGED vars
    <3>1. SessionOwnsHandles'
      BY <2>5 DEF vars, FilesInv, SessionOwnsHandles, TypeOK, Open
    <3>2. HandlesNameFiles'
      BY <2>5 DEF vars, FilesInv, HandlesNameFiles, ColumnsOfOpenFile, Slot, IW2Slot, IW3Slot,
         IW4Slot, IW5Slot, Get, Open
    <3>3. LinesKept' /\ Leftovers'
      BY <2>5 DEF vars, FilesInv, LinesKept, Leftovers, Buffered, Open
    <3> QED
      BY <3>1, <3>2, <3>3 DEF FilesInv
  <2> QED
    BY <2>1, <2>2, <2>3, <2>4, <2>5 DEF Next
<1>3. FilesInv => FilesOfSession
  BY FilesHold
<1> QED
  BY <1>1, <1>2, <1>3, PTL DEF Spec

-----------------------------------------------------------------------------
(* For any elements, texts and size of the table.                          *)


(* What the invariants rest on: an element that shows a string was asked   *)
(* for a text.                                                             *)
HudInv ==
  /\ ElementsShowTheirText
  /\ StringsInUse
  /\ \A e \in HudElems : text[e] # 0 => shown[e] \in Texts

(* A search that can end ends at an index that holds the text or nothing.  *)
LEMMA IndexFound ==
  ASSUME NEW cs, NEW t, Candidates(cs, t) # {}
  PROVE  LocalizedStringIndex(cs, t) \in Candidates(cs, t)
<1> DEFINE C == Candidates(cs, t)
<1>1. C \subseteq Nat
  BY HudStringsAssumption DEF Candidates, Index
<1>2. PICK x \in C : \A y \in C : ~(<<y, x>> \in OpToRel(<, Nat))
  <2> HIDE DEF C
  <2> QED BY <1>1, NatLessThanWellFounded, WFMin, Zenon DEF C
<1>3. ASSUME NEW y \in C PROVE x <= y
  <2>1. x \in Nat /\ y \in Nat
    BY <1>1
  <2>2. ~(<<y, x>> \in OpToRel(<, Nat))
    BY <1>2
  <2>3. ~(y < x)
    BY <2>1, <2>2, Zenon DEF OpToRel
  <2> QED
    BY <2>1, <2>3
<1> QED
  BY <1>3 DEF LocalizedStringIndex

(* What is left of the strings when an element gives up its own: those     *)
(* that are precached or that another element shows.                       *)
LEMMA FreedKeepsOthers ==
  ASSUME HudInv, NEW e \in HudElems
  PROVE  /\ FreedFor(e) \in [Index -> Texts \union {NoText}]
         /\ \A i \in Index : FreedFor(e)[i] \in {configstrings[i], NoText}
         /\ \A i \in Index : g_isLocStringPrecached[i] => FreedFor(e)[i] = configstrings[i]
         /\ \A f \in HudElems \ {e} : text[f] # 0 => FreedFor(e)[text[f]] = configstrings[text[f]]
         /\ \A i \in Index : FreedFor(e)[i] # NoText =>
              g_isLocStringPrecached[i] \/ \E f \in HudElems \ {e} : text[f] = i
<1>1. CASE Scr_CanFreeLocalizedConfigString(text[e], WithoutText(e))
  <2>1. text[e] \in Index /\ ~g_isLocStringPrecached[text[e]]
    BY <1>1 DEF Scr_CanFreeLocalizedConfigString, HudInv, ElementsShowTheirText, HudTypeOK
  <2>2. \A f \in HudElems \ {e} : text[f] # text[e]
    BY <1>1 DEF Scr_CanFreeLocalizedConfigString, WithoutText, HudInv, ElementsShowTheirText,
       HudTypeOK
  <2>3. FreedFor(e) = [configstrings EXCEPT ![text[e]] = NoText]
    BY <1>1 DEF FreedFor
  <2> QED
    BY <2>1, <2>2, <2>3 DEF HudInv, ElementsShowTheirText, StringsInUse, HudTypeOK
<1>2. CASE ~Scr_CanFreeLocalizedConfigString(text[e], WithoutText(e))
  <2>1. FreedFor(e) = configstrings
    BY <1>2 DEF FreedFor
  <2>2. text[e] # 0 => g_isLocStringPrecached[text[e]] \/ \E f \in HudElems \ {e} : text[f] = text[e]
    BY <1>2 DEF Scr_CanFreeLocalizedConfigString, WithoutText, HudInv, ElementsShowTheirText,
       HudTypeOK
  <2> QED
    BY <2>1, <2>2 DEF HudInv, ElementsShowTheirText, StringsInUse, HudTypeOK, Index
<1> QED
  BY <1>1, <1>2

LEMMA PrecacheKeeps ==
  ASSUME HudInv, NEW t \in Texts, PrecacheString(t)
  PROVE  HudInv'
<1> DEFINE i == LocalizedStringIndex(configstrings, t)
<1>1. i \in Index /\ configstrings[i] \in {t, NoText}
  BY IndexFound DEF PrecacheString, Candidates
<1> HIDE DEF i
<1> QED
  BY <1>1, HudStringsAssumption DEF PrecacheString, i, HudInv, ElementsShowTheirText,
     StringsInUse, HudTypeOK

LEMMA SetTextKeeps ==
  ASSUME HudInv, NEW e \in HudElems, NEW t \in Texts, SetText(e, t)
  PROVE  HudInv'
<1> DEFINE cs == FreedFor(e)
           i  == LocalizedStringIndex(cs, t)
<1>1. i \in Index /\ cs[i] \in {t, NoText}
  BY IndexFound DEF SetText, Candidates
<1>2. /\ configstrings' = [cs EXCEPT ![i] = t] /\ text' = [text EXCEPT ![e] = i]
      /\ shown' = [shown EXCEPT ![e] = t]
      /\ UNCHANGED <<g_isLocStringPrecached, initializing>>
  BY DEF SetText
<1>3. /\ cs \in [Index -> Texts \union {NoText}]
      /\ \A j \in Index : cs[j] \in {configstrings[j], NoText}
      /\ \A j \in Index : g_isLocStringPrecached[j] => cs[j] = configstrings[j]
      /\ \A f \in HudElems \ {e} : text[f] # 0 => cs[text[f]] = configstrings[text[f]]
      /\ \A j \in Index : cs[j] # NoText =>
           g_isLocStringPrecached[j] \/ \E f \in HudElems \ {e} : text[f] = j
  BY FreedKeepsOthers
<1> HIDE DEF cs, i
<1>4. HudTypeOK'
  BY <1>1, <1>2, <1>3, HudStringsAssumption DEF HudInv, ElementsShowTheirText, HudTypeOK, Index
<1>5. \A f \in HudElems : text'[f] # 0 => configstrings'[text'[f]] = shown'[f]
  BY <1>1, <1>2, <1>3, HudStringsAssumption DEF HudInv, ElementsShowTheirText, HudTypeOK
<1>6. StringsInUse'
  BY <1>1, <1>2, <1>3 DEF HudInv, ElementsShowTheirText, HudTypeOK, StringsInUse
<1>7. \A f \in HudElems : text'[f] # 0 => shown'[f] \in Texts
  BY <1>2 DEF HudInv, ElementsShowTheirText, HudTypeOK
<1> QED
  BY <1>4, <1>5, <1>6, <1>7 DEF HudInv, ElementsShowTheirText

LEMMA FreeHudElemKeeps ==
  ASSUME HudInv, NEW e \in HudElems, FreeHudElem(e)
  PROVE  HudInv'
BY FreedKeepsOthers, HudStringsAssumption DEF FreeHudElem, WithoutText, HudInv,
   ElementsShowTheirText, StringsInUse, HudTypeOK, Index

(* Elements show the text they were asked for, and the table holds only    *)
(* strings that are precached or shown, over all that scripts set and      *)
(* free, rounds and sessions (gsc_methods.cpp:35).                         *)
THEOREM StringsFollow ==
  HudSpec => []StringsFollowElements
<1>1. HudInit => HudInv
  BY HudStringsAssumption DEF HudInit, HudInv, ElementsShowTheirText, StringsInUse, HudTypeOK, Index
<1>2. HudInv /\ [HudNext]_hudVars => HudInv'
  <2> SUFFICES ASSUME HudInv, [HudNext]_hudVars PROVE HudInv'
    OBVIOUS
  <2>1. CASE \E t \in Texts : PrecacheString(t)
    BY <2>1, PrecacheKeeps
  <2>2. CASE \E e \in HudElems, t \in Texts : SetText(e, t)
    BY <2>2, SetTextKeeps
  <2>3. CASE \E e \in HudElems : FreeHudElem(e)
    BY <2>3, FreeHudElemKeeps
  <2>4. CASE LevelStarts \/ RestartRound
    BY <2>4 DEF LevelStarts, RestartRound, HudInv, ElementsShowTheirText, StringsInUse, HudTypeOK
  <2>5. CASE CompleteShutdown
    BY <2>5 DEF CompleteShutdown, FlagsAfterShutdown, HudInv, ElementsShowTheirText,
       StringsInUse, HudTypeOK
  <2>6. CASE UNCHANGED hudVars
    BY <2>6 DEF hudVars, HudInv, ElementsShowTheirText, StringsInUse, HudTypeOK
  <2> QED
    BY <2>1, <2>2, <2>3, <2>4, <2>5, <2>6 DEF HudNext
<1>3. HudInv => StringsFollowElements
  BY DEF HudInv, StringsFollowElements
<1> QED
  BY <1>1, <1>2, <1>3, PTL DEF HudSpec

-----------------------------------------------------------------------------
(* For any functions and positions. *)


(* The positions of this session stand for its functions: what was asked   *)
(* for is what is replaced, function by function.                          *)
CallsInv ==
  /\ callTitle \in CallTitles /\ registered = Registered
  /\ placed \in Placements
  /\ asked \in [DOMAIN asked -> Functions] /\ DOMAIN asked \subseteq Functions
  /\ DOMAIN ReplacedFunctions = {placed[f] : f \in DOMAIN asked}
  /\ \A f \in DOMAIN asked : ReplacedFunctions[placed[f]] = placed[asked[f]]

LEMMA PlacedApart ==
  ASSUME placed \in Placements
  PROVE  /\ placed \in [AllFunctions -> Positions]
         /\ \A f, g \in AllFunctions : placed[f] = placed[g] => f = g
BY DEF Placements, Injection, IsInjective

(* What the engine registers depends on the title only.                    *)
LEMMA RegisteredOfTitle ==
  ASSUME UNCHANGED callTitle
  PROVE  Registered' = Registered
BY DEF Registered, RegisterNames, builtins

LEMMA ReplaceFuncKeeps ==
  ASSUME CallsInv, NEW params \in Params, ReplaceFunc(params)
  PROVE  CallsInv'
<1> DEFINE what == params[1]
           with == params[2]
<1>1. Len(params) = 2 /\ DOMAIN params = 1..2
  BY DEF ReplaceFunc, Params
<1>2. what \in Functions \cup {"other"} /\ with \in Functions \cup {"other"}
  BY <1>1 DEF Params
<1>3. /\ what \in Functions /\ GetCodePosForParam(params, 1) = placed[what]
      /\ with \in Functions /\ GetCodePosForParam(params, 2) = placed[with]
  BY <1>1, <1>2, ScriptCallsAssumption DEF ReplaceFunc, GetCodePosForParam, AllFunctions
<1> HIDE DEF what, with
<1>4. /\ ReplacedFunctions' = With(ReplacedFunctions, placed[what], placed[with])
      /\ asked' = With(asked, what, with)
      /\ placed' = placed
  BY <1>3 DEF ReplaceFunc, what, with
<1>5. /\ asked' \in [DOMAIN asked \cup {what} -> Functions]
      /\ \A f \in DOMAIN asked \cup {what} : asked'[f] = IF f = what THEN with ELSE asked[f]
  BY <1>3, <1>4 DEF With, CallsInv
<1>6. /\ DOMAIN ReplacedFunctions' = DOMAIN ReplacedFunctions \cup {placed[what]}
      /\ \A p \in DOMAIN ReplacedFunctions \cup {placed[what]} :
           ReplacedFunctions'[p] = IF p = placed[what] THEN placed[with] ELSE ReplacedFunctions[p]
  BY <1>4 DEF With
<1>7. \A f \in DOMAIN asked : placed[f] = placed[what] => f = what
  BY <1>3, PlacedApart DEF CallsInv, AllFunctions
<1>8. \A f \in DOMAIN asked' : ReplacedFunctions'[placed'[f]] = placed'[asked'[f]]
  BY <1>3, <1>4, <1>5, <1>6, <1>7 DEF CallsInv
<1>9. DOMAIN ReplacedFunctions' = {placed'[f] : f \in DOMAIN asked'}
  BY <1>4, <1>5, <1>6 DEF CallsInv
<1>10. UNCHANGED <<callTitle, registered>> /\ Registered' = Registered
  BY RegisteredOfTitle DEF ReplaceFunc
<1> QED
  BY <1>3, <1>4, <1>5, <1>8, <1>9, <1>10 DEF CallsInv

LEMMA ShutdownKeeps ==
  ASSUME CallsInv, NEW inst \in {"server", "client"}, NEW complete \in BOOLEAN,
         Scr_ShutdownSystem(inst, complete)
  PROVE  CallsInv'
<1>0. callTitle' = callTitle /\ registered' = Registered /\ Registered' = Registered
  BY RegisteredOfTitle DEF Scr_ShutdownSystem
<1>1. CASE inst = "server" /\ complete
  <2>1. placed' \in Placements /\ ReplacedFunctions' = None /\ asked' = None
    BY <1>1 DEF Scr_ShutdownSystem, OnVMShutdown
  <2>2. DOMAIN None = {}
    BY DEF None
  <2> QED
    BY <1>0, <2>1, <2>2 DEF CallsInv, None
<1>2. CASE inst = "client" /\ complete
  <2>1. placed' \in Placements /\ \A f \in Functions : placed'[f] = placed[f]
    BY <1>2, ScriptCallsAssumption DEF Scr_ShutdownSystem, AllFunctions
  <2>2. UNCHANGED <<ReplacedFunctions, asked>>
    BY <1>2 DEF Scr_ShutdownSystem
  <2>3. \A f \in DOMAIN asked : f \in Functions /\ asked[f] \in Functions
    BY DEF CallsInv
  <2> QED
    BY <1>0, <2>1, <2>2, <2>3 DEF CallsInv
<1>3. CASE ~complete
  BY <1>0, <1>3 DEF Scr_ShutdownSystem, CallsInv
<1> QED
  BY <1>1, <1>2, <1>3

(* A title finds its built-ins by name, or is IW5, which registers its own. *)
LEMMA FoundOrRegistered ==
  ASSUME callTitle \in CallTitles
  PROVE  builtins.found \/ callTitle = "iw5"
<1>1. CASE callTitle = "iw2"
  BY <1>1 DEF builtins, iw2_builtins
<1>2. CASE callTitle = "iw3"
  BY <1>2 DEF builtins, iw3_builtins
<1>3. CASE callTitle = "iw4"
  BY <1>3 DEF builtins, iw4_builtins
<1>4. CASE callTitle = "iw4sp"
  BY <1>4 DEF builtins, iw4sp_builtins
<1>5. CASE callTitle = "qos"
  BY <1>5 DEF builtins, qos_builtins
<1>6. CASE callTitle = "t4"
  BY <1>6 DEF builtins
<1>7. CASE callTitle = "t4sp"
  BY <1>7 DEF builtins, t4sp_builtins
<1> QED
  BY <1>1, <1>2, <1>3, <1>4, <1>5, <1>6, <1>7, ScriptCallsAssumption

LEMMA NamesAnswered ==
  ASSUME callTitle \in CallTitles, registered = Registered
  PROVE  PluginAnswersItsNames
<1>1. ASSUME NEW n \in builtins.functions
      PROVE  GetFunction(n) = "plugin"
  <2>1. callTitle = "iw5" => registered[n] = "plugin"
    BY DEF Registered, RegisterNames
  <2> QED
    BY <2>1, FoundOrRegistered DEF GetFunction, Find
<1>2. ASSUME NEW n \in builtins.methods
      PROVE  GetMethod(n) = "plugin"
  BY DEF GetMethod, Find
<1>3. ASSUME NEW n \in EngineNames, n \notin builtins.functions
      PROVE  GetFunction(n) = "engine"
  BY <1>3 DEF GetFunction, Find, Registered, RegisterNames
<1>4. ASSUME NEW n \in EngineNames, n \notin builtins.methods
      PROVE  GetMethod(n) = "engine"
  BY <1>4 DEF GetMethod, Find
<1> QED
  BY <1>1, <1>2, <1>3, <1>4 DEF PluginAnswersItsNames

(* A call of the server's scripts runs what replacefunc named for it since *)
(* the last complete shutdown, or its own, and the client's their own,      *)
(* wherever the engine puts the scripts of a session (gsc.cpp:165); and a   *)
(* built-in of the plugin is the plugin's in each title.                   *)
THEOREM CallsRunTheirReplacements ==
  CallsSpec => []CallsRunWhatWasAsked
<1>1. CallsInit => CallsInv
  <2>1. DOMAIN None = {}
    BY DEF None
  <2> QED
    BY <2>1 DEF CallsInit, CallsInv, None
<1>2. CallsInv /\ [CallsNext]_callVars => CallsInv'
  <2> SUFFICES ASSUME CallsInv, [CallsNext]_callVars PROVE CallsInv'
    OBVIOUS
  <2>1. CASE \E params \in Params : ReplaceFunc(params)
    BY <2>1, ReplaceFuncKeeps
  <2>2. CASE \E complete \in BOOLEAN : Scr_ShutdownSystem("server", complete)
    BY <2>2, ShutdownKeeps
  <2>3. CASE \E complete \in BOOLEAN : Scr_ShutdownSystem("client", complete)
    BY <2>3, ShutdownKeeps
  <2>4. CASE UNCHANGED callVars
    BY <2>4, RegisteredOfTitle DEF callVars, CallsInv
  <2> QED
    BY <2>1, <2>2, <2>3, <2>4 DEF CallsNext
<1>3. CallsInv => CallsRunReplacements
  <2> SUFFICES ASSUME CallsInv, NEW f \in AllFunctions
               PROVE  Runs(f) = {IF f \in DOMAIN asked THEN asked[f] ELSE f}
    BY DEF CallsRunReplacements
  <2>1. \A g \in AllFunctions : placed[f] = placed[g] => f = g
    BY PlacedApart DEF CallsInv
  <2>2. CASE f \in DOMAIN asked
    <3>1. f \in Functions /\ asked[f] \in Functions /\ asked[f] \in AllFunctions
      BY <2>2 DEF CallsInv, AllFunctions
    <3>2. GetReplacedPos(placed[f], "server") = placed[asked[f]]
      BY <2>2 DEF GetReplacedPos, CallsInv
    <3>3. Runs(f) = {g \in AllFunctions : placed[g] = placed[asked[f]]}
      BY <3>1, <3>2 DEF Runs
    <3> QED
      BY <2>2, <3>1, <3>3, PlacedApart DEF CallsInv
  <2>3. CASE f \notin DOMAIN asked
    <3>1. placed[f] \notin DOMAIN ReplacedFunctions
      BY <2>1, <2>3 DEF CallsInv, AllFunctions
    <3>2. Runs(f) = {g \in AllFunctions : placed[g] = placed[f]}
      BY <3>1 DEF Runs, GetReplacedPos
    <3> QED
      BY <2>1, <2>3, <3>2
  <2> QED
    BY <2>2, <2>3
<1>4. CallsInv => CallsRunWhatWasAsked
  BY <1>3, NamesAnswered DEF CallsInv, CallsRunWhatWasAsked
<1> QED
  BY <1>1, <1>2, <1>4, PTL DEF CallsSpec

-----------------------------------------------------------------------------
(* For any players and other entities, bots, commands, keys and values. *)

(* Tables that repeat the game's field before their own.                   *)
LEMMA Tables ==
  ASSUME NEW a, NEW b, NEW c, NEW d, NEW e, NEW f, NEW g
  PROVE  /\ LET s == <<a>> \o <<b, c>> IN Len(s) = 3 /\ s[1] = a /\ s[2] = b /\ s[3] = c
         /\ LET s == <<a>> \o <<b, c, d>> IN Len(s) = 4 /\ s[1] = a /\ s[2] = b /\ s[3] = c /\ s[4] = d
         /\ LET s == <<a>> \o <<b, c, d, e, f, g>>
            IN Len(s) = 7 /\ s[1] = a /\ s[2] = b /\ s[3] = c /\ s[4] = d /\ s[5] = e /\ s[6] = f /\ s[7] = g
OBVIOUS

(* The tables, entry by entry: of each title the fields and how each is    *)
(* set and got.                                                            *)
Entry(i) ==
  CASE fieldTitle = "iw3" ->
         IF i = 0 THEN Memory("deaths") ELSE IF i = 1 THEN Memory("noclip")
         ELSE IF i = 2 THEN Memory("ufo") ELSE IF i = 3 THEN Own("entityflags")
         ELSE IF i = 4 THEN ReadOnly("forwardmove") ELSE IF i = 5 THEN ReadOnly("rightmove")
         ELSE ReadOnly("isbot")
    [] fieldTitle \in {"iw4", "iw4sp"} ->
         IF i = 0 THEN Memory("deaths") ELSE IF i = 1 THEN Memory("clientflags") ELSE Own("entityflags")
    [] fieldTitle \in {"t4", "t4sp", "qos"} ->
         IF i = 0 THEN Memory("deaths") ELSE IF i = 1 THEN Memory("noclip")
         ELSE IF i = 2 THEN Memory("ufo") ELSE IF fieldTitle = "qos" THEN Own("entityflags") ELSE Own("god")
    [] OTHER -> Memory("deaths")
LastOf ==
  CASE fieldTitle = "iw3" -> 6 [] fieldTitle \in {"iw4", "iw4sp"} -> 2
    [] fieldTitle \in {"t4", "t4sp", "qos"} -> 3 [] OTHER -> 0

LEMMA FieldAtIs ==
  ASSUME fieldTitle \in AllFieldTitles
  PROVE Indices = 0..LastOf /\ \A i \in Indices : FieldAt(i) = Entry(i)
<1> DEFINE k == IF fieldTitle \in {"qos", "iw2", "iw5"} THEN 1 ELSE 0
<1>1. Len(retail_fields) = 1 /\ CLIENT_FIELD_OFFSET_START = k
  BY Tables DEF CLIENT_FIELD_OFFSET_START, retail_fields
<1>2. Indices = 0..LastOf
  BY <1>1, Tables DEF AllFieldTitles, Indices, LastOf, fields_extended, retail_fields, iw3_fields,
       iw4_fields, iw4sp_fields, t4_fields, t4sp_fields, qos_fields
<1>3. CASE fieldTitle = "iw3"
  BY <1>1, <1>2, <1>3, Tables DEF FieldAt, Entry, LastOf, fields_extended, retail_fields, iw3_fields,
       iw4_fields, iw4sp_fields, t4_fields, t4sp_fields, qos_fields
<1>4. CASE fieldTitle \in {"iw4", "iw4sp"}
  BY <1>1, <1>2, <1>4, Tables DEF FieldAt, Entry, LastOf, fields_extended, retail_fields, iw3_fields,
       iw4_fields, iw4sp_fields, t4_fields, t4sp_fields, qos_fields
<1>5. CASE fieldTitle \in {"t4", "t4sp"}
  BY <1>1, <1>2, <1>5, Tables DEF FieldAt, Entry, LastOf, fields_extended, retail_fields, iw3_fields,
       iw4_fields, iw4sp_fields, t4_fields, t4sp_fields, qos_fields
<1>6. CASE fieldTitle \in {"qos"}
  BY <1>1, <1>2, <1>6, Tables DEF FieldAt, Entry, LastOf, fields_extended, retail_fields, iw3_fields,
       iw4_fields, iw4sp_fields, t4_fields, t4sp_fields, qos_fields
<1>7. CASE fieldTitle \in {"iw2", "iw5"}
  BY <1>1, <1>2, <1>7, Tables DEF FieldAt, Entry, LastOf, fields_extended, retail_fields, iw3_fields,
       iw4_fields, iw4sp_fields, t4_fields, t4sp_fields, qos_fields
<1> QED
  BY <1>2, <1>3, <1>4, <1>5, <1>6, <1>7 DEF AllFieldTitles

(* What the entry of a name says does not depend on the title.             *)
Kind(n) == IF n \in {"entityflags", "god"} THEN Own(n)
           ELSE IF n \in {"forwardmove", "rightmove", "isbot"} THEN ReadOnly(n) ELSE Memory(n)

LEMMA EntryKind ==
  ASSUME NEW i \in 0..LastOf
  PROVE  Entry(i) = Kind(Entry(i).name)
BY DEF Entry, Kind, Memory, Own, ReadOnly

(* A name has one index.                                                   *)
LEMMA EntriesDiffer ==
  ASSUME NEW i \in 0..LastOf, NEW j \in 0..LastOf, Entry(i).name = Entry(j).name
  PROVE  i = j
BY DEF Entry, Memory, Own, ReadOnly, LastOf

(* The names in the tables, and those of methods.                          *)
GivenMethods ==
  CASE fieldTitle = "iw5" -> {"clientflags", "entityflags"}
    [] fieldTitle \in {"iw2", "iw3", "qos", "t4"} -> {"velocity"}
    [] OTHER -> {}

LEMMA MethodKind ==
  /\ \A f \in methodFields : f = Kind(f.name)
  /\ MethodNames = GivenMethods
<1>1. CASE fieldTitle = "iw5"
  BY <1>1 DEF methodFields, MethodNames, Kind, Memory, Own, ReadOnly, GivenMethods
<1>2. CASE fieldTitle \in {"iw2", "iw3", "qos", "t4"}
  BY <1>2 DEF methodFields, MethodNames, Kind, Memory, Own, ReadOnly, GivenMethods
<1>3. CASE fieldTitle \notin {"iw2", "iw3", "qos", "t4", "iw5"}
  <2>1. methodFields = {} /\ GivenMethods = {}
    BY <1>3 DEF methodFields, GivenMethods
  <2> QED
    BY <2>1 DEF MethodNames
<1> QED
  BY <1>1, <1>2, <1>3

GivenNames ==
  CASE fieldTitle = "iw3" -> {"deaths", "noclip", "ufo", "entityflags", "forwardmove", "rightmove", "isbot"}
    [] fieldTitle \in {"iw4", "iw4sp"} -> {"deaths", "clientflags", "entityflags"}
    [] fieldTitle = "qos" -> {"deaths", "noclip", "ufo", "entityflags"}
    [] fieldTitle \in {"t4", "t4sp"} -> {"deaths", "noclip", "ufo", "god"}
    [] OTHER -> {"deaths"}

LEMMA NamesAre ==
  ASSUME fieldTitle \in AllFieldTitles
  PROVE  FieldNames = GivenNames
<1>1. FieldNames = {Entry(i).name : i \in 0..LastOf}
  BY FieldAtIs DEF FieldNames
<1>2. 0..0 = {0} /\ 0..2 = {0, 1, 2} /\ 0..3 = {0, 1, 2, 3} /\ 0..6 = {0, 1, 2, 3, 4, 5, 6}
  OBVIOUS
<1>3. CASE fieldTitle = "iw3"
  BY <1>1, <1>2, <1>3 DEF Entry, LastOf, GivenNames, Memory, Own, ReadOnly
<1>4. CASE fieldTitle \in {"iw4", "iw4sp"}
  BY <1>1, <1>2, <1>4 DEF Entry, LastOf, GivenNames, Memory, Own, ReadOnly
<1>5. CASE fieldTitle \in {"t4", "t4sp", "qos"}
  BY <1>1, <1>2, <1>5 DEF Entry, LastOf, GivenNames, Memory, Own, ReadOnly
<1>7. CASE fieldTitle \in {"iw2", "iw5"}
  BY <1>1, <1>2, <1>7 DEF Entry, LastOf, GivenNames, Memory, Own, ReadOnly
<1> QED
  BY <1>3, <1>4, <1>5, <1>7 DEF AllFieldTitles

(* The hook that takes the mask off finds the entry of the name.           *)
LEMMA FieldIs ==
  ASSUME fieldTitle \in AllFieldTitles,
         NEW n \in Names \ {"health"}
  PROVE  OfClient(n) /\ FieldOf(n) = Kind(n)
<1>1. CASE n \in MethodNames
  <2>1. \E f \in methodFields : f.name = n
    BY <1>1 DEF MethodNames
  <2> QED
    BY <1>1, <2>1, MethodKind DEF OfClient, FieldOf
<1>2. CASE n \notin MethodNames
  <2>1. PICK i \in 0..LastOf : FieldAt(i).name = n
    BY <1>2, FieldAtIs DEF Names, FieldNames
  <2>2. \A j \in 0..LastOf : FieldAt(j).name = n => j = i
    BY <2>1, FieldAtIs, EntriesDiffer
  <2>3. OffsetOf(n) = CLIENT_FIELD_MASK + i
    BY <2>1, <2>2, FieldAtIs DEF OffsetOf
  <2>4. i \in Nat /\ CLIENT_FIELD_MASK = 64
    BY DEF LastOf, CLIENT_FIELD_MASK
  <2>5. IsClientField(OffsetOf(n)) /\ Stripped(OffsetOf(n)) = i
    BY <2>3, <2>4 DEF IsClientField, Stripped
  <2>6. FieldAt(i) = Kind(n)
    BY <2>1, FieldAtIs, EntryKind
  <2> QED
    BY <1>2, <2>5, <2>6 DEF OfClient, FieldOf
<1> QED
  BY <1>1, <1>2

LEMMA HealthIsNone == ~OfClient("health")
BY MethodKind DEF GivenMethods, OfClient, OffsetOf, IsClientField, CLIENT_FIELD_MASK

(* The facts of the tables, to cite for this state and for the next.       *)
TableFacts ==
  fieldTitle \in AllFieldTitles =>
    /\ Names = GivenNames \union GivenMethods \union {"health"}
    /\ \A n \in Names \ {"health"} : OfClient(n) /\ FieldOf(n) = Kind(n)
    /\ ~OfClient("health")

LEMMA TableHolds == TableFacts
BY FieldIs, NamesAre, MethodKind, HealthIsNone DEF TableFacts, AllFieldTitles, Names

LEMMA TableHoldsNext == TableFacts'
BY TableHolds, PTL

(* Where the value of a name is, and that it is what was assigned.         *)
ValueOf(e, n) ==
  IF n = "health" THEN entities[e].health
  ELSE IF n = "entityflags" THEN entities[e].flags
  ELSE IF n = "god" THEN entities[e].flags % 2
  ELSE clients[e].memory[n]
Sticks == {"forwardmove", "rightmove", "isbot"}

ValuesKept ==
  \A e \in FieldEntities : \A n \in Names \ Sticks : Has(e, n) => ValueOf(e, n) = told[e][n]

(* The inductive invariant.  What is told of cheats can only be shown for  *)
(* the two titles that have them: in the others no command says anything.  *)
FieldTypes ==
  /\ fieldTitle \in FieldTitles
  /\ entities \in [FieldEntities -> [health : Int, flags : Int]]
  /\ clients \in [Clients -> [memory : [Names -> Int], buttons : SUBSET Buttons,
                                        buttonsSinceLastFrame : SUBSET Buttons]]
  /\ commands \in [Clients -> [forward : Int, right : Int, buttons : SUBSET Buttons]]
  /\ told \in [FieldEntities -> [Names -> Int]]
  /\ engineFlags \in [FieldEntities -> Int]
  /\ announced \in [Clients -> [Cheats -> {"unknown", "on", "off"}]]
  /\ pressed \in [Clients -> SUBSET Buttons]
  /\ keysDown \in SUBSET (Keys \ {"no key"})

ButtonsKept ==
  \A c \in Clients : /\ pressed[c] = clients[c].buttonsSinceLastFrame
                     /\ commands[c].buttons = clients[c].buttons

CheatsTold ==
  fieldTitle \in {"iw3", "iw4"} => CheatsAsAnnounced
OnlyCheats ==
  fieldTitle \notin {"iw3", "iw4"} => \A c \in Clients, cheat \in Cheats : announced[c][cheat] = "unknown"

FieldsInv == FieldTypes /\ ValuesKept /\ ButtonsKept /\ EngineKeepsItsFlags /\ CheatsTold /\ OnlyCheats

(* The title does not change, nor what follows from it.                    *)
LEMMA StaticTables ==
  ASSUME fieldTitle \in FieldTitles, fieldTitle' = fieldTitle
  PROVE  /\ Names' = Names /\ Buttons' = Buttons
         /\ \A e, n : Has(e, n)' <=> Has(e, n)
<1>1. Names' = Names
  BY TableHolds, TableHoldsNext, FieldsAssumption DEF TableFacts, AllFieldTitles, GivenNames, GivenMethods
<1>2. Buttons' = Buttons
  BY DEF Buttons, buttonMethods
<1> QED
  BY <1>1, <1>2 DEF Has

LEMMA NamesFacts ==
  ASSUME fieldTitle \in FieldTitles
  PROVE  /\ "god" \notin Names \/ "entityflags" \notin Names
         /\ "god" \in Names => fieldTitle \in {"t4", "t4sp"}
         /\ fieldTitle = "iw3" => {"entityflags", "noclip", "ufo", "health"} \subseteq Names
         /\ fieldTitle = "iw4" => {"entityflags", "clientflags", "health"} \subseteq Names
         /\ "health" \in Names
BY TableHolds, FieldsAssumption DEF TableFacts, AllFieldTitles, GivenNames, GivenMethods

LEMMA CheatFields ==
  ASSUME fieldTitle \in FieldTitles, fieldTitle \in {"iw3", "iw4"}, NEW cheat \in Cheats
  PROVE  FieldOfCheat(cheat) \in Names
         /\ FieldOfCheat(cheat) \in {"entityflags", "clientflags", "noclip", "ufo"}
<1>1. cheat \in {"noclip", "ufo", "god", "demigod"}
  BY DEF Cheats
<1>2. CASE fieldTitle = "iw3"
  BY <1>1, <1>2, NamesFacts DEF FieldOfCheat
<1>3. CASE fieldTitle = "iw4"
  BY <1>1, <1>3, NamesFacts DEF FieldOfCheat
<1> QED
  BY <1>2, <1>3

LEMMA FieldsStart == FieldsInit => FieldsInv
<1> SUFFICES ASSUME FieldsInit PROVE FieldsInv
  OBVIOUS
<1>1. FieldTypes
  BY DEF FieldsInit, FieldTypes
<1>2. ValuesKept
  BY <1>1, FieldsAssumption DEF FieldsInit, ValuesKept, ValueOf, Has, FieldEntities, Sticks
<1>3. ButtonsKept /\ CheatsTold /\ OnlyCheats
  BY DEF FieldsInit, ButtonsKept, CheatsTold, OnlyCheats, CheatsAsAnnounced
<1>4. EngineKeepsItsFlags
  BY DEF FieldsInit, EngineKeepsItsFlags
<1> QED
  BY <1>1, <1>2, <1>3, <1>4 DEF FieldsInv

(* What an assignment to one member of one entity leaves.                  *)
LEMMA SetHealth ==
  ASSUME NEW S, NEW F \in [S -> [health : Int, flags : Int]], NEW e \in S, NEW v \in Int, NEW G,
         G = [F EXCEPT ![e].health = v]
  PROVE  /\ G \in [S -> [health : Int, flags : Int]]
         /\ \A x \in S : G[x].flags = F[x].flags /\ G[x].health = IF x = e THEN v ELSE F[x].health
<1>1. \A x \in S : G[x] = IF x = e THEN [F[e] EXCEPT !.health = v] ELSE F[x]
  OBVIOUS
<1>2. [F[e] EXCEPT !.health = v] \in [health : Int, flags : Int]
  OBVIOUS
<1>3. DOMAIN G = S /\ G = [x \in S |-> G[x]]
  OBVIOUS
<1>4. \A x \in S : F[x] \in [health : Int, flags : Int]
  OBVIOUS
<1>5. [F[e] EXCEPT !.health = v].flags = F[e].flags /\ [F[e] EXCEPT !.health = v].health = v
  BY <1>4
<1> QED
  BY <1>1, <1>2, <1>3, <1>4, <1>5

LEMMA SetFlags ==
  ASSUME NEW S, NEW F \in [S -> [health : Int, flags : Int]], NEW e \in S, NEW v \in Int, NEW G,
         G = [F EXCEPT ![e].flags = v]
  PROVE  /\ G \in [S -> [health : Int, flags : Int]]
         /\ \A x \in S : G[x].health = F[x].health /\ G[x].flags = IF x = e THEN v ELSE F[x].flags
<1>1. \A x \in S : G[x] = IF x = e THEN [F[e] EXCEPT !.flags = v] ELSE F[x]
  OBVIOUS
<1>2. [F[e] EXCEPT !.flags = v] \in [health : Int, flags : Int]
  OBVIOUS
<1>3. DOMAIN G = S /\ G = [x \in S |-> G[x]]
  OBVIOUS
<1>4. \A x \in S : F[x] \in [health : Int, flags : Int]
  OBVIOUS
<1>5. [F[e] EXCEPT !.flags = v].health = F[e].health /\ [F[e] EXCEPT !.flags = v].flags = v
  BY <1>4
<1> QED
  BY <1>1, <1>2, <1>3, <1>4, <1>5

(* What an assignment changes: one member of one entity or client.         *)
AssignEffect(e, n, v) ==
  /\ n = "health" => entities' = [entities EXCEPT ![e].health = v] /\ clients' = clients
  /\ n = "entityflags" => entities' = [entities EXCEPT ![e].flags = v] /\ clients' = clients
  /\ n = "god" => entities' = [entities EXCEPT ![e].flags = WithGod(@, v)] /\ clients' = clients
  /\ n \notin {"health", "entityflags", "god"} =>
       e \in Clients /\ clients' = [clients EXCEPT ![e].memory[n] = v] /\ entities' = entities
  /\ n \notin Sticks

LEMMA AssignHas ==
  ASSUME FieldTypes, NEW e \in FieldEntities, NEW n \in Names, NEW v \in Values, AssignField(e, n, v)
  PROVE  AssignEffect(e, n, v)
<1>1. fieldTitle \in AllFieldTitles
  BY FieldsAssumption DEF FieldTypes, AllFieldTitles
<1>3. CASE n = "health"
  <2>1. entities' = [entities EXCEPT ![e].health = v] /\ clients' = clients
    BY <1>1, <1>3, TableHolds DEF TableFacts, AssignField
  <2> QED
    BY <2>1, <1>3 DEF Sticks, AssignEffect
<1>4. CASE n # "health"
  <2>1. OfClient(n) /\ FieldOf(n) = Kind(n)
    BY <1>1, <1>4, TableHolds DEF TableFacts
  <2>2. SetClientField(e, Kind(n), v)
    BY <2>1 DEF AssignField
  <2> QED
    BY <2>2, <1>4 DEF SetClientField, Kind, Own, Memory, ReadOnly, Sticks, AssignEffect
<1> QED
  BY <1>3, <1>4

(* God mode is bit 0 and leaves the others.                                *)
LEMMA GodBit ==
  ASSUME NEW i \in Int, NEW v \in Int
  PROVE  /\ WithGod(i, v) \in Int /\ WithGod(i, v) \div 2 = i \div 2
         /\ WithGod(i, v) % 2 = IF v # 0 THEN 1 ELSE 0
BY DEF WithGod

ClientType == [memory : [Names -> Int], buttons : SUBSET Buttons, buttonsSinceLastFrame : SUBSET Buttons]
FieldEntityType == [health : Int, flags : Int]

SetsMemory(c, n, v) == clients' = [clients EXCEPT ![c].memory[n] = v]
MemoryIs(c, n, v) ==
  /\ clients' \in [Clients -> ClientType]
  /\ \A x \in Clients : /\ clients'[x].buttons = clients[x].buttons
                        /\ clients'[x].buttonsSinceLastFrame = clients[x].buttonsSinceLastFrame
                        /\ \A m \in Names : clients'[x].memory[m] =
                             IF x = c /\ m = n THEN v ELSE clients[x].memory[m]

LEMMA MemorySet ==
  ASSUME clients \in [Clients -> ClientType], NEW c \in Clients, NEW n \in Names, NEW v \in Int,
         SetsMemory(c, n, v)
  PROVE  MemoryIs(c, n, v)
<1> DEFINE M == [clients[c].memory EXCEPT ![n] = v]
           R == [clients[c] EXCEPT !.memory = M]
<1>1. clients[c] \in ClientType /\ clients[c].memory \in [Names -> Int]
  BY DEF ClientType
<1>2. M \in [Names -> Int] /\ \A m \in Names : M[m] = IF m = n THEN v ELSE clients[c].memory[m]
  BY <1>1
<1>3. clients' = [clients EXCEPT ![c] = R]
  BY DEF SetsMemory
<1> HIDE DEF M
<1>4. R \in ClientType /\ R.memory = M /\ R.buttons = clients[c].buttons
      /\ R.buttonsSinceLastFrame = clients[c].buttonsSinceLastFrame
  BY <1>1, <1>2 DEF ClientType
<1> HIDE DEF R
<1>5. clients' \in [Clients -> ClientType] /\ \A x \in Clients : clients'[x] = IF x = c THEN R ELSE clients[x]
  BY <1>3, <1>4
<1> QED
  BY <1>2, <1>4, <1>5 DEF MemoryIs

(* The state after an assignment, member by member.                        *)
LEMMA AssignReads ==
  ASSUME FieldTypes, NEW e \in FieldEntities, NEW n \in Names, NEW v \in Values, AssignField(e, n, v)
  PROVE  /\ entities' \in [FieldEntities -> FieldEntityType]
         /\ clients' \in [Clients -> ClientType]
         /\ \A x \in FieldEntities : entities'[x].flags =
               IF x = e /\ n = "entityflags" THEN v
               ELSE IF x = e /\ n = "god" THEN WithGod(entities[x].flags, v) ELSE entities[x].flags
         /\ \A x \in FieldEntities : entities'[x].health = IF x = e /\ n = "health" THEN v
                                                           ELSE entities[x].health
         /\ \A c \in Clients :
              /\ \A m \in Names : clients'[c].memory[m] =
                    IF c = e /\ m = n /\ n \notin {"health", "entityflags", "god"} THEN v
                    ELSE clients[c].memory[m]
              /\ clients'[c].buttons = clients[c].buttons
              /\ clients'[c].buttonsSinceLastFrame = clients[c].buttonsSinceLastFrame
<1>1. AssignEffect(e, n, v)
  BY AssignHas
<1>2. v \in Int /\ entities \in [FieldEntities -> FieldEntityType] /\ clients \in [Clients -> ClientType]
  BY FieldsAssumption DEF FieldTypes, FieldEntityType, ClientType
<1>3. CASE n = "health"
  <2>1. entities' = [entities EXCEPT ![e].health = v] /\ clients' = clients
    BY <1>1, <1>3 DEF AssignEffect
  <2>2. /\ entities' \in [FieldEntities -> FieldEntityType]
        /\ \A x \in FieldEntities : /\ entities'[x].flags = entities[x].flags
                                    /\ entities'[x].health = IF x = e THEN v ELSE entities[x].health
    BY <1>2, <2>1, SetHealth DEF FieldEntityType
  <2> QED
    BY <1>2, <1>3, <2>1, <2>2
<1>4. CASE n = "entityflags"
  <2>1. entities' = [entities EXCEPT ![e].flags = v] /\ clients' = clients
    BY <1>1, <1>4 DEF AssignEffect
  <2>2. /\ entities' \in [FieldEntities -> FieldEntityType]
        /\ \A x \in FieldEntities : /\ entities'[x].health = entities[x].health
                                    /\ entities'[x].flags = IF x = e THEN v ELSE entities[x].flags
    BY <1>2, <2>1, SetFlags DEF FieldEntityType
  <2> QED
    BY <1>2, <1>4, <2>1, <2>2
<1>5. CASE n = "god"
  <2> DEFINE w == WithGod(entities[e].flags, v)
  <2>1. entities' = [entities EXCEPT ![e].flags = w] /\ clients' = clients
    BY <1>1, <1>5 DEF AssignEffect
  <2>2. w \in Int
    BY <1>2, GodBit DEF FieldEntityType
  <2> HIDE DEF w
  <2>3. /\ entities' \in [FieldEntities -> FieldEntityType]
        /\ \A x \in FieldEntities : /\ entities'[x].health = entities[x].health
                                    /\ entities'[x].flags = IF x = e THEN w ELSE entities[x].flags
    BY <1>2, <2>1, <2>2, SetFlags DEF FieldEntityType
  <2> QED
    BY <1>2, <1>5, <2>1, <2>3 DEF w
<1>6. CASE n \notin {"health", "entityflags", "god"}
  <2>1. e \in Clients /\ clients' = [clients EXCEPT ![e].memory[n] = v] /\ entities' = entities
    BY <1>1, <1>6 DEF AssignEffect
  <2>2. MemoryIs(e, n, v)
    BY <1>2, <2>1, MemorySet DEF SetsMemory
  <2> QED
    BY <1>2, <1>6, <2>1, <2>2 DEF MemoryIs
<1> QED
  BY <1>3, <1>4, <1>5, <1>6

LEMMA ForgetTypes ==
  ASSUME FieldTypes, NEW e, NEW F, Forget(e, F)
  PROVE  /\ announced' \in [Clients -> [Cheats -> {"unknown", "on", "off"}]]
         /\ \A c \in Clients, cheat \in Cheats :
              /\ announced'[c][cheat] \in {"unknown", announced[c][cheat]}
              /\ announced'[c][cheat] # "unknown" => c # e \/ FieldOfCheat(cheat) \notin F
BY DEF FieldTypes, Forget

LEMMA AssignTypes ==
  ASSUME FieldTypes, NEW e \in FieldEntities, NEW n \in Names, NEW v \in Values, AssignField(e, n, v)
  PROVE  FieldTypes' /\ fieldTitle' = fieldTitle /\ v \in Int /\ n \notin Sticks
<1>1. fieldTitle' = fieldTitle /\ fieldTitle \in FieldTitles /\ v \in Int
  BY FieldsAssumption DEF AssignField, FieldTypes
<1>2. Names' = Names /\ Buttons' = Buttons
  BY <1>1, StaticTables
<1>7. told' \in [FieldEntities -> [Names -> Int]]
  <2>1. Normal(n, v) \in Int
    BY <1>1 DEF Normal
  <2>2. told' = [told EXCEPT ![e] = [told[e] EXCEPT ![n] = Normal(n, v)]]
    BY DEF AssignField
  <2> HIDE DEF Normal
  <2> QED
    BY <2>1, <2>2 DEF FieldTypes
<1>8. engineFlags' \in [FieldEntities -> Int]
  <2>1. v \div 2 \in Int
    BY <1>1
  <2> QED
    BY <2>1 DEF FieldTypes, AssignField
<1>9. announced' \in [Clients -> [Cheats -> {"unknown", "on", "off"}]]
  BY ForgetTypes DEF AssignField
<1>10. UNCHANGED <<commands, pressed, keysDown>>
  BY DEF AssignField
<1> QED
  BY <1>1, <1>2, <1>7, <1>8, <1>9, <1>10, AssignReads, AssignHas
    DEF FieldTypes, AssignEffect, ClientType, FieldEntityType

(* An assignment is read back, and no other value changes.                 *)
LEMMA AssignKeeps ==
  ASSUME FieldsInv, NEW e \in FieldEntities, NEW n \in Names, NEW v \in Values, AssignField(e, n, v)
  PROVE  FieldsInv'
<1>1. FieldTypes /\ FieldTypes' /\ fieldTitle' = fieldTitle /\ fieldTitle \in FieldTitles
      /\ n \notin Sticks /\ v \in Int
  BY AssignTypes DEF FieldsInv, FieldTypes
<1>2. Names' = Names /\ \A x, m : Has(x, m)' <=> Has(x, m)
  BY <1>1, StaticTables
<1>3. ASSUME NEW x \in FieldEntities, NEW m \in Names \ Sticks, Has(x, m)
      PROVE  ValueOf(x, m)' = IF x = e /\ m = n THEN Normal(n, v) ELSE ValueOf(x, m)
  <2>1. m \notin {"health", "entityflags", "god"} => x \in Clients
    BY <1>3 DEF Has
  <2>2. entities[x].flags \in Int
    BY <1>1 DEF FieldTypes
  <2>3. WithGod(entities[x].flags, v) % 2 = IF v # 0 THEN 1 ELSE 0
    BY <1>1, <2>2, GodBit
  <2>4. "god" \notin Names \/ "entityflags" \notin Names
    BY <1>1, NamesFacts
  <2> QED
    BY <1>1, <2>1, <2>3, <2>4, AssignReads DEF ValueOf, Normal
<1>4. ValuesKept'
  <2>1. \A x \in FieldEntities : told'[x] = IF x = e THEN [told[e] EXCEPT ![n] = Normal(n, v)] ELSE told[x]
    BY <1>1 DEF AssignField, FieldTypes
  <2>2. \A x \in FieldEntities, m \in Names : told'[x][m] = IF x = e /\ m = n THEN Normal(n, v) ELSE told[x][m]
    <3>1. told[e] \in [Names -> Int]
      BY <1>1 DEF FieldTypes
    <3>2. \A m \in Names : [told[e] EXCEPT ![n] = Normal(n, v)][m] = IF m = n THEN Normal(n, v) ELSE told[e][m]
      BY <3>1
    <3> QED
      BY <2>1, <3>2
  <2> QED
    BY <1>2, <1>3, <2>2 DEF ValuesKept, FieldsInv
<1>5. EngineKeepsItsFlags'
  <2>1. \A x \in FieldEntities : engineFlags'[x] = IF x = e /\ n = "entityflags" THEN v \div 2
                                                   ELSE engineFlags[x]
    BY <1>1 DEF FieldTypes, AssignField
  <2>3. \A x \in FieldEntities : entities[x].flags \in Int /\ entities[x].flags \div 2 = engineFlags[x]
    BY <1>1 DEF FieldTypes, FieldsInv, EngineKeepsItsFlags
  <2>4. "god" \notin Names \/ "entityflags" \notin Names
    BY <1>1, NamesFacts
  <2>5. ASSUME NEW x \in FieldEntities
        PROVE  entities'[x].flags \div 2 = engineFlags'[x]
    <3>1. CASE x = e /\ n = "entityflags"
      BY <2>1, <3>1, AssignReads, <1>1
    <3>2. CASE x = e /\ n = "god"
      <4>1. entities'[x].flags = WithGod(entities[x].flags, v) /\ engineFlags'[x] = engineFlags[x]
        BY <2>1, <2>4, <3>2, AssignReads, <1>1
      <4> QED
        BY <1>1, <2>3, <4>1, GodBit
    <3>3. CASE ~(x = e /\ n = "god") /\ ~(x = e /\ n = "entityflags")
      <4>1. entities'[x].flags = entities[x].flags /\ engineFlags'[x] = engineFlags[x]
        BY <2>1, <3>3, AssignReads, <1>1
      <4> QED
        BY <2>3, <4>1
    <3> QED
      BY <3>1, <3>2, <3>3
  <2> QED
    BY <2>5 DEF EngineKeepsItsFlags
<1>6. ButtonsKept'
  BY <1>1, AssignReads DEF ButtonsKept, FieldsInv, AssignField
<1>7. ASSUME NEW c \in Clients, NEW cheat \in Cheats, announced'[c][cheat] # "unknown",
             fieldTitle \in {"iw3", "iw4"}
      PROVE  announced'[c][cheat] = announced[c][cheat] /\ (IsOn(c, cheat)' <=> IsOn(c, cheat))
  <2>1. c # e \/ FieldOfCheat(cheat) # n
    BY <1>1, <1>7, ForgetTypes DEF AssignField
  <2>2. announced'[c][cheat] = announced[c][cheat]
    BY <1>1, <1>7, ForgetTypes DEF AssignField
  <2>3. "god" \notin Names
    BY <1>1, <1>7, NamesFacts
  <2>4. FieldOfCheat(cheat) \in Names
    BY <1>1, <1>7, CheatFields
  <2>5. FieldOfCheat(cheat)' = FieldOfCheat(cheat)
    BY <1>1 DEF FieldOfCheat
  <2>6. CASE FieldOfCheat(cheat) = "entityflags"
    <3>1. entities'[c].flags = entities[c].flags
      BY <1>1, <2>1, <2>3, <2>6, AssignReads DEF FieldEntities
    <3> QED
      BY <2>2, <2>5, <2>6, <3>1 DEF IsOn
  <2>7. CASE FieldOfCheat(cheat) # "entityflags"
    <3>1. clients'[c].memory[FieldOfCheat(cheat)] = clients[c].memory[FieldOfCheat(cheat)]
      BY <1>1, <2>1, <2>4, AssignReads
    <3>2. FieldOfCheat(cheat) = "clientflags" \/ FieldOfCheat(cheat) = cheat
      BY <2>7 DEF FieldOfCheat
    <3> QED
      BY <2>2, <2>5, <2>7, <3>1, <3>2 DEF IsOn
  <2> QED
    BY <2>6, <2>7
<1>8. CheatsTold'
  BY <1>1, <1>7 DEF CheatsTold, CheatsAsAnnounced, FieldsInv
<1>9. OnlyCheats'
  BY <1>1, ForgetTypes DEF OnlyCheats, FieldsInv, AssignField
<1> QED
  BY <1>1, <1>4, <1>5, <1>6, <1>8, <1>9 DEF FieldsInv

(* A cheat. *)
LEMMA Toggled ==
  ASSUME NEW i \in Int, NEW f \in {1, 2}
  PROVE  /\ ToggleFlag(i, f) \in Int
         /\ ToggleFlag(i, f) = i + (IF HasFlag(i, f) THEN -f ELSE f)
         /\ \A g \in {1, 2} : HasFlag(ToggleFlag(i, f), g) <=> IF f = g THEN ~HasFlag(i, g) ELSE HasFlag(i, g)
         /\ f = 1 => ToggleFlag(i, f) \div 2 = i \div 2
         /\ f = 2 => ToggleFlag(i, f) \div 2 = ToggleFlag(i \div 2, 1)
<1>1. CASE f = 1
  BY <1>1 DEF ToggleFlag, HasFlag
<1>2. CASE f = 2
  BY <1>2 DEF ToggleFlag, HasFlag
<1> QED
  BY <1>1, <1>2

(* How a cheat changes its field.                                          *)
NewValue(c, cheat) ==
  IF FieldOfCheat(cheat) = "entityflags" THEN ToggleFlag(entities[c].flags, FlagOf(cheat))
  ELSE IF FieldOfCheat(cheat) = "clientflags" THEN ToggleFlag(clients[c].memory["clientflags"], FlagOf(cheat))
  ELSE IF clients[c].memory[cheat] = 0 THEN 1 ELSE 0

CheatEffect(c, cheat) ==
  /\ FieldOfCheat(cheat) = "entityflags" =>
       entities' = [entities EXCEPT ![c].flags = NewValue(c, cheat)] /\ clients' = clients
  /\ FieldOfCheat(cheat) # "entityflags" =>
       clients' = [clients EXCEPT ![c].memory[FieldOfCheat(cheat)] = NewValue(c, cheat)] /\ entities' = entities

LEMMA CheatHas ==
  ASSUME FieldTypes, NEW c \in Clients, NEW cheat \in Cheats, ClientCommand(c, cheat)
  PROVE  /\ CheatEffect(c, cheat) /\ NewValue(c, cheat) \in Int /\ fieldTitle \in {"iw3", "iw4"}
         /\ fieldTitle' = fieldTitle
<1>0. fieldTitle \in {"iw3", "iw4"} /\ fieldTitle \in FieldTitles /\ c \in FieldEntities
      /\ fieldTitle' = fieldTitle
  BY DEF ClientCommand, FieldTypes, FieldEntities
<1>1. /\ entities[c] \in FieldEntityType /\ clients[c].memory \in [Names -> Int]
      /\ FieldOfCheat(cheat) \in Names
      /\ FlagOf(cheat) \in {1, 2}
  BY <1>0, CheatFields DEF FieldTypes, FieldEntityType, FlagOf
<1>2. NewValue(c, cheat) \in Int
  BY <1>0, <1>1, CheatFields, Toggled DEF NewValue, FieldEntityType, FieldOfCheat
<1>3. CASE fieldTitle = "iw3" /\ Iw3Noclip(c, cheat)
  BY <1>0, <1>2, <1>3 DEF Iw3Noclip, CheatEffect, FieldOfCheat, NewValue
<1>4. CASE fieldTitle = "iw3" /\ Iw3God(c, cheat)
  <2>1. FlagOf(cheat) = 1 /\ FieldOfCheat(cheat) = "entityflags"
    BY <1>4 DEF Iw3God, FlagOf, FieldOfCheat
  <2>2. \A i \in Int : ToggleFlag(i, 1) = IF God(i) = 0 THEN i + 1 ELSE i - 1
    BY DEF ToggleFlag, HasFlag, God
  <2>3. NewValue(c, cheat) = IF God(entities[c].flags) = 0 THEN entities[c].flags + 1 ELSE entities[c].flags - 1
    BY <1>1, <2>1, <2>2 DEF NewValue, FieldEntityType
  <2> QED
    BY <1>0, <1>2, <1>4, <2>1, <2>3 DEF Iw3God, CheatEffect
<1>5. CASE fieldTitle = "iw4" /\ Iw4ClientFlag(c, cheat)
  BY <1>0, <1>2, <1>5 DEF Iw4ClientFlag, CheatEffect, FieldOfCheat, NewValue
<1>6. CASE fieldTitle = "iw4" /\ Iw4EntityFlag(c, cheat)
  BY <1>0, <1>2, <1>6 DEF Iw4EntityFlag, CheatEffect, FieldOfCheat, NewValue
<1> QED
  BY <1>0, <1>2, <1>3, <1>4, <1>5, <1>6 DEF ClientCommand

(* The state after the command of a cheat, member by member.               *)
LEMMA CheatReads ==
  ASSUME FieldTypes, NEW c \in Clients, NEW cheat \in Cheats, ClientCommand(c, cheat)
  PROVE  /\ entities' \in [FieldEntities -> FieldEntityType]
         /\ clients' \in [Clients -> ClientType]
         /\ \A x \in FieldEntities : /\ entities'[x].health = entities[x].health
              /\ entities'[x].flags = IF x = c /\ FieldOfCheat(cheat) = "entityflags" THEN NewValue(c, cheat)
                                      ELSE entities[x].flags
         /\ \A x \in Clients :
              /\ \A m \in Names : clients'[x].memory[m] =
                    IF x = c /\ m = FieldOfCheat(cheat) /\ m # "entityflags" THEN NewValue(c, cheat)
                    ELSE clients[x].memory[m]
              /\ clients'[x].buttons = clients[x].buttons
              /\ clients'[x].buttonsSinceLastFrame = clients[x].buttonsSinceLastFrame
<1>1. CheatEffect(c, cheat) /\ NewValue(c, cheat) \in Int /\ FieldOfCheat(cheat) \in Names
      /\ c \in FieldEntities
  BY CheatHas, CheatFields DEF FieldTypes, FieldEntities
<1>2. entities \in [FieldEntities -> FieldEntityType] /\ clients \in [Clients -> ClientType]
  BY DEF FieldTypes, FieldEntityType, ClientType
<1>3. CASE FieldOfCheat(cheat) = "entityflags"
  <2>1. entities' = [entities EXCEPT ![c].flags = NewValue(c, cheat)] /\ clients' = clients
    BY <1>1, <1>3 DEF CheatEffect
  <2>2. /\ entities' \in [FieldEntities -> FieldEntityType]
        /\ \A x \in FieldEntities : /\ entities'[x].health = entities[x].health
                                    /\ entities'[x].flags = IF x = c THEN NewValue(c, cheat)
                                                            ELSE entities[x].flags
    BY <1>1, <1>2, <2>1, SetFlags DEF FieldEntityType
  <2> QED
    BY <1>2, <1>3, <2>1, <2>2
<1>4. CASE FieldOfCheat(cheat) # "entityflags"
  <2>1. clients' = [clients EXCEPT ![c].memory[FieldOfCheat(cheat)] = NewValue(c, cheat)]
        /\ entities' = entities
    BY <1>1, <1>4 DEF CheatEffect
  <2>2. MemoryIs(c, FieldOfCheat(cheat), NewValue(c, cheat))
    BY <1>1, <1>2, <2>1, MemorySet DEF SetsMemory
  <2> QED
    BY <1>2, <1>4, <2>1, <2>2 DEF MemoryIs
<1> QED
  BY <1>3, <1>4

(* A command changes its field by the flag, up or down, as its message     *)
(* says.                                                                   *)
ToldOf(c, cheat) ==
  LET change == IF CommandMessage(c, cheat) = "on" THEN FlagOf(cheat) ELSE -FlagOf(cheat)
      old == told[c][FieldOfCheat(cheat)]
  IN IF FieldOfCheat(cheat) # cheat THEN old + change ELSE IF old = 0 THEN 1 ELSE 0

LEMMA CheatTold ==
  ASSUME FieldsInv, NEW c \in Clients, NEW cheat \in Cheats, ClientCommand(c, cheat)
  PROVE  /\ told' \in [FieldEntities -> [Names -> Int]]
         /\ \A x \in FieldEntities, m \in Names : told'[x][m] =
              IF x = c /\ m = FieldOfCheat(cheat) THEN NewValue(c, cheat) ELSE told[x][m]
<1> DEFINE f == FieldOfCheat(cheat)
<1>1. FieldTypes /\ fieldTitle \in FieldTitles /\ fieldTitle \in {"iw3", "iw4"} /\ c \in FieldEntities
      /\ f \in Names
  BY CheatHas, CheatFields DEF FieldsInv, FieldTypes, FieldEntities
<1>2. f \in {"entityflags", "clientflags", "noclip", "ufo"} /\ f \notin Sticks
  BY <1>1, CheatFields DEF Sticks
<1>3. ValueOf(c, f) = told[c][f]
  BY <1>1, <1>2 DEF FieldsInv, ValuesKept, Has
<1>4. FlagOf(cheat) \in {1, 2} /\ entities[c].flags \in Int /\ clients[c].memory \in [Names -> Int]
  BY <1>1 DEF FlagOf, FieldTypes
<1>5. ToldOf(c, cheat) = NewValue(c, cheat)
  <2>1. CASE f = "entityflags"
    <3>1. told[c][f] = entities[c].flags /\ f # cheat
      BY <1>3, <2>1 DEF ValueOf, Cheats
    <3>2. CommandMessage(c, cheat) = IF HasFlag(entities[c].flags, FlagOf(cheat)) THEN "off" ELSE "on"
      BY <2>1 DEF CommandMessage, IsOn
    <3> QED
      BY <1>4, <2>1, <3>1, <3>2, Toggled DEF ToldOf, NewValue
  <2>2. CASE f = "clientflags"
    <3>1. told[c][f] = clients[c].memory["clientflags"] /\ f # cheat /\ clients[c].memory["clientflags"] \in Int
      BY <1>1, <1>3, <1>4, <2>2 DEF ValueOf, Cheats
    <3>2. CommandMessage(c, cheat) = IF HasFlag(clients[c].memory["clientflags"], FlagOf(cheat))
                                     THEN "off" ELSE "on"
      BY <2>2 DEF CommandMessage, IsOn
    <3> QED
      BY <1>4, <2>2, <3>1, <3>2, Toggled DEF ToldOf, NewValue
  <2>3. CASE f \notin {"entityflags", "clientflags"}
    <3>1. f = cheat /\ told[c][f] = clients[c].memory[cheat]
      BY <1>2, <1>3, <2>3 DEF ValueOf, FieldOfCheat
    <3> QED
      BY <2>3, <3>1 DEF ToldOf, NewValue
  <2> QED
    BY <2>1, <2>2, <2>3
<1>6. told' = [told EXCEPT ![c] = [told[c] EXCEPT ![f] = ToldOf(c, cheat)]]
  BY DEF ClientCommand, ToldOf
<1>7. told[c] \in [Names -> Int] /\ ToldOf(c, cheat) \in Int
  <2>1. NewValue(c, cheat) \in Int
    BY <1>1, CheatHas
  <2>2. told[c] \in [Names -> Int]
    BY <1>1 DEF FieldTypes
  <2> QED
    BY <1>5, <2>1, <2>2
<1> HIDE DEF f
<1>8. /\ [told[c] EXCEPT ![f] = ToldOf(c, cheat)] \in [Names -> Int]
      /\ \A m \in Names : [told[c] EXCEPT ![f] = ToldOf(c, cheat)][m] = IF m = f THEN ToldOf(c, cheat)
                                                                        ELSE told[c][m]
  BY <1>1, <1>7
<1>9. told \in [FieldEntities -> [Names -> Int]]
  BY <1>1 DEF FieldTypes
<1>10. /\ told' \in [FieldEntities -> [Names -> Int]]
       /\ \A x \in FieldEntities, m \in Names : told'[x][m] = IF x = c /\ m = f THEN ToldOf(c, cheat)
                                                              ELSE told[x][m]
  BY <1>1, <1>6, <1>8, <1>9
<1> QED
  BY <1>5, <1>10 DEF f

(* A command turns its own cheat and no other, though they share a field.  *)
LEMMA CheatKeeps ==
  ASSUME FieldsInv, NEW c \in Clients, NEW cheat \in Cheats, ClientCommand(c, cheat)
  PROVE  FieldsInv'
<1> DEFINE f == FieldOfCheat(cheat)
<1>1. FieldTypes /\ fieldTitle \in FieldTitles /\ fieldTitle \in {"iw3", "iw4"} /\ c \in FieldEntities
      /\ f \in Names
      /\ fieldTitle' = fieldTitle /\ f \in {"entityflags", "clientflags", "noclip", "ufo"}
  BY CheatHas, CheatFields DEF FieldsInv, FieldTypes, FieldEntities
<1>2. Names' = Names /\ Buttons' = Buttons /\ \A x, m : Has(x, m)' <=> Has(x, m)
  BY <1>1, StaticTables
<1>3. "god" \notin Names /\ FlagOf(cheat) \in {1, 2}
  BY <1>1, NamesFacts DEF FlagOf
<1>4. \A x \in FieldEntities : entities[x].flags \in Int
  BY <1>1 DEF FieldTypes
<1>13. \A x \in FieldEntities : entities'[x].flags =
          IF x = c /\ f = "entityflags" THEN NewValue(c, cheat) ELSE entities[x].flags
  BY <1>1, CheatReads
<1>14. \A x \in Clients : \A m \in Names : clients'[x].memory[m] =
          IF x = c /\ m = f /\ m # "entityflags" THEN NewValue(c, cheat) ELSE clients[x].memory[m]
  BY <1>1, CheatReads
<1>15. \A x \in Clients : clients[x].memory \in [Names -> Int]
  BY <1>1 DEF FieldTypes
<1>5. engineFlags' \in [FieldEntities -> Int] /\ EngineKeepsItsFlags'
  <2>1. CASE cheat = "demigod"
    <3>1. f = "entityflags" /\ NewValue(c, cheat) = ToggleFlag(entities[c].flags, 2) /\ FlagOf(cheat) = 2
      BY <2>1 DEF FieldOfCheat, NewValue, FlagOf
    <3>2. engineFlags' = [engineFlags EXCEPT ![c] = ToggleFlag(engineFlags[c], 1)]
      BY <2>1 DEF ClientCommand
    <3>3. ToggleFlag(engineFlags[c], 1) \in Int
      BY <1>1, Toggled DEF FieldTypes
    <3>4. \A x \in FieldEntities : entities'[x].flags \div 2 = engineFlags'[x]
      <4>1. \A x \in FieldEntities : engineFlags'[x] = IF x = c THEN ToggleFlag(engineFlags[c], 1)
                                                       ELSE engineFlags[x]
        BY <1>1, <3>2 DEF FieldTypes
      <4>2. \A x \in FieldEntities : entities[x].flags \div 2 = engineFlags[x]
        BY DEF FieldsInv, EngineKeepsItsFlags
      <4>3. ToggleFlag(entities[c].flags, 2) \div 2 = ToggleFlag(entities[c].flags \div 2, 1)
        BY <1>1, <1>4, Toggled
      <4> QED
        BY <1>1, <1>13, <3>1, <4>1, <4>2, <4>3
    <3> QED
      BY <1>1, <3>2, <3>3, <3>4 DEF FieldTypes, EngineKeepsItsFlags
  <2>2. CASE cheat # "demigod"
    <3>1. f = "entityflags" => FlagOf(cheat) = 1
      BY <1>1, <2>2 DEF FieldOfCheat, FlagOf, Cheats
    <3>2. engineFlags' = engineFlags
      BY <2>2 DEF ClientCommand
    <3>3. \A x \in FieldEntities : entities'[x].flags \div 2 = entities[x].flags \div 2
      BY <1>1, <1>4, <3>1, CheatReads, Toggled DEF NewValue
    <3> QED
      BY <1>1, <3>2, <3>3 DEF FieldsInv, FieldTypes, EngineKeepsItsFlags
  <2> QED
    BY <2>1, <2>2
<1>6. announced' \in [Clients -> [Cheats -> {"unknown", "on", "off"}]]
  BY <1>1 DEF ClientCommand, CommandMessage, FieldTypes
<1>7. FieldTypes'
  BY <1>1, <1>2, <1>5, <1>6, CheatReads, CheatTold DEF FieldTypes, ClientCommand, ClientType, FieldEntityType
<1>8. ValuesKept'
  <2> SUFFICES ASSUME NEW x \in FieldEntities, NEW m \in Names \ Sticks, Has(x, m)
               PROVE  ValueOf(x, m)' = told'[x][m]
    BY <1>2 DEF ValuesKept
  <2>1. m \notin {"health", "entityflags", "god"} => x \in Clients
    BY DEF Has
  <2>2. ValueOf(x, m)' = IF x = c /\ m = f THEN NewValue(c, cheat) ELSE ValueOf(x, m)
    BY <1>1, <1>3, <2>1, CheatReads DEF ValueOf
  <2> QED
    BY <1>1, <2>2, CheatTold DEF FieldsInv, ValuesKept
<1>9. ButtonsKept'
  BY <1>1, CheatReads DEF ButtonsKept, FieldsInv, ClientCommand
<1>10. ASSUME NEW x \in Clients, NEW other \in Cheats
       PROVE  IsOn(x, other)' <=> IF x = c /\ other = cheat THEN ~IsOn(x, other) ELSE IsOn(x, other)
  <2>1. /\ FieldOfCheat(other) \in Names
        /\ FieldOfCheat(other) \in {"entityflags", "clientflags", "noclip", "ufo"}
        /\ FieldOfCheat(other)' = FieldOfCheat(other) /\ FlagOf(other) \in {1, 2} /\ x \in FieldEntities
    BY <1>1, CheatFields DEF FieldOfCheat, FlagOf, FieldEntities
  <2>2. FieldOfCheat(other) = f /\ f \in {"entityflags", "clientflags"}
        /\ other # cheat => FlagOf(other) # FlagOf(cheat)
    BY DEF FieldOfCheat, FlagOf, Cheats
  <2>3. FieldOfCheat(other) \notin {"entityflags", "clientflags"} => FieldOfCheat(other) = other
    BY DEF FieldOfCheat
  <2>4. f \notin {"entityflags", "clientflags"} => f = cheat
    BY DEF FieldOfCheat
  <2>5. CASE FieldOfCheat(other) = "entityflags"
    <3>1. IsOn(x, other) <=> HasFlag(entities[x].flags, FlagOf(other))
      BY <2>5 DEF IsOn
    <3>2. IsOn(x, other)' <=> HasFlag(entities'[x].flags, FlagOf(other))
      BY <2>1, <2>5 DEF IsOn, FlagOf
    <3>3. entities'[x].flags = IF x = c /\ f = "entityflags"
                               THEN ToggleFlag(entities[x].flags, FlagOf(cheat)) ELSE entities[x].flags
      BY <1>13, <2>1 DEF NewValue
    <3> QED
      BY <1>3, <1>4, <2>1, <2>2, <2>5, <3>1, <3>2, <3>3, Toggled
  <2>6. CASE FieldOfCheat(other) = "clientflags"
    <3>1. IsOn(x, other) <=> HasFlag(clients[x].memory["clientflags"], FlagOf(other))
      BY <2>6 DEF IsOn
    <3>2. IsOn(x, other)' <=> HasFlag(clients'[x].memory["clientflags"], FlagOf(other))
      BY <2>1, <2>6 DEF IsOn, FlagOf
    <3>3. clients'[x].memory["clientflags"] =
            IF x = c /\ f = "clientflags" THEN ToggleFlag(clients[x].memory["clientflags"], FlagOf(cheat))
            ELSE clients[x].memory["clientflags"]
      BY <1>14, <2>1, <2>6 DEF NewValue
    <3>4. clients[x].memory["clientflags"] \in Int
      BY <1>15, <2>1, <2>6
    <3> QED
      BY <1>3, <2>1, <2>2, <2>6, <3>1, <3>2, <3>3, <3>4, Toggled
  <2>7. CASE FieldOfCheat(other) \notin {"entityflags", "clientflags"}
    <3>1. IsOn(x, other) <=> clients[x].memory[other] # 0
      BY <2>3, <2>7 DEF IsOn
    <3>2. IsOn(x, other)' <=> clients'[x].memory[other] # 0
      BY <2>1, <2>3, <2>7 DEF IsOn
    <3>3. clients'[x].memory[other] = IF x = c /\ f = other THEN NewValue(c, cheat)
                                      ELSE clients[x].memory[other]
      BY <1>14, <2>1, <2>3, <2>7
    <3>4. f = other <=> cheat = other
      BY <2>1, <2>3, <2>4, <2>7
    <3> QED
      BY <2>3, <2>7, <3>1, <3>2, <3>3, <3>4 DEF NewValue
  <2> QED
    BY <2>5, <2>6, <2>7
<1>11. CheatsTold'
  <2>1. \A x \in Clients, other \in Cheats : announced'[x][other] =
          IF x = c /\ other = cheat THEN CommandMessage(c, cheat) ELSE announced[x][other]
    BY <1>1 DEF ClientCommand, FieldTypes
  <2>2. CheatsAsAnnounced
    BY <1>1 DEF FieldsInv, CheatsTold
  <2> QED
    BY <1>10, <2>1, <2>2 DEF CheatsTold, CheatsAsAnnounced, CommandMessage
<1>12. OnlyCheats'
  BY <1>1 DEF OnlyCheats
<1> QED
  BY <1>5, <1>7, <1>8, <1>9, <1>11, <1>12 DEF FieldsInv

(* The engine's flag of an entity. *)
LEMMA EngineKeeps ==
  ASSUME FieldsInv, NEW e \in FieldEntities, EngineFlag(e)
  PROVE  FieldsInv'
<1> DEFINE g == ToggleFlag(engineFlags[e], 1)
           w == (entities[e].flags % 2) + 2 * g
<1>1. FieldTypes /\ fieldTitle' = fieldTitle /\ fieldTitle \in FieldTitles
  BY DEF EngineFlag, FieldsInv, FieldTypes
<1>2. Names' = Names /\ Buttons' = Buttons /\ \A x, m : Has(x, m)' <=> Has(x, m)
  BY <1>1, StaticTables
<1>3. entities[e].flags \in Int /\ engineFlags[e] \in Int /\ entities \in [FieldEntities -> FieldEntityType]
  BY <1>1 DEF FieldTypes, FieldEntityType
<1>4. g \in Int
  BY <1>3, Toggled
<1>5. engineFlags' = [engineFlags EXCEPT ![e] = g] /\ clients' = clients
  BY DEF EngineFlag
<1>6. /\ engineFlags' \in [FieldEntities -> Int]
      /\ \A x \in FieldEntities : engineFlags'[x] = IF x = e THEN g ELSE engineFlags[x]
  BY <1>1, <1>4, <1>5 DEF FieldTypes
<1>7. entities' = [entities EXCEPT ![e].flags = w]
  BY <1>6 DEF EngineFlag
<1> HIDE DEF g
<1>8. w \in Int /\ w \div 2 = g /\ w % 2 = entities[e].flags % 2
  BY <1>3, <1>4
<1> HIDE DEF w
<1>9. /\ entities' \in [FieldEntities -> FieldEntityType]
      /\ \A x \in FieldEntities : /\ entities'[x].health = entities[x].health
                                  /\ entities'[x].flags = IF x = e THEN w ELSE entities[x].flags
  BY <1>3, <1>7, <1>8, SetFlags DEF FieldEntityType
<1>10. told' = [told EXCEPT ![e] = [m \in Names |-> IF m = "entityflags" THEN w ELSE told[e][m]]]
  BY <1>9 DEF EngineFlag
<1>11. /\ told' \in [FieldEntities -> [Names -> Int]]
       /\ \A x \in FieldEntities, m \in Names :
            told'[x][m] = IF x = e /\ m = "entityflags" THEN w ELSE told[x][m]
  <2>1. told \in [FieldEntities -> [Names -> Int]]
    BY <1>1 DEF FieldTypes
  <2> DEFINE row == [m \in Names |-> IF m = "entityflags" THEN w ELSE told[e][m]]
  <2>2. row \in [Names -> Int] /\ \A m \in Names : row[m] = IF m = "entityflags" THEN w ELSE told[e][m]
    BY <1>8, <2>1
  <2> HIDE DEF row
  <2>3. told' = [told EXCEPT ![e] = row]
    BY <1>10 DEF row
  <2> QED
    BY <2>1, <2>2, <2>3
<1>12. Forget(e, {"entityflags"})
  BY DEF EngineFlag
<1>13. FieldTypes'
  BY <1>1, <1>2, <1>5, <1>6, <1>9, <1>11, <1>12, ForgetTypes DEF FieldTypes, EngineFlag, FieldEntityType
<1>14. ValuesKept'
  <2> SUFFICES ASSUME NEW x \in FieldEntities, NEW m \in Names \ Sticks, Has(x, m)
               PROVE  ValueOf(x, m)' = told'[x][m]
    BY <1>2 DEF ValuesKept
  <2>1. ValueOf(x, m)' = IF x = e /\ m = "entityflags" THEN w ELSE ValueOf(x, m)
    BY <1>5, <1>8, <1>9 DEF ValueOf
  <2> QED
    BY <1>11, <2>1 DEF FieldsInv, ValuesKept
<1>15. EngineKeepsItsFlags'
  BY <1>6, <1>8, <1>9 DEF FieldsInv, EngineKeepsItsFlags
<1>16. ButtonsKept' /\ OnlyCheats'
  BY <1>1, <1>12, ForgetTypes DEF ButtonsKept, OnlyCheats, FieldsInv, EngineFlag
<1>17. ASSUME NEW c \in Clients, NEW cheat \in Cheats, announced'[c][cheat] # "unknown",
              fieldTitle \in {"iw3", "iw4"}
       PROVE  announced'[c][cheat] = announced[c][cheat] /\ (IsOn(c, cheat)' <=> IsOn(c, cheat))
  <2>1. (c # e \/ FieldOfCheat(cheat) # "entityflags") /\ announced'[c][cheat] = announced[c][cheat]
    BY <1>1, <1>12, <1>17, ForgetTypes
  <2>2. FieldOfCheat(cheat)' = FieldOfCheat(cheat) /\ c \in FieldEntities
    BY <1>1 DEF FieldOfCheat, FieldEntities
  <2> QED
    BY <1>5, <1>9, <2>1, <2>2 DEF IsOn
<1>18. CheatsTold'
  BY <1>1, <1>17 DEF CheatsTold, CheatsAsAnnounced, FieldsInv
<1> QED
  BY <1>13, <1>14, <1>15, <1>16, <1>18 DEF FieldsInv

(* Steps that change no field.                                             *)
LEMMA FieldsStay ==
  ASSUME FieldsInv, UNCHANGED <<fieldTitle, entities, told, engineFlags, announced>>, FieldTypes',
         \A c \in Clients : clients'[c].memory = clients[c].memory
  PROVE  ValuesKept' /\ EngineKeepsItsFlags' /\ CheatsTold' /\ OnlyCheats'
<1>1. fieldTitle \in FieldTitles
  BY DEF FieldsInv, FieldTypes
<1>2. Names' = Names /\ \A x, m : Has(x, m)' <=> Has(x, m)
  BY <1>1, StaticTables
<1>3. ValuesKept'
  <2> SUFFICES ASSUME NEW x \in FieldEntities, NEW m \in Names \ Sticks, Has(x, m)
               PROVE  ValueOf(x, m)' = told'[x][m]
    BY <1>2 DEF ValuesKept
  <2>1. m \notin {"health", "entityflags", "god"} => x \in Clients
    BY DEF Has
  <2>2. ValueOf(x, m)' = ValueOf(x, m)
    BY <2>1 DEF ValueOf
  <2> QED
    BY <2>2 DEF FieldsInv, ValuesKept
<1>4. \A c \in Clients, cheat \in Cheats : IsOn(c, cheat)' <=> IsOn(c, cheat)
  BY DEF IsOn, FieldOfCheat, FlagOf
<1>5. CheatsTold'
  BY <1>4 DEF CheatsTold, CheatsAsAnnounced, FieldsInv
<1> QED
  BY <1>3, <1>5 DEF FieldsInv, EngineKeepsItsFlags, OnlyCheats

(* What a command presses is in the pressed buttons until the frame ends.  *)
LEMMA CommandKeeps ==
  ASSUME FieldsInv, NEW c \in Clients, NEW move \in [forward : Int, right : Int], NEW down \in SUBSET Buttons,
         UserCommand(c, move, down)
  PROVE  FieldsInv'
<1>1. FieldTypes /\ fieldTitle' = fieldTitle /\ fieldTitle \in FieldTitles
  BY DEF UserCommand, FieldsInv, FieldTypes
<1>2. Names' = Names /\ Buttons' = Buttons
  BY <1>1, StaticTables
<1> DEFINE R == [clients[c] EXCEPT !.buttons = down,
             !.buttonsSinceLastFrame = clients[c].buttonsSinceLastFrame \union down]
           C == [forward |-> move.forward, right |-> move.right, buttons |-> down]
<1>3. clients \in [Clients -> ClientType] /\ clients[c] \in ClientType
  BY <1>1 DEF FieldTypes, ClientType
<1>4. clients' = [clients EXCEPT ![c] = R]
  BY DEF UserCommand
<1>5. R \in ClientType /\ R.memory = clients[c].memory /\ R.buttons = down
      /\ R.buttonsSinceLastFrame = clients[c].buttonsSinceLastFrame \union down
  BY <1>3 DEF ClientType
<1>6. C \in [forward : Int, right : Int, buttons : SUBSET Buttons] /\ C.buttons = down
  OBVIOUS
<1>7. commands' = [commands EXCEPT ![c] = C]
  BY DEF UserCommand
<1> HIDE DEF R, C
<1>8. clients' \in [Clients -> ClientType] /\ \A x \in Clients : clients'[x] = IF x = c THEN R ELSE clients[x]
  BY <1>3, <1>4, <1>5
<1>9. /\ commands' \in [Clients -> [forward : Int, right : Int, buttons : SUBSET Buttons]]
      /\ \A x \in Clients : commands'[x] = IF x = c THEN C ELSE commands[x]
  BY <1>1, <1>6, <1>7 DEF FieldTypes
<1>10. /\ pressed' \in [Clients -> SUBSET Buttons]
       /\ \A x \in Clients : pressed'[x] = IF x = c THEN pressed[c] \union down ELSE pressed[x]
  BY <1>1 DEF FieldTypes, UserCommand
<1>11. FieldTypes'
  BY <1>1, <1>2, <1>8, <1>9, <1>10 DEF FieldTypes, ClientType, UserCommand
<1>12. ButtonsKept'
  BY <1>5, <1>6, <1>8, <1>9, <1>10 DEF ButtonsKept, FieldsInv
<1> QED
  BY <1>5, <1>8, <1>11, <1>12, FieldsStay DEF FieldsInv, UserCommand

LEMMA HostKeyKeeps ==
  ASSUME FieldsInv, NEW key \in Keys \ {"no key"}, HostKey(key)
  PROVE  FieldsInv'
<1>1. FieldTypes /\ fieldTitle' = fieldTitle /\ fieldTitle \in FieldTitles
  BY DEF HostKey, FieldsInv, FieldTypes
<1>2. Names' = Names /\ Buttons' = Buttons
  BY <1>1, StaticTables
<1>3. keysDown' \in SUBSET (Keys \ {"no key"})
  BY <1>1 DEF FieldTypes, HostKey
<1>4. FieldTypes'
  BY <1>1, <1>2, <1>3 DEF FieldTypes, HostKey
<1>5. ButtonsKept'
  BY DEF FieldsInv, ButtonsKept, HostKey
<1> QED
  BY <1>4, <1>5, FieldsStay DEF FieldsInv, HostKey

LEMMA EndFrameKeeps ==
  ASSUME FieldsInv, EndFrame
  PROVE  FieldsInv'
<1>1. FieldTypes /\ fieldTitle' = fieldTitle /\ fieldTitle \in FieldTitles
  BY DEF EndFrame, FieldsInv, FieldTypes
<1>2. Names' = Names /\ Buttons' = Buttons
  BY <1>1, StaticTables
<1>3. \A c \in Clients : clients[c] \in ClientType
  BY <1>1 DEF FieldTypes, ClientType
<1>4. \A c \in Clients : LET R == [clients[c] EXCEPT !.buttonsSinceLastFrame = {}] IN
         R \in ClientType /\ R.memory = clients[c].memory /\ R.buttons = clients[c].buttons
         /\ R.buttonsSinceLastFrame = {}
  BY <1>3 DEF ClientType
<1>5. clients' = [c \in Clients |-> [clients[c] EXCEPT !.buttonsSinceLastFrame = {}]]
  BY DEF EndFrame
<1>6. /\ clients' \in [Clients -> ClientType]
      /\ \A c \in Clients : /\ clients'[c].memory = clients[c].memory
                            /\ clients'[c].buttons = clients[c].buttons
                            /\ clients'[c].buttonsSinceLastFrame = {}
  BY <1>4, <1>5
<1>7. pressed' \in [Clients -> SUBSET Buttons] /\ \A c \in Clients : pressed'[c] = {}
  BY DEF EndFrame
<1>8. FieldTypes'
  BY <1>1, <1>2, <1>6, <1>7 DEF FieldTypes, EndFrame, ClientType
<1>9. ButtonsKept'
  BY <1>6, <1>7 DEF FieldsInv, ButtonsKept, EndFrame
<1> QED
  BY <1>6, <1>8, <1>9, FieldsStay DEF FieldsInv, EndFrame

LEMMA FieldsStutter ==
  ASSUME FieldsInv, UNCHANGED fieldVars
  PROVE  FieldsInv'
<1>1. fieldTitle \in FieldTitles /\ fieldTitle' = fieldTitle /\ FieldTypes
  BY DEF FieldsInv, FieldTypes, fieldVars
<1>2. Names' = Names /\ Buttons' = Buttons
  BY <1>1, StaticTables
<1>3. FieldTypes'
  BY <1>1, <1>2 DEF FieldTypes, fieldVars
<1>4. ButtonsKept'
  BY DEF FieldsInv, ButtonsKept, fieldVars
<1> QED
  BY <1>3, <1>4, FieldsStay DEF FieldsInv, fieldVars

(* Every step keeps the invariant.                                         *)
LEMMA FieldsStep ==
  ASSUME FieldsInv, [FieldsNext]_fieldVars
  PROVE  FieldsInv'
<1>1. ASSUME NEW c \in Clients, NEW move \in Moves, UserCommand(c, move, {})
      PROVE  FieldsInv'
  BY <1>1, CommandKeeps, FieldsAssumption
<1>2. ASSUME NEW c \in Clients, NEW b \in Buttons, UserCommand(c, [forward |-> 0, right |-> 0], {b})
      PROVE  FieldsInv'
  BY <1>2, CommandKeeps
<1> QED
  BY <1>1, <1>2, AssignKeeps, EngineKeeps, CheatKeeps, HostKeyKeeps, EndFrameKeeps, FieldsStutter DEF FieldsNext

(* What the invariant says of reads. *)
LEMMA ReadsFollow ==
  ASSUME FieldsInv
  PROVE  FieldsHoldTheirValue
<1>1. fieldTitle \in AllFieldTitles
  BY FieldsAssumption DEF FieldsInv, FieldTypes, AllFieldTitles
<1> SUFFICES ASSUME NEW e \in FieldEntities, NEW n \in Names, Has(e, n),
                    OfClient(n) => FieldOf(n).setter # "readonly"
             PROVE  GetObjectField(e, n) = told[e][n]
  BY DEF FieldsHoldTheirValue
<1>2. CASE n = "health"
  BY <1>1, <1>2, TableHolds DEF TableFacts, GetObjectField, FieldsInv, ValuesKept, ValueOf, Sticks
<1>3. CASE n # "health"
  <2>1. OfClient(n) /\ FieldOf(n) = Kind(n)
    BY <1>1, <1>3, TableHolds DEF TableFacts
  <2>2. n \notin Sticks
    BY <2>1 DEF Sticks, Kind, ReadOnly
  <2>3. GetObjectField(e, n) = ValueOf(e, n)
    BY <1>3, <2>1, <2>2 DEF GetObjectField, GetClientField, Kind, Own, Memory, ValueOf, Sticks, God
  <2> QED
    BY <2>2, <2>3 DEF FieldsInv, ValuesKept
<1> QED
  BY <1>2, <1>3

(* The methods that tell of a button, and those that tell of the stick.    *)
HeldBy(m) ==
  CASE m = "adsbuttonpressed" -> "ads" [] m = "jumpbuttonpressed" -> "jump"
    [] m = "fragbuttonpressed" -> "frag"
    [] m \in {"smokebuttonpressed", "secondaryoffhandbuttonpressed"} -> "smoke"
    [] m \in {"sprintbuttonpressed", "sprintbreathbuttonpressed"} -> "sprint"
    [] m = "leanleftbuttonpressed" -> "leanleft" [] m = "leanrightbuttonpressed" -> "leanright"
    [] m = "holdbreathbuttonpressed" -> "holdbreath"
    [] m = "nightvisionbuttonpressed" -> "nightvision"
    [] m = "nextfiretypebuttonpressed" -> "nextfiretype"
HoldMethods ==
  {"adsbuttonpressed", "jumpbuttonpressed", "fragbuttonpressed", "smokebuttonpressed",
   "secondaryoffhandbuttonpressed", "sprintbuttonpressed", "sprintbreathbuttonpressed",
   "leanleftbuttonpressed", "leanrightbuttonpressed", "holdbreathbuttonpressed",
   "nightvisionbuttonpressed", "nextfiretypebuttonpressed"}
Pushes ==
  [forwardbuttonpressed |-> Stick("forward", 1), moveforwardbuttonpressed |-> Stick("forward", 1),
   backbuttonpressed |-> Stick("forward", -1), movebackbuttonpressed |-> Stick("forward", -1),
   leftbuttonpressed |-> Stick("right", -1), moveleftbuttonpressed |-> Stick("right", -1),
   rightbuttonpressed |-> Stick("right", 1), moverightbuttonpressed |-> Stick("right", 1)]

(* The table of each title says of a method what its name says.            *)
LEMMA MethodsOf ==
  ASSUME NEW m \in DOMAIN buttonMethods, fieldTitle \in AllFieldTitles
  PROVE  \/ m \in HoldMethods /\ buttonMethods[m] = Button(HeldBy(m))
         \/ m \in DOMAIN Pushes /\ buttonMethods[m] = Pushes[m]
<1>1. CASE fieldTitle = "iw2"
  <2>0. m \in {"adsbuttonpressed", "jumpbuttonpressed", "fragbuttonpressed", "smokebuttonpressed",
               "forwardbuttonpressed", "backbuttonpressed", "leftbuttonpressed", "rightbuttonpressed"}
    BY <1>1 DEF buttonMethods, iw2_buttons
  <2>1. CASE m = "adsbuttonpressed"
    BY <1>1, <2>1 DEF buttonMethods, iw2_buttons, HoldMethods, HeldBy
  <2>2. CASE m = "jumpbuttonpressed"
    BY <1>1, <2>2 DEF buttonMethods, iw2_buttons, HoldMethods, HeldBy
  <2>3. CASE m = "fragbuttonpressed"
    BY <1>1, <2>3 DEF buttonMethods, iw2_buttons, HoldMethods, HeldBy
  <2>4. CASE m = "smokebuttonpressed"
    BY <1>1, <2>4 DEF buttonMethods, iw2_buttons, HoldMethods, HeldBy
  <2>5. CASE m = "forwardbuttonpressed"
    BY <1>1, <2>5 DEF buttonMethods, iw2_buttons, Pushes
  <2>6. CASE m = "backbuttonpressed"
    BY <1>1, <2>6 DEF buttonMethods, iw2_buttons, Pushes
  <2>7. CASE m = "leftbuttonpressed"
    BY <1>1, <2>7 DEF buttonMethods, iw2_buttons, Pushes
  <2>8. CASE m = "rightbuttonpressed"
    BY <1>1, <2>8 DEF buttonMethods, iw2_buttons, Pushes
  <2> QED
    BY <2>0, <2>1, <2>2, <2>3, <2>4, <2>5, <2>6, <2>7, <2>8
<1>2. CASE fieldTitle = "iw3"
  <2>0. m \in {"sprintbreathbuttonpressed", "leanleftbuttonpressed", "leanrightbuttonpressed",
               "jumpbuttonpressed", "holdbreathbuttonpressed", "nightvisionbuttonpressed",
               "forwardbuttonpressed", "backbuttonpressed", "leftbuttonpressed",
               "rightbuttonpressed"}
    BY <1>2 DEF buttonMethods, iw3_buttons
  <2>1. CASE m = "sprintbreathbuttonpressed"
    BY <1>2, <2>1 DEF buttonMethods, iw3_buttons, HoldMethods, HeldBy
  <2>2. CASE m = "leanleftbuttonpressed"
    BY <1>2, <2>2 DEF buttonMethods, iw3_buttons, HoldMethods, HeldBy
  <2>3. CASE m = "leanrightbuttonpressed"
    BY <1>2, <2>3 DEF buttonMethods, iw3_buttons, HoldMethods, HeldBy
  <2>4. CASE m = "jumpbuttonpressed"
    BY <1>2, <2>4 DEF buttonMethods, iw3_buttons, HoldMethods, HeldBy
  <2>5. CASE m = "holdbreathbuttonpressed"
    BY <1>2, <2>5 DEF buttonMethods, iw3_buttons, HoldMethods, HeldBy
  <2>6. CASE m = "nightvisionbuttonpressed"
    BY <1>2, <2>6 DEF buttonMethods, iw3_buttons, HoldMethods, HeldBy
  <2>7. CASE m = "forwardbuttonpressed"
    BY <1>2, <2>7 DEF buttonMethods, iw3_buttons, Pushes
  <2>8. CASE m = "backbuttonpressed"
    BY <1>2, <2>8 DEF buttonMethods, iw3_buttons, Pushes
  <2>9. CASE m = "leftbuttonpressed"
    BY <1>2, <2>9 DEF buttonMethods, iw3_buttons, Pushes
  <2>10. CASE m = "rightbuttonpressed"
    BY <1>2, <2>10 DEF buttonMethods, iw3_buttons, Pushes
  <2> QED
    BY <2>0, <2>1, <2>2, <2>3, <2>4, <2>5, <2>6, <2>7, <2>8, <2>9, <2>10
<1>3. CASE fieldTitle = "t4"
  <2>0. m \in {"sprintbuttonpressed", "jumpbuttonpressed"}
    BY <1>3 DEF buttonMethods, t4_buttons
  <2>1. CASE m = "sprintbuttonpressed"
    BY <1>3, <2>1 DEF buttonMethods, t4_buttons, HoldMethods, HeldBy
  <2>2. CASE m = "jumpbuttonpressed"
    BY <1>3, <2>2 DEF buttonMethods, t4_buttons, HoldMethods, HeldBy
  <2> QED
    BY <2>0, <2>1, <2>2
<1>4. CASE fieldTitle = "t4sp"
  <2>a. buttonMethods = t4sp_methods
    BY <1>4 DEF buttonMethods
  <2>c. DOMAIN t4sp_buttons = {"jumpbuttonpressed", "secondaryoffhandbuttonpressed", "sprintbuttonpressed"}
    BY DEF t4sp_buttons
  <2>d. DOMAIN t4sp_sticks = {"moveforwardbuttonpressed", "movebackbuttonpressed", "moveleftbuttonpressed",
                              "moverightbuttonpressed"}
    BY DEF t4sp_sticks
  <2>0. m \in {"jumpbuttonpressed", "secondaryoffhandbuttonpressed", "sprintbuttonpressed",
               "moveforwardbuttonpressed", "movebackbuttonpressed", "moveleftbuttonpressed",
               "moverightbuttonpressed"}
    BY <2>a, <2>c, <2>d DEF t4sp_methods
  <2>1. CASE m = "jumpbuttonpressed"
    BY <2>a, <2>1 DEF t4sp_methods, t4sp_buttons, t4sp_sticks, HoldMethods, HeldBy
  <2>2. CASE m = "secondaryoffhandbuttonpressed"
    BY <2>a, <2>2 DEF t4sp_methods, t4sp_buttons, t4sp_sticks, HoldMethods, HeldBy
  <2>3. CASE m = "sprintbuttonpressed"
    BY <2>a, <2>3 DEF t4sp_methods, t4sp_buttons, t4sp_sticks, HoldMethods, HeldBy
  <2>4. CASE m = "moveforwardbuttonpressed"
    BY <2>a, <2>4 DEF t4sp_methods, t4sp_buttons, t4sp_sticks, Pushes
  <2>5. CASE m = "movebackbuttonpressed"
    BY <2>a, <2>5 DEF t4sp_methods, t4sp_buttons, t4sp_sticks, Pushes
  <2>6. CASE m = "moveleftbuttonpressed"
    BY <2>a, <2>6 DEF t4sp_methods, t4sp_buttons, t4sp_sticks, Pushes
  <2>7. CASE m = "moverightbuttonpressed"
    BY <2>a, <2>7 DEF t4sp_methods, t4sp_buttons, t4sp_sticks, Pushes
  <2> QED
    BY <2>0, <2>1, <2>2, <2>3, <2>4, <2>5, <2>6, <2>7
<1>5. CASE fieldTitle = "qos"
  <2>0. m \in {"adsbuttonpressed", "jumpbuttonpressed", "nextfiretypebuttonpressed", "sprintbuttonpressed"}
    BY <1>5 DEF buttonMethods, qos_buttons
  <2>1. CASE m = "adsbuttonpressed"
    BY <1>5, <2>1 DEF buttonMethods, qos_buttons, HoldMethods, HeldBy
  <2>2. CASE m = "jumpbuttonpressed"
    BY <1>5, <2>2 DEF buttonMethods, qos_buttons, HoldMethods, HeldBy
  <2>3. CASE m = "nextfiretypebuttonpressed"
    BY <1>5, <2>3 DEF buttonMethods, qos_buttons, HoldMethods, HeldBy
  <2>4. CASE m = "sprintbuttonpressed"
    BY <1>5, <2>4 DEF buttonMethods, qos_buttons, HoldMethods, HeldBy
  <2> QED
    BY <2>0, <2>1, <2>2, <2>3, <2>4
<1>6. CASE fieldTitle \in {"iw4", "iw4sp", "iw5"}
  BY <1>6 DEF buttonMethods
<1> QED
  BY <1>1, <1>2, <1>3, <1>4, <1>5, <1>6 DEF AllFieldTitles

LEMMA MeaningOfHold ==
  ASSUME NEW c \in Clients, NEW m \in HoldMethods
  PROVE  Meaning(m, c) <=> HeldBy(m) \in pressed[c] \union commands[c].buttons
BY DEF Meaning, HoldMethods, HeldBy

LEMMA MeaningOfPush ==
  ASSUME NEW c \in Clients, NEW m \in DOMAIN Pushes, FieldTypes
  PROVE  /\ Pushes[m].sign = 1 => (Meaning(m, c) <=> commands[c][Pushes[m].of] > 0)
         /\ Pushes[m].sign = -1 => (Meaning(m, c) <=> commands[c][Pushes[m].of] < 0)
<1>0. commands[c].forward \in Int /\ commands[c].right \in Int
  BY DEF FieldTypes
<1>1. m \in {"forwardbuttonpressed", "moveforwardbuttonpressed", "backbuttonpressed", "movebackbuttonpressed",
            "leftbuttonpressed", "moveleftbuttonpressed", "rightbuttonpressed", "moverightbuttonpressed"}
  BY DEF Pushes
<1>2. CASE m \in {"forwardbuttonpressed", "moveforwardbuttonpressed"}
  <2>1. Pushes[m].of = "forward" /\ Pushes[m].sign = 1
    BY <1>2 DEF Pushes, Stick
  <2>2. Meaning(m, c) <=> ForwardMove(c) > 0
    BY <1>2 DEF Meaning
  <2> QED
    BY <1>0, <2>1, <2>2 DEF ForwardMove
<1>3. CASE m \in {"backbuttonpressed", "movebackbuttonpressed"}
  <2>1. Pushes[m].of = "forward" /\ Pushes[m].sign = -1
    BY <1>3 DEF Pushes, Stick
  <2>2. Meaning(m, c) <=> ForwardMove(c) < 0
    BY <1>3 DEF Meaning
  <2> QED
    BY <1>0, <2>1, <2>2 DEF ForwardMove
<1>4. CASE m \in {"leftbuttonpressed", "moveleftbuttonpressed"}
  <2>1. Pushes[m].of = "right" /\ Pushes[m].sign = -1
    BY <1>4 DEF Pushes, Stick
  <2>2. Meaning(m, c) <=> RightMove(c) < 0
    BY <1>4 DEF Meaning
  <2> QED
    BY <1>0, <2>1, <2>2 DEF RightMove
<1>5. CASE m \in {"rightbuttonpressed", "moverightbuttonpressed"}
  <2>1. Pushes[m].of = "right" /\ Pushes[m].sign = 1
    BY <1>5 DEF Pushes, Stick
  <2>2. Meaning(m, c) <=> RightMove(c) > 0
    BY <1>5 DEF Meaning
  <2> QED
    BY <1>0, <2>1, <2>2 DEF RightMove
<1> QED
  BY <1>1, <1>2, <1>3, <1>4, <1>5

(* What the invariant says of presses.                                     *)
LEMMA PressesFollow ==
  ASSUME FieldsInv
  PROVE  PressesAreSeen
<1>1. fieldTitle \in AllFieldTitles /\ keysDown \in SUBSET (Keys \ {"no key"})
  BY FieldsAssumption DEF FieldsInv, FieldTypes, AllFieldTitles
<1>2. ASSUME NEW c \in Clients, NEW m \in DOMAIN buttonMethods
      PROVE  Tells(c, m) <=> Meaning(m, c)
  <2>1. buttonsPressed(c) = pressed[c] \union commands[c].buttons
    BY DEF buttonsPressed, FieldsInv, ButtonsKept
  <2>2. CASE m \in HoldMethods /\ buttonMethods[m] = Button(HeldBy(m))
    BY <2>1, <2>2, MeaningOfHold DEF Tells, Button
  <2>3. CASE m \in DOMAIN Pushes /\ buttonMethods[m] = Pushes[m]
    <3>1. Pushes[m].sign \in {1, -1}
      BY <2>3 DEF Pushes, Stick
    <3>2. CASE Pushes[m].sign = 1
      <4>1. Tells(c, m) <=> commands[c][Pushes[m].of] > 0
        BY <2>3, <3>2 DEF Tells
      <4> QED
        BY <2>3, <3>2, <4>1, MeaningOfPush DEF FieldsInv
    <3>3. CASE Pushes[m].sign = -1
      <4>1. Tells(c, m) <=> commands[c][Pushes[m].of] < 0
        BY <2>3, <3>3 DEF Tells
      <4> QED
        BY <2>3, <3>3, <4>1, MeaningOfPush DEF FieldsInv
    <3> QED
      BY <3>1, <3>2, <3>3
  <2> QED
    BY <1>1, <2>2, <2>3, MethodsOf
<1>3. ASSUME fieldTitle \in {"iw2", "iw3", "qos", "t4"}, NEW c \in Clients, NEW key \in Keys
      PROVE  PlayerCmd_ButtonPressed(c, key) <=> key \in keysDown
  BY <1>1, <1>3, FieldsAssumption DEF PlayerCmd_ButtonPressed, CL_IsKeyPressed, Key_StringToKeynum
<1> QED
  BY <1>2, <1>3 DEF PressesAreSeen

(* And of cheats.                                                          *)
LEMMA CheatsFollow ==
  ASSUME FieldsInv
  PROVE  CheatsAsAnnounced
BY DEF FieldsInv, CheatsTold, OnlyCheats, CheatsAsAnnounced

(* Whatever players press and scripts assign, a field holds what was        *)
(* assigned to it last, the engine's flags stay, a player's cheats are what *)
(* he was told and each press is seen (Scr_SetClientField,                 *)
(* Scr_GetObjectField_Hook, ClientCommand_Hook, the ButtonPressed methods).*)
THEOREM FieldsAnswerAsAssigned == FieldsSpec => []FieldsAnswer
<1>1. FieldsInit => FieldsInv
  BY FieldsStart
<1>2. FieldsInv /\ [FieldsNext]_fieldVars => FieldsInv'
  BY FieldsStep
<1>3. FieldsInv => FieldsAnswer
  BY ReadsFollow, CheatsFollow, PressesFollow DEF FieldsAnswer, FieldsInv
<1> QED
  BY <1>1, <1>2, <1>3, PTL DEF FieldsSpec

-----------------------------------------------------------------------------
(* For any entities, players and number of brush models. *)

(* The world has the entity in the shape of its model.                     *)
Linked(ent) == ent.linked /\ ent.as = ent.model /\ ContentsOf(ent.model) \subseteq ent.contents

Classes == {"free", "script_model", "script_brushmodel", "trigger"}
EntityType ==
  [class : Classes, model : Nat, bounds : Nat, contents : SUBSET Nat, linked : BOOLEAN, as : Nat]
EntityTypes == entity \in [Entities -> EntityType]

(* Of what a player was sent, the last is what he was given last; when all  *)
(* is processed he has it.                                                 *)
LastWanted ==
  \A c \in EntityClients :
    IF events[c] = <<>> THEN stance[c] \cap Stances = StanceBits(wanted[c])
    ELSE events[c][Len(events[c])] = wanted[c]

StanceTypes ==
  /\ stance \in [EntityClients -> SUBSET (Stances \cup {"mantle"})]
  /\ events \in [EntityClients -> Seq(Stances)]
  /\ wanted \in [EntityClients -> Stances]

EntitiesInv == EntityTypes /\ given \subseteq Entities /\ ShapesFollowModels /\ StanceTypes /\ LastWanted

LEMMA FreeIs ==
  Free \in EntityType /\ ~Free.linked
BY DEF Free, EntityType, Classes

LEMMA ContentsIn == \A m \in Nat : ContentsOf(m) \in SUBSET Nat
BY DEF ContentsOf

LEMMA ClassIs ==
  ASSUME NEW class \in Classes
  PROVE  /\ [Free EXCEPT !.class = class] \in EntityType /\ [Free EXCEPT !.class = class].model = 0
         /\ ~[Free EXCEPT !.class = class].linked /\ [Free EXCEPT !.class = class].bounds = 0
BY DEF Free, EntityType, Classes

LEMMA UnlinkIs ==
  ASSUME NEW ent \in EntityType
  PROVE  SV_UnlinkEntity(ent) \in EntityType
BY DEF SV_UnlinkEntity, EntityType

LEMMA LinkIs ==
  ASSUME NEW ent \in EntityType
  PROVE  /\ SV_LinkEntity(ent) \in EntityType /\ SV_LinkEntity(ent).linked
         /\ SV_LinkEntity(ent).as = ent.bounds /\ SV_LinkEntity(ent).model = ent.model
         /\ SV_LinkEntity(ent).contents = ent.contents
BY DEF SV_LinkEntity, EntityType

LEMMA ModelIs ==
  ASSUME NEW ent \in EntityType, NEW model \in Nat
  PROVE  /\ [ent EXCEPT !.model = model] \in EntityType
         /\ [ent EXCEPT !.model = model].model = model
BY DEF EntityType

LEMMA BrushModelIs ==
  ASSUME NEW ent \in EntityType
  PROVE  /\ SV_SetBrushModel(ent) \in EntityType /\ SV_SetBrushModel(ent).bounds = ent.model
         /\ SV_SetBrushModel(ent).model = ent.model
         /\ SV_SetBrushModel(ent).contents = ContentsOf(ent.model)
BY ContentsIn DEF SV_SetBrushModel, EntityType

LEMMA ContentsAre ==
  ASSUME NEW ent \in EntityType, NEW more \in SUBSET Nat
  PROVE  LET with == [ent EXCEPT !.contents = @ \union more] IN
         with \in EntityType /\ (Linked(ent) => Linked(with))
BY DEF Linked, EntityType

(* Whatever it was before, an entity that is given a model is linked so.   *)
LEMMA GivenIs ==
  ASSUME NEW ent \in EntityType, NEW model \in Nat
  PROVE  GivenModel(ent, model) \in EntityType /\ Linked(GivenModel(ent, model))
<1> DEFINE a == [SV_UnlinkEntity(ent) EXCEPT !.model = model]
           b == SV_SetBrushModel(a)
<1>1. a \in EntityType /\ a.model = model
  BY UnlinkIs, ModelIs
<1>2. b \in EntityType /\ b.bounds = model /\ b.model = model /\ b.contents = ContentsOf(model)
  BY <1>1, BrushModelIs
<1>3. GivenModel(ent, model) = SV_LinkEntity(b)
  BY DEF GivenModel
<1> HIDE DEF b
<1> QED
  BY <1>2, <1>3, LinkIs DEF Linked

LEMMA SpawnedIs ==
  ASSUME NEW class \in Classes, NEW model \in Nat
  PROVE  Spawned(class, model) \in EntityType /\ Linked(Spawned(class, model))
<1> DEFINE a == [[Free EXCEPT !.class = class] EXCEPT !.model = model]
           b == SV_SetBrushModel(a)
<1>1. a \in EntityType /\ a.model = model
  BY ClassIs, ModelIs
<1>2. b \in EntityType /\ b.bounds = model /\ b.model = model /\ b.contents = ContentsOf(model)
  BY <1>1, BrushModelIs
<1>3. [Free EXCEPT !.class = class, !.model = model] = a
  OBVIOUS
<1>4. Spawned(class, model) = SV_LinkEntity(b)
  BY <1>3 DEF Spawned
<1> HIDE DEF b
<1> QED
  BY <1>2, <1>4, LinkIs DEF Linked

LEMMA ClonedIs ==
  ASSUME NEW ent \in EntityType, NEW from \in EntityType
  PROVE  Cloned(ent, from) \in EntityType /\ Linked(Cloned(ent, from))
<1> DEFINE shaped == GivenModel(ent, from.model)
<1>1. shaped \in EntityType /\ Linked(shaped)
  BY GivenIs DEF EntityType
<1>2. Cloned(ent, from) = [shaped EXCEPT !.contents = @ \union ent.contents]
  BY DEF Cloned
<1>3. ent.contents \in SUBSET Nat
  BY DEF EntityType
<1> HIDE DEF shaped
<1> QED
  BY <1>1, <1>2, <1>3, ContentsAre

(* Calls that give one entity a shape.                                     *)
LEMMA NewShape ==
  ASSUME EntitiesInv, NEW e \in Entities, NEW ent \in EntityType, Linked(ent),
         entity' = [entity EXCEPT ![e] = ent],
         given' = given \union {e}, UNCHANGED <<stance, events, wanted>>
  PROVE  EntitiesInv'
<1>1. EntityTypes' /\ (given \subseteq Entities)' /\ ShapesFollowModels'
  BY DEF EntitiesInv, EntityTypes, ShapesFollowModels, Linked
<1> QED
  BY <1>1 DEF EntitiesInv, StanceTypes, LastWanted

LEMMA EntitiesStart ==
  ASSUME EntitiesInit
  PROVE  EntitiesInv
<1>1. EntityTypes /\ given \subseteq Entities /\ ShapesFollowModels
  BY FreeIs DEF EntitiesInit, EntityTypes, ShapesFollowModels
<1>2. StanceTypes /\ LastWanted
  BY DEF EntitiesInit, StanceTypes, LastWanted, Stances, StanceBits
<1> QED
  BY <1>1, <1>2 DEF EntitiesInv

LEMMA ShapesStay ==
  ASSUME EntitiesInv, UNCHANGED <<entity, given>>, StanceTypes', LastWanted'
  PROVE  EntitiesInv'
BY DEF EntitiesInv, EntityTypes, ShapesFollowModels

LEMMA StancesStay ==
  ASSUME EntitiesInv, UNCHANGED <<stance, events, wanted>>, EntityTypes', given' \subseteq Entities,
         ShapesFollowModels'
  PROVE  EntitiesInv'
BY DEF EntitiesInv, StanceTypes, LastWanted

LEMMA StanceIs ==
  ASSUME NEW b \in SUBSET (Stances \cup {"mantle"}), NEW s \in Stances
  PROVE  /\ (b \ Stances) \union StanceBits(s) \in SUBSET (Stances \cup {"mantle"})
         /\ ((b \ Stances) \union StanceBits(s)) \cap Stances = StanceBits(s)
BY DEF Stances, StanceBits

(* Events are taken from the front and put to the end.                     *)
LEMMA LastOfTail ==
  ASSUME NEW S, NEW q \in Seq(S), q # <<>>
  PROVE  /\ Head(q) \in S /\ Tail(q) \in Seq(S) /\ Head(q) = q[1]
         /\ Tail(q) = <<>> => q[Len(q)] = Head(q)
         /\ Tail(q) # <<>> => Tail(q)[Len(Tail(q))] = q[Len(q)]
<1>1. Len(q) \in Nat \ {0} /\ Tail(q) \in Seq(S) /\ Len(Tail(q)) = Len(q) - 1 /\ Head(q) = q[1] /\ Head(q) \in S
  OBVIOUS
<1>2. ASSUME Tail(q) = <<>> PROVE q[Len(q)] = Head(q)
  <2>1. Len(Tail(q)) = 0
    <3>1. Len(<<>>) = 0
      OBVIOUS
    <3> QED
      BY <1>2, <3>1, Zenon
  <2>2. Len(q) = 1
    BY <1>1, <2>1
  <2> QED
    BY <1>1, <2>2
<1>3. ASSUME Tail(q) # <<>> PROVE Tail(q)[Len(Tail(q))] = q[Len(q)]
  <2>1. Len(Tail(q)) # 0
    BY <1>1, <1>3
  <2>2. \A i \in 1..Len(q) - 1 : Tail(q)[i] = q[i + 1]
    BY <1>1
  <2>3. Len(q) - 1 \in 1..Len(q) - 1
    BY <1>1, <2>1
  <2> QED
    BY <1>1, <2>2, <2>3
<1> QED
  BY <1>1, <1>2, <1>3

LEMMA LastOfAppend ==
  ASSUME NEW S, NEW q \in Seq(S), NEW s \in S
  PROVE  /\ Append(q, s) \in Seq(S) /\ Append(q, s) # <<>>
         /\ Append(q, s)[Len(Append(q, s))] = s
OBVIOUS

(* Steps of the stance, and those of entities.                             *)
LEMMA StanceStep ==
  ASSUME EntitiesInv, NEW c \in EntityClients, NEW s \in Stances, SetStance(c, s)
  PROVE  EntitiesInv'
<1>1. StanceTypes'
  BY StanceIs, LastOfAppend DEF EntitiesInv, StanceTypes, SetStance, IW2SetStance, IW3SetStance
<1>2. LastWanted'
  BY StanceIs, LastOfAppend DEF EntitiesInv, StanceTypes, LastWanted, SetStance, IW2SetStance, IW3SetStance
<1> QED
  BY <1>1, <1>2, ShapesStay DEF SetStance

LEMMA CommandStep ==
  ASSUME EntitiesInv, NEW c \in EntityClients, NEW s \in Stances, Command(c, s)
  PROVE  EntitiesInv'
<1>1. CASE events[c] = <<>>
  <2>1. StanceTypes'
    BY <1>1, StanceIs DEF EntitiesInv, StanceTypes, Command
  <2>2. LastWanted'
    BY <1>1, StanceIs DEF EntitiesInv, StanceTypes, LastWanted, Command
  <2> QED
    BY <2>1, <2>2, ShapesStay DEF Command
<1>2. CASE events[c] # <<>>
  <2>0. events[c] \in Seq(Stances)
    BY DEF EntitiesInv, StanceTypes
  <2>1. StanceTypes'
    BY <1>2, <2>0, StanceIs, LastOfTail DEF EntitiesInv, StanceTypes, Command
  <2>2. stance'[c] \cap Stances = StanceBits(Head(events[c])) /\ events'[c] = Tail(events[c])
        /\ wanted' = wanted /\ events[c][Len(events[c])] = wanted[c]
    BY <1>2, <2>0, StanceIs, LastOfTail DEF EntitiesInv, StanceTypes, LastWanted, Command
  <2>3. LastWanted'
    BY <1>2, <2>0, <2>2, LastOfTail DEF EntitiesInv, StanceTypes, LastWanted, Command
  <2> QED
    BY <2>1, <2>3, ShapesStay DEF Command
<1> QED
  BY <1>1, <1>2

LEMMA MantleStep ==
  ASSUME EntitiesInv, NEW c \in EntityClients, Mantle(c)
  PROVE  EntitiesInv'
<1>1. StanceTypes'
  BY DEF EntitiesInv, StanceTypes, Mantle, Stances
<1>2. LastWanted'
  BY DEF EntitiesInv, StanceTypes, LastWanted, Mantle, Stances
<1> QED
  BY <1>1, <1>2, ShapesStay DEF Mantle

LEMMA EntitiesStep ==
  ASSUME EntitiesInv, [EntitiesNext]_entityVars
  PROVE  EntitiesInv'
<1>0. \A e \in Entities : entity[e] \in EntityType
  BY DEF EntitiesInv, EntityTypes
<1>1. CASE NewMap
  <2>1. EntityTypes' /\ (given \subseteq Entities)' /\ ShapesFollowModels'
    BY <1>1, FreeIs DEF NewMap, EntitiesInv, EntityTypes, ShapesFollowModels
  <2> QED
    BY <1>1, <2>1, StancesStay DEF NewMap
<1>2. ASSUME NEW e \in Entities, FreeEntity(e)
      PROVE  EntitiesInv'
  <2>1. EntityTypes' /\ (given \subseteq Entities)' /\ ShapesFollowModels'
    BY <1>2, FreeIs DEF FreeEntity, EntitiesInv, EntityTypes, ShapesFollowModels
  <2> QED
    BY <1>2, <2>1, StancesStay DEF FreeEntity
<1>3. ASSUME NEW e \in Entities, NEW class \in {"script_model", "script_brushmodel", "trigger"}, Spawn(e, class)
      PROVE  EntitiesInv'
  <2>0. (IF class = "script_brushmodel" THEN Submodels \ {0} ELSE {0}) \subseteq Nat
    BY EntitiesAssumption DEF Submodels
  <2>1. PICK model \in Nat : entity' = [entity EXCEPT ![e] = Spawned(class, model)]
    BY <1>3, <2>0 DEF Spawn
  <2> QED
    BY <1>3, <2>1, SpawnedIs, NewShape DEF Spawn, Classes
<1>4. ASSUME NEW e \in Entities, NEW b \in Entities, CloneBrushModelToScriptModel(e, b)
      PROVE  EntitiesInv'
  <2>1. given' = given \union {e} /\ UNCHANGED <<stance, events, wanted>>
    BY <1>4 DEF CloneBrushModelToScriptModel
  <2>2. entity' = [entity EXCEPT ![e] = Cloned(entity[e], entity[b])]
    BY <1>4 DEF CloneBrushModelToScriptModel
  <2> QED
    BY <1>0, <2>1, <2>2, ClonedIs, NewShape
<1>5. ASSUME NEW e \in Entities, NEW index \in 0..NumSubModels, SetBrushModel(e, index)
      PROVE  EntitiesInv'
  <2>1. given' = given \union {e} /\ UNCHANGED <<stance, events, wanted>> /\ index \in Nat
    BY <1>5, EntitiesAssumption DEF SetBrushModel
  <2>2. entity' = [entity EXCEPT ![e] = GivenModel(entity[e], index)]
    BY <1>5 DEF SetBrushModel
  <2> QED
    BY <1>0, <2>1, <2>2, GivenIs, NewShape
<1>6. ASSUME NEW e \in Entities, NEW named \in BOOLEAN, SpawnCollision(e, named)
      PROVE  EntitiesInv'
  <2>1. CASE named
    <3> DEFINE ent == [Free EXCEPT !.class = "script_model"]
    <3>1. ent \in EntityType /\ ent.bounds = 0 /\ ent.model = 0
      BY ClassIs DEF Classes
    <3>2. entity' = [entity EXCEPT ![e] = SV_LinkEntity(ent)] /\ given' = given \union {e}
          /\ UNCHANGED <<stance, events, wanted>>
      BY <1>6, <2>1 DEF SpawnCollision
    <3> HIDE DEF ent
    <3>3. SV_LinkEntity(ent) \in EntityType /\ Linked(SV_LinkEntity(ent))
      BY <3>1, LinkIs DEF Linked, ContentsOf
    <3> QED
      BY <3>2, <3>3, NewShape
  <2>2. CASE ~named
    <3>1. e \notin given
      BY <1>6, FreeIs DEF SpawnCollision, EntitiesInv, ShapesFollowModels
    <3>2. [Free EXCEPT !.class = "script_model"] \in EntityType
          /\ ~[Free EXCEPT !.class = "script_model"].linked
      BY ClassIs DEF Classes
    <3>3. EntityTypes' /\ (given \subseteq Entities)' /\ ShapesFollowModels'
      BY <1>6, <2>2, <3>1, <3>2 DEF SpawnCollision, EntitiesInv, EntityTypes, ShapesFollowModels
    <3> QED
      BY <1>6, <3>3, StancesStay DEF SpawnCollision
  <2> QED
    BY <2>1, <2>2
<1>7. CASE UNCHANGED entityVars
  BY <1>7, ShapesStay DEF EntitiesInv, StanceTypes, LastWanted, entityVars
<1> QED
  BY <1>1, <1>2, <1>3, <1>4, <1>5, <1>6, <1>7, StanceStep, CommandStep, MantleStep DEF EntitiesNext

LEMMA EntitiesHold ==
  ASSUME EntitiesInv
  PROVE  ShapesFollowModels /\ StanceIsAsWanted
<1>1. ASSUME NEW c \in EntityClients, events[c] = <<>>
      PROVE  GetStance(c) = wanted[c] /\ stance[c] \cap Stances = StanceBits(wanted[c])
  <2>1. stance[c] \cap Stances = StanceBits(wanted[c]) /\ wanted[c] \in Stances
    BY <1>1 DEF EntitiesInv, LastWanted, StanceTypes
  <2>2. \A s \in {"prone", "crouch"} : s \in stance[c] <=> s = wanted[c]
    BY <2>1 DEF Stances, StanceBits
  <2> QED
    BY <2>1, <2>2 DEF GetStance, Stances
<1> QED
  BY <1>1 DEF EntitiesInv, StanceIsAsWanted

(* Whatever scripts spawn, clone, shape and free, the world has each entity *)
(* in the shape of its model and solid as that is, and a player who has     *)
(* processed what he was sent is in the stance he was given last            *)
(* (CloneBrushModelToScriptModel, SetBrushModel, SpawnCollision, SetStance).*)
THEOREM EntitiesAnswerAsGiven == EntitiesSpec => []EntitiesAnswer
<1>1. EntitiesInit => EntitiesInv
  BY EntitiesStart
<1>2. EntitiesInv /\ [EntitiesNext]_entityVars => EntitiesInv'
  BY EntitiesStep
<1>3. EntitiesInv => EntitiesAnswer
  BY EntitiesHold DEF EntitiesAnswer
<1> QED
  BY <1>1, <1>2, <1>3, PTL DEF EntitiesSpec
=============================================================================
