------------------------------ MODULE ScriptFiles ------------------------------
(***************************************************************************)
(* Files opened by scripts: the handle table of common/script_files.cpp    *)
(* and the script functions over it in iw2, iw3, iw5 and t4, and IW4's     *)
(* single file.  The table is a static of the plugin module: it outlives   *)
(* script sessions and titles, and handles are small numbers that scripts  *)
(* may keep, reuse after a close, or make up.                              *)
(*                                                                         *)
(* A file is the set of its lines; stdio buffers what is written until the *)
(* file is closed.                                                         *)
(***************************************************************************)
EXTENDS Integers, FiniteSets

CONSTANTS
  Files,        \* paths, resolved
  MAX_HANDLES,
  Lines,        \* bound: lines a script can write
  MaxSession,   \* bound: script sessions
  Titles        \* titles that may be started

AllTitles == {"iw2", "iw3", "iw4", "iw5", "t4"}

ASSUME ScriptFilesAssumption ==
  /\ MAX_HANDLES \in Nat \ {0}
  /\ Lines \subseteq Nat \ {0}
  /\ MaxSession \in Nat
  /\ Titles \subseteq AllTitles

VARIABLES
  title,    \* the title that is running, "none" between titles
  running,  \* a script session is running
  session,  \* its number
  handles,  \* per slot 1..MAX_HANDLES: Closed, or the open file
  args,     \* fileArgs (iw2): per slot, the file whose last line was split
  disk,     \* per file: the lines on disk, or NoFile
  acked,    \* per file: the lines whose write call returned success
  opened    \* the last call, if it was an open: the script's number, the slot

vars == <<title, running, session, handles, args, disk, acked, opened>>

Handle == 1..MAX_HANDLES
Closed == [mode |-> "closed"]
Open(h) == handles[h] # Closed
NoFile == {0}
NoArgs == "no args"
NoOpen == [number |-> -1, slot |-> 0]
Modes == {"read", "write", "append"}

Init ==
  /\ title = "none"
  /\ running = FALSE
  /\ session = 0
  /\ handles = [h \in Handle |-> Closed]
  /\ args = [h \in Handle |-> NoArgs]
  /\ disk \in [Files -> {NoFile, {}}]
  /\ acked = [f \in Files |-> {}]
  /\ opened = NoOpen

-----------------------------------------------------------------------------
(* common/script_files.cpp *)

NO_FREE_HANDLES == -1
OPEN_FAILED == 0

(* The slot Open tries: the first free one.                                *)
FreeSlots == {h \in Handle : ~Open(h)}
FirstFree == CHOOSE h \in FreeSlots : \A g \in FreeSlots : h <= g

(* fopen fails for reading a file that is not there.                       *)
CanOpen(f, mode) == mode # "read" \/ disk[f] # NoFile

(* What Open returns.                                                      *)
Opened(f, mode) ==
  IF FreeSlots = {} THEN NO_FREE_HANDLES
  ELSE IF CanOpen(f, mode) THEN FirstFree ELSE OPEN_FAILED

IsValidHandle(n) == n \in Handle
Get(n) == IsValidHandle(n) /\ Open(n)

(* fclose: the buffered lines reach the disk.                              *)
Flushed(hs) ==
  [f \in Files |-> IF disk[f] = NoFile THEN NoFile
                   ELSE disk[f] \union UNION {handles[h].buffer :
                          h \in {g \in hs : Open(g) /\ handles[g].file = f}}]

Close(h) ==
  /\ handles' = [handles EXCEPT ![h] = Closed]
  /\ disk' = Flushed({h})

(* Mutant: the table is zeroed, the files stay open.                       *)
CloseAllForget ==
  /\ handles' = [h \in Handle |-> Closed]
  /\ UNCHANGED disk

CloseAll ==
  /\ handles' = [h \in Handle |-> Closed]
  /\ disk' = Flushed(Handle)

-----------------------------------------------------------------------------
(* Opening *)

(* What scripts get for what Open returned; Scr_Error gives them nothing.  *)
Aborted == -1
IW2OpenFileResult(h) == IF h > 0 THEN h - 1 ELSE -1
IW3FOpenResult(h) == IF h = NO_FREE_HANDLES THEN Aborted ELSE h
T4FOpenResult(h) == IF h = NO_FREE_HANDLES THEN Aborted ELSE h
IW5OpenFileResult(h) == IF h = NO_FREE_HANDLES THEN OPEN_FAILED ELSE h

(* IW4 has one file, for reading, and no handles: 1 is success.            *)
IW4OpenFileResult(f, mode) ==
  IF mode # "read" \/ Open(1) \/ ~CanOpen(f, mode) THEN -1 ELSE 1

OpenResult(f, mode) ==
  CASE title = "iw2" -> IW2OpenFileResult(Opened(f, mode))
    [] title = "iw3" -> IW3FOpenResult(Opened(f, mode))
    [] title = "t4"  -> T4FOpenResult(Opened(f, mode))
    [] title = "iw5" -> IW5OpenFileResult(Opened(f, mode))
    [] title = "iw4" -> IW4OpenFileResult(f, mode)

(* The slot that the call fills, 0 if none.                                *)
OpensSlot(f, mode) ==
  IF title = "iw4" THEN IF IW4OpenFileResult(f, mode) = 1 THEN 1 ELSE 0
  ELSE IF Opened(f, mode) > 0 THEN Opened(f, mode) ELSE 0

(* Scripts open a file for writing only while nobody has it open, and do   *)
(* not open one that is being written.                                     *)
MayOpen(f, mode) ==
  \A h \in Handle : (Open(h) /\ handles[h].file = f) => mode = "read" /\ handles[h].mode = "read"

OpenFile(f, mode) ==
  /\ running /\ MayOpen(f, mode)
  /\ opened' = [number |-> OpenResult(f, mode), slot |-> OpensSlot(f, mode)]
  /\ LET h == OpensSlot(f, mode) IN
       IF h = 0 THEN UNCHANGED <<handles, args, disk, acked>>
       ELSE /\ handles' = [handles EXCEPT ![h] =
                 [mode |-> mode, file |-> f, buffer |-> {}, session |-> session]]
            /\ args' = [args EXCEPT ![h] = NoArgs]
            /\ disk' = [disk EXCEPT ![f] =
                 IF mode = "write" \/ @ = NoFile THEN {} ELSE @]
            /\ acked' = [acked EXCEPT ![f] = IF mode = "write" THEN {} ELSE @]
  /\ UNCHANGED <<title, running, session>>

-----------------------------------------------------------------------------
(* Using a handle: the slot that a script's number names, 0 if none. *)

(* GetHandle: zero-based, and open.                                        *)
IW2Slot(n) == IF n \in 0..(MAX_HANDLES - 1) /\ Get(n + 1) THEN n + 1 ELSE 0
IW3Slot(n) == IF Get(n) THEN n ELSE 0
IW4Slot(n) == IF Open(1) THEN 1 ELSE 0   \* whatever closefile or readstream is given
IW5Slot(n) == IF Get(n) THEN n ELSE 0    \* refused with a result, not an error

Slot(n) ==
  CASE title = "none" -> 0
    [] title = "iw2" -> IW2Slot(n)
    [] title = "iw4" -> IW4Slot(n)
    [] title = "iw5" -> IW5Slot(n)
    [] title \in {"iw3", "t4"} -> IW3Slot(n)

Numbers == -1..(MAX_HANDLES + 1)

(* A number that names no open file is refused: no action stands for it.   *)

CloseFile(n) ==
  /\ running /\ Slot(n) # 0
  /\ Close(Slot(n))
  /\ args' = [args EXCEPT ![Slot(n)] = NoArgs]
  /\ opened' = NoOpen
  /\ UNCHANGED <<title, running, session, acked>>

(* freadln, fs_readline, readstream: a line or the end of the file.  IW2   *)
(* keeps the columns of the line.  A file that is not open for reading is  *)
(* refused (iw2) or yields nothing.                                        *)
ReadLine(n) ==
  /\ running /\ Slot(n) # 0
  /\ LET h == Slot(n) IN
       /\ handles[h].mode = "read"
       /\ args' \in {[args EXCEPT ![h] = NoArgs],
                     [args EXCEPT ![h] = IF title = "iw2" THEN handles[h].file ELSE NoArgs]}
  /\ opened' = NoOpen
  /\ UNCHANGED <<title, running, session, handles, disk, acked>>

(* fprintln, fs_writeline (IW4 has none): a file that is open for reading  *)
(* is refused (iw2) or the write fails.                                    *)
WriteLine(n) ==
  /\ running /\ title # "iw4" /\ Slot(n) # 0
  /\ LET h == Slot(n) IN
       /\ handles[h].mode # "read"
       /\ \E line \in Lines \ acked[handles[h].file] :
            /\ handles' = [handles EXCEPT ![h].buffer = @ \union {line}]
            /\ acked' = [acked EXCEPT ![handles[h].file] = @ \union {line}]
  /\ opened' = NoOpen
  /\ UNCHANGED <<title, running, session, args, disk>>

-----------------------------------------------------------------------------
(* Files without a handle *)

(* fs_testfile, and fileexists of IW4.                                     *)
FS_TestFile(f) == CanOpen(f, "read")
FileExists(f) == CanOpen(f, "read")

(* fileread: the whole file, or undefined.  What the scripts of a behaviour *)
(* write fits a string (65,535 bytes); of a longer file the end is missing. *)
FileRead(f) == IF CanOpen(f, "read") THEN disk[f] ELSE NoFile

(* filewrite opens the file, writes and closes it.                         *)
FileWrite(f, mode, line) ==
  /\ running /\ title = "iw4" /\ mode # "read" /\ MayOpen(f, mode)
  /\ LET before == IF mode = "write" \/ disk[f] = NoFile THEN {} ELSE disk[f] IN
     disk' = [disk EXCEPT ![f] = before \union {line}]
  /\ acked' = [acked EXCEPT ![f] = (IF mode = "write" THEN {} ELSE @) \union {line}]
  /\ opened' = NoOpen
  /\ UNCHANGED <<title, running, session, handles, args>>

-----------------------------------------------------------------------------
(* Script sessions and titles *)

ClearArgs == args' = [h \in Handle |-> NoArgs]

(* IW5 closes what the last session left open when the next one asks for   *)
(* its functions.                                                          *)
StartSession ==
  /\ title # "none" /\ ~running /\ session < MaxSession
  /\ running' = TRUE
  /\ session' = session + 1
  /\ IF title = "iw5" THEN CloseAll ELSE UNCHANGED <<handles, disk>>
  /\ opened' = NoOpen
  /\ UNCHANGED <<title, args, acked>>

(* The complete Scr_ShutdownSystem; every one in IW2 and IW4.              *)
EndSession ==
  /\ running
  /\ running' = FALSE
  /\ IF title = "iw5" THEN UNCHANGED <<handles, args, disk>> ELSE CloseAll /\ ClearArgs
  /\ opened' = NoOpen
  /\ UNCHANGED <<title, session, acked>>

StartTitle ==
  /\ title = "none"
  /\ title' \in Titles
  /\ UNCHANGED <<running, session, handles, args, disk, acked, opened>>

(* The plugin is torn down, perhaps without an end of the session.         *)
UnloadPlugin ==
  /\ title # "none"
  /\ title' = "none"
  /\ running' = FALSE
  /\ CloseAll /\ ClearArgs
  /\ opened' = NoOpen
  /\ UNCHANGED <<session, acked>>

Next ==
  \/ \E f \in Files, mode \in Modes : OpenFile(f, mode)
  \/ \E n \in Numbers : CloseFile(n) \/ ReadLine(n) \/ WriteLine(n)
  \/ \E f \in Files, mode \in Modes, line \in Lines : FileWrite(f, mode, line)
  \/ StartSession \/ EndSession \/ StartTitle \/ UnloadPlugin

Spec == Init /\ [][Next]_vars

-----------------------------------------------------------------------------
(* Properties *)

OpenFiles == [mode : Modes, file : Files, buffer : SUBSET Lines, session : 0..MaxSession]

(* Types; a slot of the table belongs to a title, never to the menu        *)
(* between two, and only what is open for writing has a buffer.            *)
TypeOK ==
  /\ title \in Titles \union {"none"}
  /\ running \in BOOLEAN /\ (running => title # "none")
  /\ session \in 0..MaxSession
  /\ handles \in [Handle -> OpenFiles \union {Closed}]
  /\ args \in [Handle -> Files \union {NoArgs}]
  /\ disk \in [Files -> (SUBSET Lines) \union {NoFile}]
  /\ acked \in [Files -> SUBSET Lines]
  /\ title = "none" => \A h \in Handle : ~Open(h)
  /\ \A h \in Handle : Open(h) /\ handles[h].mode = "read" => handles[h].buffer = {}

(* The types; a session finds no handle of an earlier one: the numbers it gets are    *)
(* for its own files, and all of them are free to begin with (OnVMShutdown,*)
(* IW5's Scr_GetFunction_Hook, the destructors).                           *)
SessionOwnsHandles ==
  /\ TypeOK
  /\ running => \A h \in Handle : Open(h) => handles[h].session = session

(* A line whose write call succeeded is on disk once no slot holds its     *)
(* file, even if the script never closed it and its session was cut short  *)
(* (CloseAll closes, it does not only forget), and a later session that    *)
(* tests for the file or reads it whole finds it.                          *)
NothingLost ==
  \A f \in Files :
    (\A h \in Handle : Open(h) => handles[h].file # f)
      => /\ acked[f] # {} => FS_TestFile(f) /\ FileExists(f)
         /\ acked[f] # {} => acked[f] \subseteq FileRead(f)

ColumnsOfOpenFile == \A h \in Handle : args[h] # NoArgs => Open(h) /\ handles[h].file = args[h]

(* The number a script gets from a successful open names the file it asked *)
(* for; what it gets from a failed one names no open file (iw2 counts from *)
(* 0, the others from 1, and -1 and 0 mean failure).  fgetarg reads columns*)
(* of the file that is open under its handle, never of the file that was   *)
(* (IW2's fileArgs against the table).                                     *)
HandlesNameFiles ==
  /\ title = "iw4" => opened.slot = 0 \/ opened.number = 1
  /\ title # "iw4" => Slot(opened.number) = opened.slot
  /\ title = "iw2" => ColumnsOfOpenFile

(* A session finds no handle of an earlier one, the number that an open    *)
(* returned names the file that it asked for, and a line that was written  *)
(* has reached the disk when its file is closed, by a script or by the end *)
(* of the session.                                                         *)
FilesOfSession == SessionOwnsHandles /\ HandlesNameFiles /\ NothingLost
=============================================================================
