----------------------------- MODULE LineEditor -----------------------------
(***************************************************************************)
(* What a console's input line promises: text and a cursor in it, and the  *)
(* lines that were submitted, the last Kept of which can be called back.   *)
(***************************************************************************)
EXTENDS Naturals, Sequences, SequencesExt

CONSTANTS
  Chars,   \* printable characters
  Alnum,   \* those that are part of words
  Longest, \* of a line
  Kept

VARIABLES
  line,
  cursor,  \* how many characters are before it
  lines,   \* all lines submitted
  at       \* how many of them are older than the one called back

vars == <<line, cursor, lines, at>>

Init ==
  /\ line = <<>> /\ cursor = 0
  /\ lines = <<>> /\ at = 0

Word(from, to) == \A i \in from + 1..to : line[i] \in Alnum
NoWord(from, to) == \A i \in from + 1..to : line[i] \notin Alnum

Insert ==
  /\ \E c \in Chars : Len(line) < Longest /\ line' = InsertAt(line, cursor + 1, c)
  /\ cursor' = cursor + 1
  /\ UNCHANGED <<lines, at>>

DeleteBefore ==
  /\ cursor > 0
  /\ line' = RemoveAt(line, cursor)
  /\ cursor' = cursor - 1
  /\ UNCHANGED <<lines, at>>

DeleteAfter ==
  /\ cursor < Len(line)
  /\ line' = RemoveAt(line, cursor + 1)
  /\ UNCHANGED <<cursor, lines, at>>

(* A step is one character; with Ctrl, left goes on to the start of the    *)
(* word and right to the start of the next one.                            *)
Move ==
  /\ \/ cursor' \in {0, Len(line)}
     \/ cursor > 0 /\ cursor' = cursor - 1
     \/ cursor < Len(line) /\ cursor' = cursor + 1
     \/ /\ cursor' \in 0..cursor - 1
        /\ Word(cursor', cursor - 1)
        /\ cursor' > 0 => NoWord(cursor' - 1, cursor')
     \/ \E m \in cursor + 1..Len(line) :
          /\ cursor' \in m..Len(line)
          /\ Word(cursor + 1, m) /\ NoWord(m, cursor')
          /\ cursor' < Len(line) => Word(cursor', cursor' + 1)
  /\ UNCHANGED <<line, lines, at>>

(* An empty line is submitted without a trace.                             *)
Submit ==
  /\ line # <<>>
  /\ lines' = Append(lines, line)
  /\ at' = Len(lines')
  /\ line' = <<>> /\ cursor' = 0

(* The cursor is where it was when the line was submitted.                 *)
CallBack(n) ==
  /\ n < Len(lines) /\ Len(lines) - n <= Kept
  /\ at' = n
  /\ line' = lines[n + 1]
  /\ cursor' \in 0..Len(line')
  /\ UNCHANGED lines

Previous == (at > 0 /\ CallBack(at - 1)) \/ CallBack(at)
Following ==
  \/ at + 1 < Len(lines) /\ CallBack(at + 1)
  \/ /\ at + 1 = Len(lines) /\ at' = at + 1
     /\ line' = <<>> /\ cursor' = 0
     /\ UNCHANGED lines

Clear == line' = <<>> /\ cursor' = 0 /\ UNCHANGED <<lines, at>>

Next ==
  Insert \/ DeleteBefore \/ DeleteAfter \/ Move \/ Submit \/ Previous \/ Following \/ Clear

Spec == Init /\ [][Next]_vars
=============================================================================
