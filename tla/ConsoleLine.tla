---------------------------- MODULE ConsoleLine -----------------------------
(***************************************************************************)
(* The input line and the output of the developer console: of              *)
(* t4/sp/components/console.cpp, which keeps the history and the pages     *)
(* itself, and of t4/mp and iw3, which edit the line.  The line is a       *)
(* buffer of characters up to a NUL, edited with memmove; the history is a *)
(* ring of copies of it.  Of ConsoleInput it knows the title, and strokes  *)
(* by what they mean; of the titles, t4_sp keeps the history itself and    *)
(* the others leave it to the engine.                                      *)
(***************************************************************************)
EXTENDS ConsoleInput

CONSTANTS
  Chars, Alnum,
  Strokes,                \* [key, char, ctrl] of the strokes that edit: the game's key, the
                          \* character, if any, and whether Ctrl is down
  BufferSize,             \* sizeof(g_consoleField->buffer)
  console_history_count,
  conVisibleLineCount,
  MaxSubmitted,           \* bound: lines submitted,
  MaxSubmittedLength,     \* their length,
  MaxPrinted              \* and lines printed

NUL == "nul"

ASSUME ConsoleLineAssumption ==
  /\ NUL \notin Chars
  /\ BufferSize \in Nat \ {0} /\ console_history_count \in Nat \ {0}
  /\ conVisibleLineCount \in Nat

ASSUME StrokesAssumption == \A s \in Strokes : s.ctrl \in BOOLEAN

VARIABLES
  buffer, cursor,     \* g_consoleField
  historyLine, nextHistoryLine,
  historyEditLines,   \* the ring: copies of buffer and cursor
  submitted,          \* every line that was submitted
  conDisplayLineOffset, conActiveLineCount  \* the output: last line shown, lines printed

lineVars == <<buffer, cursor, historyLine, nextHistoryLine, historyEditLines, submitted>>
pageVars == <<conDisplayLineOffset, conActiveLineCount>>
consoleLineVars == <<title, lineVars, pageVars>>
historyVars == <<historyLine, nextHistoryLine, historyEditLines, submitted>>

Cells == 0..BufferSize - 1
Blank == [i \in Cells |-> NUL]
RingSlots == 0..console_history_count - 1

LineInit ==
  /\ buffer = Blank /\ cursor = 0
  /\ historyLine = 0 /\ nextHistoryLine = 0
  /\ historyEditLines = [s \in RingSlots |-> [buffer |-> Blank, cursor |-> 0]]
  /\ submitted = <<>>
  /\ conDisplayLineOffset = 0 /\ conActiveLineCount = 0

(* strlen, and the text of a buffer.                                       *)
Length(b) == CHOOSE n \in Cells : b[n] = NUL /\ \A i \in 0..n - 1 : b[i] # NUL
Text(b) == [i \in 1..Length(b) |-> b[i - 1]]

len == Length(buffer)

Moved(to, from, n) ==
  [i \in Cells |-> IF i \in to..to + n - 1 THEN buffer[from + i - to] ELSE buffer[i]]

-----------------------------------------------------------------------------
(* Editing *)

(* The smallest position from p on that a loop over positions stops at.    *)
FirstFrom(p, Stops(_)) == CHOOSE q \in p..len : Stops(q) /\ \A r \in p..q - 1 : ~Stops(r)
LastTo(p, Stops(_)) == CHOOSE q \in 0..p : Stops(q) /\ \A r \in q + 1..p : ~Stops(r)

IsAlnum(i) == buffer[i] \in Alnum

console_input_home == cursor' = 0 /\ UNCHANGED <<buffer, historyVars>>
console_input_end == cursor' = len /\ UNCHANGED <<buffer, historyVars>>

console_input_left(ctrlDown) ==
  LET back == IF cursor > 0 THEN cursor - 1 ELSE cursor
      WordStart(q) == q = 0 \/ ~IsAlnum(q - 1)
  IN /\ cursor' = IF ctrlDown THEN LastTo(back, WordStart) ELSE back
     /\ UNCHANGED <<buffer, historyVars>>

console_input_right(ctrlDown) ==
  LET step == IF cursor < len THEN cursor + 1 ELSE cursor
      WordEnd(q) == q = len \/ ~IsAlnum(q)
      NextWord(q) == q = len \/ IsAlnum(q)
  IN /\ cursor' = IF ctrlDown THEN FirstFrom(FirstFrom(step, WordEnd), NextWord) ELSE step
     /\ UNCHANGED <<buffer, historyVars>>

(* Mutant: the NUL stays behind.                                           *)
BackspaceCountOff == len - cursor
BackspaceCount == len - cursor + 1

console_input_backspace ==
  /\ cursor > 0 /\ len > 0
  /\ buffer' = Moved(cursor - 1, cursor, BackspaceCount)
  /\ cursor' = cursor - 1
  /\ UNCHANGED historyVars

console_input_delete ==
  /\ cursor < len
  /\ buffer' = Moved(cursor, cursor + 1, len - cursor)
  /\ UNCHANGED <<cursor, historyVars>>

HasRoom == len < BufferSize - 1

console_input_char(ch) ==
  /\ HasRoom
  /\ buffer' = [Moved(cursor + 1, cursor, len - cursor + 1) EXCEPT ![cursor] = ch]
  /\ cursor' = cursor + 1
  /\ UNCHANGED historyVars

-----------------------------------------------------------------------------
(* History *)

Con_ResetConsoleInputField == buffer' = Blank /\ cursor' = 0

Con_CopyHistoryLine(n) ==
  /\ buffer' = historyEditLines[n % console_history_count].buffer
  /\ cursor' = historyEditLines[n % console_history_count].cursor

SlotOfNext == nextHistoryLine % console_history_count

(* With Console_StoreInputHistory, which does not keep empty lines.        *)
Console_SubmitInput ==
  /\ Len(submitted) < MaxSubmitted /\ len <= MaxSubmittedLength
  /\ IF len = 0 THEN UNCHANGED historyVars
     ELSE /\ historyEditLines' = [historyEditLines EXCEPT
               ![SlotOfNext] = [buffer |-> buffer, cursor |-> cursor]]
          /\ nextHistoryLine' = nextHistoryLine + 1
          /\ historyLine' = nextHistoryLine + 1
          /\ submitted' = Append(submitted, Text(buffer))
  /\ Con_ResetConsoleInputField

ToggleClearsLine == Con_ResetConsoleInputField /\ UNCHANGED historyVars

Console_HistoryNext ==
  /\ historyLine # nextHistoryLine
  /\ historyLine' = historyLine + 1
  /\ IF historyLine + 1 = nextHistoryLine THEN Con_ResetConsoleInputField
     ELSE Con_CopyHistoryLine(historyLine + 1)
  /\ UNCHANGED <<nextHistoryLine, historyEditLines, submitted>>

OlderKept == nextHistoryLine - historyLine < console_history_count

Console_HistoryPrev ==
  /\ nextHistoryLine # 0
  /\ historyLine' = IF OlderKept /\ historyLine > 0 THEN historyLine - 1 ELSE historyLine
  /\ Con_CopyHistoryLine(historyLine')
  /\ UNCHANGED <<nextHistoryLine, historyEditLines, submitted>>

-----------------------------------------------------------------------------
(* Output: pages of lines.  The engine's printing follows the last line    *)
(* while that is shown.                                                    *)

Con_Bottom == conDisplayLineOffset' = conActiveLineCount

FirstFull ==
  IF conActiveLineCount < conVisibleLineCount THEN conActiveLineCount ELSE conVisibleLineCount
Con_Top == conDisplayLineOffset' = FirstFull

Con_PageDown ==
  IF conDisplayLineOffset + 2 < conActiveLineCount
  THEN conDisplayLineOffset' = conDisplayLineOffset + 2 ELSE Con_Bottom

Con_PageUp ==
  IF conDisplayLineOffset - 2 < conVisibleLineCount THEN Con_Top
  ELSE conDisplayLineOffset' = conDisplayLineOffset - 2

CL_ConsolePrint ==
  /\ conActiveLineCount < MaxPrinted
  /\ conActiveLineCount' = conActiveLineCount + 1
  /\ conDisplayLineOffset' = IF conDisplayLineOffset = conActiveLineCount
                            THEN conActiveLineCount + 1 ELSE conDisplayLineOffset

-----------------------------------------------------------------------------
(* Keys: dispatch_console_key, of strokes that go down, while the console  *)
(* is open.                                                                *)

(* The same code in the three titles.                                      *)
EditKey(s) ==
  \/ s.key \in {"K_HOME", "K_KP_HOME"} /\ ~s.ctrl /\ console_input_home
  \/ s.key \in {"K_END", "K_KP_END"} /\ ~s.ctrl /\ console_input_end
  \/ s.key \in {"K_LEFTARROW", "K_KP_LEFTARROW"} /\ console_input_left(s.ctrl)
  \/ s.key \in {"K_RIGHTARROW", "K_KP_RIGHTARROW"} /\ console_input_right(s.ctrl)
  \/ s.key \in {"K_DEL", "K_KP_DEL"} /\ console_input_delete

TypeKey(s) ==
  \/ s.key = "K_BACKSPACE" /\ console_input_backspace
  \/ s.char \in Chars /\ console_input_char(s.char)

(* Of IW3; assumed to do what the plugin does in T4.                       *)
CL_CharEvent(s) == TypeKey(s)

(* The engine's history is its own matter; its submit clears the line.     *)
EngineSubmit == Con_ResetConsoleInputField /\ UNCHANGED historyVars

T4SPKey(s) ==
  \/ EditKey(s) \/ TypeKey(s)
  \/ s.key \in {"K_ENTER", "K_KP_ENTER"} /\ Console_SubmitInput
  \/ s.key \in {"K_UPARROW", "K_KP_UPARROW"} /\ Console_HistoryPrev
  \/ s.key \in {"K_DOWNARROW", "K_KP_DOWNARROW"} /\ Console_HistoryNext

T4MPEdits(s) == EditKey(s) \/ TypeKey(s)
T4MPKey(s) == T4MPEdits(s) \/ (s.key \in {"K_ENTER", "K_KP_ENTER"} /\ EngineSubmit)

IW3Edits(s) == EditKey(s)
IW3Key(s) ==
  \/ IW3Edits(s) \/ CL_CharEvent(s)
  \/ s.key = "K_ENTER" /\ EngineSubmit

LineKey(s) ==
  \/ title = "t4_sp" /\ T4SPKey(s)
  \/ title = "t4_mp" /\ T4MPKey(s)
  \/ title = "iw3_mp" /\ IW3Key(s)

PageKey(s) ==
  /\ title = "t4_sp"
  /\ \/ s.key \in {"K_PGUP", "K_KP_PGUP"} /\ Con_PageUp
     \/ s.key \in {"K_PGDN", "K_KP_PGDN"} /\ Con_PageDown
     \/ s.key \in {"K_HOME", "K_KP_HOME"} /\ s.ctrl /\ Con_Top
     \/ s.key \in {"K_END", "K_KP_END"} /\ s.ctrl /\ Con_Bottom
  /\ UNCHANGED conActiveLineCount

LineNext == (\E s \in Strokes : LineKey(s)) \/ ToggleClearsLine
PageNext == (\E s \in Strokes : PageKey(s)) \/ CL_ConsolePrint

ConsoleLineNext ==
  /\ \/ LineNext /\ UNCHANGED pageVars
     \/ PageNext /\ UNCHANGED lineVars
  /\ UNCHANGED title

LineSpec == LineInit /\ [][ConsoleLineNext]_consoleLineVars

-----------------------------------------------------------------------------
(* Types; the buffer is terminated, the cursor is in its text, and the     *)
(* history positions are those of lines that the ring still holds.         *)
LineTypes ==
  /\ buffer \in [Cells -> Chars \union {NUL}]
  /\ \E n \in Cells : buffer[n] = NUL
  /\ cursor \in 0..len
  /\ historyLine \in 0..nextHistoryLine
  /\ nextHistoryLine - historyLine <= console_history_count

(* The page of output that is shown is full, or all there is, whichever   *)
(* keys were pressed between prints.                                       *)
PageIsFull ==
  /\ conDisplayLineOffset \in FirstFull..conActiveLineCount
  /\ title # "t4_sp" => conDisplayLineOffset = conActiveLineCount

(* Buffer and ring are a line editor: every key edits the text as it       *)
(* should, off-by-ones of memmove included, and the history calls back the *)
(* neighbouring line that was submitted.                                   *)
Editor == INSTANCE LineEditor WITH
  line <- Text(buffer), lines <- submitted, at <- historyLine,
  Longest <- BufferSize - 1, Kept <- console_history_count
EditsLines == Editor!Spec

(* The line, its cursor and the ring stay within their buffers and every   *)
(* key edits and calls back as LineEditor does, by whichever of its names; *)
(* and the pages of output stay full (t4/sp/components/console.cpp).       *)
LineIsEdited == [](LineTypes /\ PageIsFull) /\ EditsLines
=============================================================================
