----------------------------- MODULE HudStrings -----------------------------
(***************************************************************************)
(* The texts of script hud elements in iw3 (gsc_methods.cpp).  A text is a *)
(* localized config string, and there are few: stock scripts that keep     *)
(* changing texts fill the table.  The plugin frees a string when the      *)
(* element that showed it is changed or freed, unless it was precached or  *)
(* another element shows it.                                               *)
(***************************************************************************)
EXTENDS Naturals

CONSTANTS
  HudElems,             \* g_hudelems
  Texts,                \* what scripts show, never the empty string
  MAX_LOCALIZEDSTRINGS  \* the first index that is not in the table

NoText == ""

ASSUME HudStringsAssumption == NoText \notin Texts /\ MAX_LOCALIZEDSTRINGS \in Nat

Index == 1..(MAX_LOCALIZEDSTRINGS - 1)

VARIABLES
  configstrings,             \* per index: its string
  text,                      \* per element: the index it shows, 0 for none
  shown,                     \* per element: the text its script asked for
  g_isLocStringPrecached,
  initializing               \* level->initializing

hudVars == <<configstrings, text, shown, g_isLocStringPrecached, initializing>>

HudInit ==
  /\ configstrings = [i \in Index |-> NoText]
  /\ text = [e \in HudElems |-> 0]
  /\ shown = [e \in HudElems |-> NoText]
  /\ g_isLocStringPrecached = [i \in Index |-> FALSE]
  /\ initializing = TRUE

(* G_LocalizedStringIndex in strings cs: it stops at the first index that  *)
(* holds t or nothing; with neither the engine gives up.                   *)
Candidates(cs, t) == {i \in Index : cs[i] \in {t, NoText}}
LocalizedStringIndex(cs, t) == CHOOSE i \in Candidates(cs, t) : \A j \in Candidates(cs, t) : i <= j

(* Mutant: no search for other elements.                                   *)
CanFreeUnscanned(i, texts) == i # 0 /\ ~g_isLocStringPrecached[i]

(* texts: what the elements show when the search is made.                  *)
Scr_CanFreeLocalizedConfigString(i, texts) ==
  /\ i # 0
  /\ ~g_isLocStringPrecached[i]
  /\ \A e \in HudElems : texts[e] # i

WithoutText(e) == [text EXCEPT ![e] = 0]

(* The strings once e no longer shows its own.                             *)
FreedFor(e) ==
  IF Scr_CanFreeLocalizedConfigString(text[e], WithoutText(e))
  THEN [configstrings EXCEPT ![text[e]] = NoText]
  ELSE configstrings

PrecacheString(t) ==
  LET i == LocalizedStringIndex(configstrings, t) IN
  /\ initializing
  /\ Candidates(configstrings, t) # {}
  /\ configstrings' = [configstrings EXCEPT ![i] = t]
  /\ g_isLocStringPrecached' = [g_isLocStringPrecached EXCEPT ![i] = TRUE]
  /\ UNCHANGED <<text, shown, initializing>>

SetText(e, t) ==
  LET i == LocalizedStringIndex(FreedFor(e), t) IN
  /\ Candidates(FreedFor(e), t) # {}
  /\ configstrings' = [FreedFor(e) EXCEPT ![i] = t]
  /\ text' = [text EXCEPT ![e] = i]
  /\ shown' = [shown EXCEPT ![e] = t]
  /\ UNCHANGED <<g_isLocStringPrecached, initializing>>

FreeHudElem(e) ==
  /\ text[e] # 0
  /\ configstrings' = FreedFor(e)
  /\ text' = WithoutText(e)
  /\ shown' = [shown EXCEPT ![e] = NoText]
  /\ UNCHANGED <<g_isLocStringPrecached, initializing>>

(* The first wait of the level script.                                     *)
LevelStarts == initializing /\ initializing' = FALSE
  /\ UNCHANGED <<configstrings, text, shown, g_isLocStringPrecached>>

(* An incomplete shutdown: the strings and the flags stay, once the        *)
(* elements are gone.                                                      *)
RestartRound ==
  /\ \A e \in HudElems : text[e] = 0
  /\ initializing' = TRUE
  /\ UNCHANGED <<configstrings, text, shown, g_isLocStringPrecached>>

(* ClearHudElemLocalizedStringState                                        *)
FlagsAfterShutdown == [i \in Index |-> FALSE]

(* A complete shutdown: the engine drops elements and strings.             *)
CompleteShutdown ==
  /\ g_isLocStringPrecached' = FlagsAfterShutdown
  /\ configstrings' = [i \in Index |-> NoText]
  /\ text' = [e \in HudElems |-> 0]
  /\ shown' = [e \in HudElems |-> NoText]
  /\ initializing' = TRUE

HudNext ==
  \/ \E t \in Texts : PrecacheString(t)
  \/ \E e \in HudElems, t \in Texts : SetText(e, t)
  \/ \E e \in HudElems : FreeHudElem(e)
  \/ LevelStarts \/ RestartRound \/ CompleteShutdown

HudSpec == HudInit /\ [][HudNext]_hudVars

-----------------------------------------------------------------------------
(* Types; only strings that exist are marked as precached.                 *)
HudTypeOK ==
  /\ configstrings \in [Index -> Texts \union {NoText}]
  /\ text \in [HudElems -> Index \union {0}]
  /\ shown \in [HudElems -> Texts \union {NoText}]
  /\ g_isLocStringPrecached \in [Index -> BOOLEAN]
  /\ initializing \in BOOLEAN
  /\ \A i \in Index : g_isLocStringPrecached[i] => configstrings[i] # NoText

(* An element shows the text its script asked for, whatever other elements *)
(* have since been given or freed: no string is freed or reused under an   *)
(* element (the search in Scr_CanFreeLocalizedConfigString).               *)
ElementsShowTheirText ==
  /\ HudTypeOK
  /\ \A e \in HudElems : text[e] # 0 => configstrings[text[e]] = shown[e]

(* The table fills only with what is in use: every string is precached or  *)
(* some element shows it ("Attempt to avoid CS overflow using SetText()"). *)
StringsInUse ==
  \A i \in Index : configstrings[i] # NoText =>
    g_isLocStringPrecached[i] \/ \E e \in HudElems : text[e] = i

(* Elements and table together, over what scripts set and free, rounds and *)
(* sessions.                                                               *)
StringsFollowElements == ElementsShowTheirText /\ StringsInUse
=============================================================================
