---------------------------- MODULE TitlePatches ----------------------------
(***************************************************************************)
(* What the plugin promises about the code of the titles it patches,       *)
(* without detours, trampolines or the steps of DllMain: hooks appear only *)
(* while the title is still loading, a title runs either with every hook   *)
(* of its own plugin or with none, hooks go all at once, and an unloaded   *)
(* plugin leaves none behind.                                              *)
(***************************************************************************)
EXTENDS Naturals, Sequences

CONSTANTS Builds, Others, NoExe, Site, Hooks

VARIABLES
  attached,  \* the plugin DLL is loaded and active
  title,     \* executable in title memory
  stage,     \* "off", "loading", "running" or "ending"
  patched    \* sites that branch into the plugin

vars == <<attached, title, stage, patched>>

SitesOf(e) == IF e \in Builds THEN {Hooks[e][i] : i \in 1..Len(Hooks[e])} ELSE {}

Init ==
  /\ attached = FALSE
  /\ title = NoExe
  /\ stage = "off"
  /\ patched = {}

Launch(e) ==
  /\ stage = "off"
  /\ title' = e
  /\ stage' = "loading"
  /\ UNCHANGED <<attached, patched>>

Patch(s) ==
  /\ attached /\ stage = "loading"
  /\ s \in SitesOf(title) \ patched
  /\ patched' = patched \cup {s}
  /\ UNCHANGED <<attached, title, stage>>

Run ==
  /\ stage = "loading"
  /\ patched \in {{}, SitesOf(title)}
  /\ stage' = "running"
  /\ UNCHANGED <<attached, title, patched>>

(* The title ends; a live plugin lets go of it at once, one that is being  *)
(* unloaded may be too late.                                               *)
Terminate ==
  /\ stage = "running"
  /\ stage' = "ending"
  /\ patched' \in {{}, patched}
  /\ UNCHANGED <<attached, title>>

TearDown ==
  /\ stage = "ending"
  /\ stage' = "off"
  /\ title' = NoExe
  /\ patched' = {}
  /\ UNCHANGED attached

Attach ==
  /\ ~attached
  /\ attached' = TRUE
  /\ UNCHANGED <<title, stage, patched>>

Detach ==
  /\ attached /\ stage # "loading"
  /\ attached' = FALSE
  /\ patched' = {}
  /\ UNCHANGED <<title, stage>>

Next ==
  \/ \E e \in Builds \cup Others : Launch(e)
  \/ \E s \in Site : Patch(s)
  \/ Run
  \/ Terminate
  \/ TearDown
  \/ Attach
  \/ Detach

Spec == Init /\ [][Next]_vars
=============================================================================
