--------------------------- MODULE PluginLifecycle ---------------------------
(***************************************************************************)
(* The plugin DLL over the lifetimes of the executables the console runs:  *)
(* DllMain (dllmain.cpp), PluginManager (plugin_manager.cpp) and the       *)
(* Detour class with its shared trampoline buffer (detour.h).              *)
(*                                                                         *)
(* A detour overwrites the first 16 bytes of a function with a far branch  *)
(* and keeps a trampoline (the four displaced instructions, relocated, and *)
(* a branch back) in one static buffer that is a bump allocator.  The      *)
(* loader hook lives as long as the DLL; the hooks of a game plugin live   *)
(* as long as the title.  Code bytes are abstracted to where they come     *)
(* from, the buffer to which detour last wrote each 20-byte unit.          *)
(***************************************************************************)
EXTENDS Integers, Sequences, FiniteSets

CONSTANTS
  Builds,     \* executables with an entry in GAME_INFO
  Others,     \* executables without one: dashboard, unknown or unsupported builds
  NoExe,      \* no executable
  Site,       \* addresses of title functions that some plugin hooks
  Maps,       \* Maps[e]: the sites that are valid addresses while e is mapped
  Hooks,      \* Hooks[b]: the sites the modules of plugin b hook, in order
  Relative,   \* Relative[e][s]: relative branches among the displaced instructions
  LoaderSite, \* XexpFinishExecutableLoad, as the owner of a trampoline
  LoaderRelative,
  PoolUnits   \* size of TrampolineBuffer in units of 20 bytes

Exe == Builds \cup Others

(***************************************************************************)
(* No plugin hooks one function twice, and it hooks functions of its game. *)
(***************************************************************************)
ASSUME ConstantsAssumption ==
  /\ NoExe \notin Exe
  /\ Builds \cap Others = {}
  /\ LoaderSite \notin Site
  /\ Maps \in [Exe -> SUBSET Site]
  /\ Hooks \in [Builds -> Seq(Site)]
  /\ \A b \in Builds : \A i, j \in 1..Len(Hooks[b]) :
        Hooks[b][i] = Hooks[b][j] => i = j
  /\ \A b \in Builds : \A i \in 1..Len(Hooks[b]) : Hooks[b][i] \in Maps[b]
  /\ Relative \in [Exe -> [Site -> 0..4]]
  /\ LoaderRelative \in 0..4
  /\ PoolUnits \in Nat

VARIABLES
  env,         \* "hardware", "unsupported" (kernel rejected) or "xenia"
  dll,         \* progress of DllMain, see DllState
  registered,  \* title-terminate notification registered
  loaderHook,  \* the loader function branches to XexpFinishExecutableLoad_Hook
  baseline,    \* m_trampoline_pool_baseline
  plugin,      \* build whose plugin m_current_plugin points to, or NoExe
  todo,        \* hooks the plugin under construction has still to install
  saved,       \* saved[s]: OriginalInstructions of the detour at s, or NotInstalled
  tramp,       \* tramp[s]: unit at which the trampoline of the detour at s starts
  poolUsed,    \* TrampolineSize, in units
  pool,        \* pool[u]: the detour that last wrote unit u
  image,       \* executable mapped in title memory
  phase,       \* where the console is in the life of that executable
  code         \* code[s]: what the bytes at s are

dllVars     == <<dll, registered>>
poolVars    == <<poolUsed, pool>>
managerVars == <<baseline, plugin, todo>>
detourVars  == <<saved, tramp>>
titleVars   == <<image, phase>>
vars == <<env, dllVars, loaderHook, managerVars, detourVars, poolVars, titleVars, code>>

-----------------------------------------------------------------------------
(* Code bytes and the trampoline buffer *)

Unmapped     == [kind |-> "unmapped", of |-> NoExe]
Prologue(e)  == [kind |-> "prologue", of |-> e]
Branch(b)    == [kind |-> "branch",   of |-> b]
NotInstalled == [kind |-> "none",     of |-> NoExe]
Content      == {Unmapped} \cup {Prologue(e) : e \in Exe} \cup {Branch(b) : b \in Builds}

Units == 0..(PoolUnits - 1)
Owner == Site \cup {LoaderSite, NoExe}

(* Four displaced instructions of 4 bytes each, 24 for a relative branch,  *)
(* then a far branch of 24 bytes: 40 + 20 * r bytes.                       *)
TrampolineUnits(r) == 2 + r

RelativeIn(bytes, s) ==
  IF bytes.kind = "prologue" THEN Relative[bytes.of][s] ELSE 0

(* Mutant: the size of a relocated branch is not added to the pool.        *)
WriteTrampolineFixedSize(owner, units) ==
  /\ pool' = [u \in Units |-> IF u \in poolUsed..(poolUsed + units - 1)
                              THEN owner ELSE pool[u]]
  /\ poolUsed' = poolUsed + 2

(* The trampoline is written at the end of the used part; nothing checks   *)
(* that it still lies inside the buffer.                                   *)
WriteTrampoline(owner, units) ==
  /\ pool' = [u \in Units |-> IF u \in poolUsed..(poolUsed + units - 1)
                              THEN owner ELSE pool[u]]
  /\ poolUsed' = poolUsed + units

Installed == {s \in Site : saved[s] # NotInstalled}

(* MmIsAddressValid: some executable is mapped and has code at s.          *)
AddressValid(s) == code[s] # Unmapped

(***************************************************************************)
(* Detour::Install on a fresh Detour for site s of plugin b.               *)
(***************************************************************************)
Install(b, s) ==
  /\ saved' = [saved EXCEPT ![s] = code[s]]
  /\ tramp' = [tramp EXCEPT ![s] = poolUsed]
  /\ WriteTrampoline(s, TrampolineUnits(RelativeIn(code[s], s)))
  /\ code'  = [code EXCEPT ![s] = Branch(b)]

(* Mutant: restores without asking MmIsAddressValid.                       *)
RemoveAllUnchecked ==
  /\ code'  = [s \in Site |-> IF s \in Installed THEN saved[s] ELSE code[s]]
  /\ saved' = [s \in Site |-> NotInstalled]

(***************************************************************************)
(* Detour::Remove on every detour of the current plugin, as its modules    *)
(* are destroyed: the saved bytes go back only where the address is valid. *)
(***************************************************************************)
RemoveAll ==
  /\ code'  = [s \in Site |-> IF s \in Installed /\ AddressValid(s)
                              THEN saved[s] ELSE code[s]]
  /\ saved' = [s \in Site |-> NotInstalled]

(* Mutant: the trampoline pool is not reset.                               *)
ResetCurrentPluginKeepPool ==
  IF plugin # NoExe
  THEN RemoveAll /\ plugin' = NoExe /\ UNCHANGED poolUsed
  ELSE UNCHANGED <<code, saved, plugin, poolUsed>>

(* PluginManager::ResetCurrentPlugin *)
ResetCurrentPlugin ==
  IF plugin # NoExe
  THEN /\ RemoveAll
       /\ plugin' = NoExe
       /\ poolUsed' = baseline
  ELSE UNCHANGED <<code, saved, plugin, poolUsed>>

-----------------------------------------------------------------------------
(* The loader lock is held by DllMain and by the loading of an executable. *)

DllState == {"absent", "attaching", "active", "inactive",
             "detaching", "unregistered", "unhooked"}
Phase    == {"none", "mapped", "constructing", "running", "terminating"}

LoaderIdle == phase \notin {"mapped", "constructing"}
DllMainIdle == dll \in {"absent", "active", "inactive"}

-----------------------------------------------------------------------------
(* The console *)

(* A new executable is mapped: fresh code everywhere. *)
MapImage(e) ==
  /\ phase = "none" /\ DllMainIdle
  /\ env = "xenia" => dll = "absent"
  /\ image' = e
  /\ phase' = "mapped"
  /\ code'  = [s \in Site |-> IF s \in Maps[e] THEN Prologue(e) ELSE Unmapped]
  /\ UNCHANGED <<env, dllVars, loaderHook, managerVars, detourVars, poolVars>>

(* XexpFinishExecutableLoad without our hook: the title starts. *)
FinishLoadUnhooked ==
  /\ phase = "mapped" /\ ~loaderHook /\ DllMainIdle
  /\ phase' = "running"
  /\ UNCHANGED <<env, dllVars, loaderHook, managerVars, detourVars, poolVars, image, code>>

(* Mutant: executables without an entry in GAME_INFO get a plugin too.     *)
BeginLoadUnlisted(otherwise) ==
  \/ /\ todo'  = IF image \in Builds THEN Hooks[image] ELSE <<>>
     /\ phase' = "constructing"
  \/ /\ todo'  = <<>>
     /\ phase' = otherwise

(* LoadPlugin up to the factory: mounting the game's directories may fail, *)
(* otherwise the plugin's constructor starts to register modules. The      *)
(* second disjunct is also the return for an executable without an entry. *)
BeginLoad(otherwise) ==
  \/ /\ image \in Builds
     /\ todo'  = Hooks[image]
     /\ phase' = "constructing"
  \/ /\ todo'  = <<>>
     /\ phase' = otherwise

(***************************************************************************)
(* XexpFinishExecutableLoad_Hook: drop a plugin that is still there, run   *)
(* the original through the trampoline, then OnExecutableLoaded.           *)
(***************************************************************************)
FinishLoadHooked ==
  /\ phase = "mapped" /\ loaderHook /\ DllMainIdle
  /\ ResetCurrentPlugin
  /\ BeginLoad("running")
  /\ UNCHANGED <<env, dllVars, loaderHook, baseline, tramp, pool, image>>

(* The next detour of the plugin's modules. *)
InstallNext ==
  /\ phase = "constructing" /\ todo # <<>>
  /\ Install(image, Head(todo))
  /\ todo' = Tail(todo)
  /\ UNCHANGED <<env, dllVars, loaderHook, baseline, plugin, titleVars>>

(* Mutant: the title runs before every module is constructed.              *)
PluginReadyEarly ==
  /\ phase = "constructing"
  /\ plugin' = image
  /\ phase'  = "running"
  /\ UNCHANGED <<env, dllVars, loaderHook, baseline, todo, detourVars, poolVars, image, code>>

(* The factory returns; m_current_plugin takes the plugin; the title runs. *)
PluginReady ==
  /\ phase = "constructing" /\ todo = <<>>
  /\ plugin' = image
  /\ phase'  = "running"
  /\ UNCHANGED <<env, dllVars, loaderHook, baseline, todo, detourVars, poolVars, image, code>>

(***************************************************************************)
(* The kernel terminates the title; registered callbacks run before its    *)
(* memory goes (TitleTerminateNotification, OnTitleTerminate).             *)
(***************************************************************************)
TerminateTitle ==
  /\ phase = "running"
  /\ env = "xenia" => dll = "absent"
  /\ phase' = "terminating"
  /\ IF registered THEN ResetCurrentPlugin
                   ELSE UNCHANGED <<code, saved, plugin, poolUsed>>
  /\ UNCHANGED <<env, dllVars, loaderHook, baseline, todo, tramp, pool, image>>

TearDown ==
  /\ phase = "terminating"
  /\ phase' = "none"
  /\ image' = NoExe
  /\ code'  = [s \in Site |-> Unmapped]
  /\ UNCHANGED <<env, dllVars, loaderHook, managerVars, detourVars, poolVars>>

-----------------------------------------------------------------------------
(* DllMain *)

(* A freshly mapped DLL: statics at their initial values. *)
FreshStatics ==
  /\ baseline' = 0
  /\ plugin'   = NoExe
  /\ saved'    = [s \in Site |-> NotInstalled]
  /\ tramp'    = [s \in Site |-> 0]
  /\ poolUsed' = 0
  /\ pool'     = [u \in Units |-> NoExe]

(* No hook mapping for this kernel: loaded, but inactive. *)
AttachUnsupported ==
  /\ dll = "absent" /\ env = "unsupported" /\ LoaderIdle
  /\ dll' = "inactive"
  /\ FreshStatics
  /\ UNCHANGED <<env, registered, loaderHook, todo, titleVars, code>>

(* Xenia maps the DLL into the game before the game runs. *)
AttachXenia ==
  /\ dll = "absent" /\ env = "xenia" /\ phase = "mapped"
  /\ dll' = "active"
  /\ FreshStatics
  /\ BeginLoad("mapped")
  /\ UNCHANGED <<env, registered, loaderHook, image, code>>

(* Mutant: the title-terminate notification is not registered.             *)
AttachHardwareUnregistered ==
  /\ dll = "absent" /\ env = "hardware" /\ LoaderIdle
  /\ dll' = "attaching"
  /\ FreshStatics
  /\ UNCHANGED <<env, registered, loaderHook, todo, titleVars, code>>

AttachHardware ==
  /\ dll = "absent" /\ env = "hardware" /\ LoaderIdle
  /\ dll' = "attaching"
  /\ registered' = TRUE
  /\ FreshStatics
  /\ UNCHANGED <<env, loaderHook, todo, titleVars, code>>

(* The loader detour, then SetTrampolinePoolBaseline. *)
InstallLoaderHook ==
  /\ dll = "attaching"
  /\ dll' = "active"
  /\ loaderHook' = TRUE
  /\ WriteTrampoline(LoaderSite, TrampolineUnits(LoaderRelative))
  /\ baseline' = poolUsed'
  /\ UNCHANGED <<env, registered, plugin, todo, detourVars, titleVars, code>>

(* DLL_PROCESS_DETACH, one step per call it makes. *)
DetachBegin ==
  /\ dll \in {"active", "inactive"} /\ LoaderIdle
  /\ dll' = "detaching"
  /\ UNCHANGED <<env, registered, loaderHook, managerVars, detourVars, poolVars, titleVars, code>>

DetachUnregister ==
  /\ dll = "detaching"
  /\ dll' = "unregistered"
  /\ registered' = FALSE
  /\ UNCHANGED <<env, loaderHook, managerVars, detourVars, poolVars, titleVars, code>>

(* Mutant: DllMain returns with the loader still hooked.                   *)
DetachKeepLoaderHook ==
  /\ dll = "unregistered"
  /\ dll' = "unhooked"
  /\ UNCHANGED <<env, registered, loaderHook, managerVars, detourVars, poolVars, titleVars, code>>

DetachRemoveLoaderHook ==
  /\ dll = "unregistered"
  /\ dll' = "unhooked"
  /\ loaderHook' = FALSE
  /\ UNCHANGED <<env, registered, managerVars, detourVars, poolVars, titleVars, code>>

(* delete g_plugin_manager *)
DetachDeleteManager ==
  /\ dll = "unhooked"
  /\ dll' = "absent"
  /\ ResetCurrentPlugin
  /\ UNCHANGED <<env, registered, loaderHook, baseline, todo, tramp, pool, titleVars>>

-----------------------------------------------------------------------------
Init ==
  /\ env \in {"hardware", "unsupported", "xenia"}
  /\ dll = "absent"
  /\ registered = FALSE
  /\ loaderHook = FALSE
  /\ baseline = 0
  /\ plugin = NoExe
  /\ todo = <<>>
  /\ saved = [s \in Site |-> NotInstalled]
  /\ tramp = [s \in Site |-> 0]
  /\ poolUsed = 0
  /\ pool = [u \in Units |-> NoExe]
  /\ image = NoExe
  /\ phase = "none"
  /\ code = [s \in Site |-> Unmapped]

Load ==
  \/ \E e \in Exe : MapImage(e)
  \/ FinishLoadUnhooked
  \/ FinishLoadHooked
  \/ InstallNext
  \/ PluginReady

Attach ==
  \/ AttachUnsupported
  \/ AttachXenia
  \/ AttachHardware
  \/ InstallLoaderHook

Detach ==
  \/ DetachBegin
  \/ DetachUnregister
  \/ DetachRemoveLoaderHook
  \/ DetachDeleteManager

Next ==
  \/ Load
  \/ TerminateTitle
  \/ TearDown
  \/ Attach
  \/ Detach

Spec == Init /\ [][Next]_vars

-----------------------------------------------------------------------------
(* Properties *)

TypeOK ==
  /\ env \in {"hardware", "unsupported", "xenia"}
  /\ dll \in DllState
  /\ registered \in BOOLEAN
  /\ loaderHook \in BOOLEAN
  /\ baseline \in Nat
  /\ plugin \in Builds \cup {NoExe}
  /\ todo \in Seq(Site)
  /\ saved \in [Site -> Content \cup {NotInstalled}]
  /\ tramp \in [Site -> Nat]
  /\ poolUsed \in Nat
  /\ pool \in [Units -> Owner]
  /\ image \in Exe \cup {NoExe}
  /\ phase \in Phase
  /\ code \in [Site -> Content]

(* The loader hook's trampoline is never overwritten by the hooks of a     *)
(* game plugin, however many titles come and go: the next title is loaded  *)
(* through it (plugin_manager.cpp:213, dllmain.cpp:178).                   *)
LoaderTrampolineIntact ==
  loaderHook => \A u \in Units :
                   u < TrampolineUnits(LoaderRelative) => pool[u] = LoaderSite

(* The trampoline of every installed plugin hook holds the instructions    *)
(* that hook displaced: no other Install has written over them.            *)
PluginTrampolinesIntact ==
  \A s \in Installed : \A u \in Units :
     u \in tramp[s]..(tramp[s] + TrampolineUnits(RelativeIn(saved[s], s)) - 1)
        => pool[u] = s

(* No trampoline that code may still run through is overwritten.           *)
TrampolinesIntact == LoaderTrampolineIntact /\ PluginTrampolinesIntact

(* No sequence of titles grows the pool past the static buffer: what one   *)
(* title's plugin took is given back before the next one allocates.        *)
PoolWithinBuffer == poolUsed <= PoolUnits

(* Memory of the mapped executable holds its own code or a branch to its   *)
(* own plugin, never bytes saved from another executable that was mapped   *)
(* at the same address before (Detour::Remove, detour.h:338-344).          *)
CodeBelongsToImage ==
  \A s \in Site : code[s] \in {Unmapped, Prologue(image), Branch(image)}

(* Every branch into the plugin can still be undone: its detour holds the  *)
(* displaced instructions of the executable that is mapped.                *)
BranchesAreUndoable ==
  \A s \in Site : code[s].kind = "branch" =>
     /\ saved[s] = Prologue(image)
     /\ plugin = image \/ phase = "constructing"

(* Code in memory can be restored, and is what was meant to be there.      *)
PatchesUndoable == TypeOK /\ CodeBelongsToImage /\ BranchesAreUndoable

(* Once the DLL is gone nothing branches or calls back into it.            *)
NothingDanglesWhenUnloaded ==
  dll \in {"absent", "inactive"} =>
     /\ ~loaderHook /\ ~registered /\ plugin = NoExe
     /\ \A s \in Site : code[s].kind # "branch"

ReleasesTitle ==
  (dll = "active" /\ phase = "running" /\ phase' = "terminating") =>
     /\ \A s \in Site : code'[s].kind # "branch"
     /\ plugin' = NoExe
     /\ poolUsed' = baseline'

(* A title that terminates under an active DLL is unpatched, and its       *)
(* trampolines released, before its memory goes (dllmain.cpp:28).          *)
TerminationReleasesTitle == [][ReleasesTitle]_vars

(* The abstract promise of TitlePatches.                                   *)
Attached == dll \in {"active", "detaching", "unregistered", "unhooked"}
Stage    == CASE phase = "none" -> "off"
              [] phase \in {"mapped", "constructing"} -> "loading"
              [] phase = "running" -> "running"
              [] phase = "terminating" -> "ending"
Patched  == {s \in Site : code[s].kind = "branch"}

Patches == INSTANCE TitlePatches
             WITH attached <- Attached, title <- image, stage <- Stage, patched <- Patched

(* The DLL, its manager and its detours implement TitlePatches.            *)
ImplementsTitlePatches == Patches!Spec
=============================================================================
