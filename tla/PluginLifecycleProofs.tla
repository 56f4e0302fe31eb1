------------------------ MODULE PluginLifecycleProofs ------------------------
(***************************************************************************)
(* Proofs about PluginLifecycle, for any set of executables, sites, hooks  *)
(* and any size of the trampoline buffer.                                  *)
(***************************************************************************)
EXTENDS PluginLifecycle, TLAPS

-----------------------------------------------------------------------------
(* The inductive invariant *)

(* Where DllMain and the console are allowed to be at the same time. *)
StagesInv ==
  /\ phase = "none" <=> image = NoExe
  /\ phase \in {"mapped", "constructing"} => DllMainIdle
  /\ phase = "constructing" =>
       image \in Builds /\ plugin = NoExe /\ dll = "active"
  /\ env = "xenia" /\ dll # "absent" => phase \notin {"none", "terminating"}

(* What DllMain has acquired so far, and what it has let go of again. *)
DllInv ==
  /\ loaderHook => dll \in {"active", "detaching", "unregistered"}
  /\ registered => dll \in {"attaching", "active", "detaching"}
  /\ dll = "active" /\ env # "xenia" => registered
  /\ plugin # NoExe => dll \notin {"absent", "inactive", "attaching"}
  /\ dll = "attaching" => registered /\ poolUsed = 0

(* A plugin outlives its title only while the DLL is being unloaded. *)
PluginInv ==
  /\ plugin # NoExe /\ dll = "active" => phase = "running"
  /\ plugin # NoExe /\ phase # "none" => plugin = image
  /\ plugin = NoExe /\ phase # "constructing" => Installed = {}
  /\ plugin = NoExe /\ phase # "constructing" => poolUsed = baseline
  /\ plugin # NoExe => phase \notin {"mapped", "constructing"} 

(* The hooks still to install are of this title, unpatched and distinct. *)
TodoInv ==
  phase = "constructing" =>
    /\ \A i \in 1..Len(todo) : todo[i] \in Maps[image] /\ todo[i] \notin Installed
    /\ \A i, j \in 1..Len(todo) : todo[i] = todo[j] => i = j

(* What the bytes at every site are. *)
CodeInv ==
  /\ image = NoExe => \A s \in Site : code[s] = Unmapped
  /\ image # NoExe => \A s \in Site :
       /\ s \notin Maps[image] => code[s] = Unmapped /\ saved[s] = NotInstalled
       /\ s \in Maps[image] /\ saved[s] = NotInstalled => code[s] = Prologue(image)
       /\ s \in Installed => code[s] = Branch(image) /\ saved[s] = Prologue(image)
                             /\ image \in Builds

(* The trampoline of an installed hook lies between the baseline and the   *)
(* end of the used part, so the next Install writes behind it.             *)
TrampolineInv ==
  /\ baseline <= poolUsed
  /\ loaderHook => TrampolineUnits(LoaderRelative) <= baseline
  /\ \A s \in Installed : 
       tramp[s] + TrampolineUnits(RelativeIn(saved[s], s)) <= poolUsed

IInv ==
  /\ TypeOK
  /\ StagesInv /\ DllInv /\ PluginInv /\ TodoInv /\ CodeInv /\ TrampolineInv
  /\ LoaderTrampolineIntact
  /\ PluginTrampolinesIntact

-----------------------------------------------------------------------------
LEMMA InitIInv == Init => IInv
<1> SUFFICES ASSUME Init PROVE IInv
  OBVIOUS
<1> USE DEF Init
<1>1. TypeOK
  <2>1. todo \in Seq(Site)
    OBVIOUS
  <2>2. saved \in [Site -> Content \cup {NotInstalled}] /\ code \in [Site -> Content]
    BY DEF Content
  <2>3. pool \in [Units -> Owner] /\ tramp \in [Site -> Nat]
    BY DEF Owner
  <2> QED
    BY <2>1, <2>2, <2>3 DEF TypeOK, DllState, Phase
<1>2. Installed = {}
  BY DEF Installed
<1>3. StagesInv /\ DllInv /\ PluginInv /\ TodoInv
  BY <1>2 DEF StagesInv, DllInv, PluginInv, TodoInv, DllMainIdle
<1>4. CodeInv
  BY <1>2 DEF CodeInv
<1>5. TrampolineInv
  BY <1>2 DEF TrampolineInv, TrampolineUnits
<1>6. LoaderTrampolineIntact /\ PluginTrampolinesIntact
  BY <1>2 DEF LoaderTrampolineIntact, PluginTrampolinesIntact
<1> QED
  BY <1>1, <1>3, <1>4, <1>5, <1>6 DEF IInv

LEMMA MapImageIInv ==
  ASSUME IInv, NEW e \in Exe, MapImage(e) PROVE IInv'
<1> USE ConstantsAssumption DEF IInv, MapImage, dllVars, managerVars, detourVars, poolVars
<1>1. TypeOK'
  BY DEF TypeOK, Exe, Content, Prologue, Unmapped, Phase
<1>2. StagesInv'
  BY DEF StagesInv, DllMainIdle, Exe
<1>3. DllInv'
  BY DEF DllInv
<1>4. Installed' = Installed /\ Installed = {} /\ plugin = NoExe
  BY DEF Installed, PluginInv, DllInv, DllMainIdle
<1>5. PluginInv'
  BY <1>4 DEF PluginInv
<1>6. TodoInv'
  BY DEF TodoInv
<1>7. CodeInv'
  BY <1>4 DEF CodeInv, Installed, TypeOK, Exe
<1>8. TrampolineInv'
  BY <1>4 DEF TrampolineInv, TrampolineUnits, RelativeIn
<1>9. LoaderTrampolineIntact' /\ PluginTrampolinesIntact'
  BY <1>4 DEF LoaderTrampolineIntact, PluginTrampolinesIntact
<1> QED BY <1>1, <1>2, <1>3, <1>5, <1>6, <1>7, <1>8, <1>9

-----------------------------------------------------------------------------
(* ResetCurrentPlugin outside a construction: whether or not there was a   *)
(* plugin, no detour is left, the pool is back at the baseline, and the    *)
(* mapped executable has its own code everywhere.                          *)
Unpatched(s) ==
  IF image # NoExe /\ s \in Maps[image] THEN Prologue(image) ELSE Unmapped

LEMMA ResetFacts ==
  ASSUME IInv, ResetCurrentPlugin, phase # "constructing"
  PROVE  /\ plugin' = NoExe
         /\ poolUsed' = baseline
         /\ saved' = [s \in Site |-> NotInstalled]
         /\ code' = [s \in Site |-> Unpatched(s)]
<1> USE DEF IInv, ResetCurrentPlugin
<1>1. CASE plugin = NoExe
  <2>1. saved \in [Site -> Content \cup {NotInstalled}] /\ code \in [Site -> Content]
    BY DEF TypeOK
  <2>2. \A s \in Site : saved[s] = NotInstalled
    BY <1>1 DEF PluginInv, Installed
  <2>3. \A s \in Site : code[s] = Unpatched(s)
    BY <2>2 DEF CodeInv, Unpatched
  <2> QED
    BY <1>1, <2>1, <2>2, <2>3 DEF PluginInv
<1>2. CASE plugin # NoExe
  <2> DEFINE c == [s \in Site |-> IF s \in Installed /\ AddressValid(s)
                                 THEN saved[s] ELSE code[s]]
  <2>1. code' = c /\ saved' = [s \in Site |-> NotInstalled]
        /\ plugin' = NoExe /\ poolUsed' = baseline
    BY <1>2 DEF RemoveAll
  <2>2. ASSUME NEW s \in Site PROVE c[s] = Unpatched(s)
    <3>1. Unmapped # Branch(image) /\ Unmapped # Prologue(image)
      BY DEF Unmapped, Branch, Prologue
    <3> QED
      BY <3>1 DEF CodeInv, Unpatched, Installed, AddressValid
  <2> QED
    BY <2>1, <2>2
<1> QED
  BY <1>1, <1>2

(* What an action has to establish besides the stages once no detour is    *)
(* left: used after a reset and for a DLL that was just mapped.            *)
LEMMA NoDetours ==
  ASSUME IInv,
         saved' = [s \in Site |-> NotInstalled],
         plugin' = NoExe,
         poolUsed' = baseline',
         baseline' \in Nat,
         loaderHook' => loaderHook /\ baseline' = baseline /\ pool' = pool
  PROVE  /\ Installed' = {}
         /\ PluginInv'
         /\ TrampolineInv'
         /\ LoaderTrampolineIntact' /\ PluginTrampolinesIntact'
<1>1. Installed' = {}
  BY DEF Installed
<1>2. PluginInv'
  BY <1>1 DEF PluginInv
<1>3. TrampolineInv'
  BY <1>1 DEF IInv, TrampolineInv, TrampolineUnits
<1>4. LoaderTrampolineIntact' /\ PluginTrampolinesIntact'
  BY <1>1 DEF IInv, LoaderTrampolineIntact, PluginTrampolinesIntact
<1> QED
  BY <1>1, <1>2, <1>3, <1>4

-----------------------------------------------------------------------------
(* The console's actions *)

LEMMA FinishLoadUnhookedIInv ==
  ASSUME IInv, FinishLoadUnhooked PROVE IInv'
<1> USE DEF IInv, FinishLoadUnhooked, dllVars, managerVars, detourVars, poolVars
<1>1. TypeOK' /\ StagesInv' /\ DllInv'
  BY DEF TypeOK, Phase, StagesInv, DllInv
<1>2. PluginInv' /\ TodoInv' /\ CodeInv'
  BY DEF PluginInv, TodoInv, CodeInv, Installed
<1>3. TrampolineInv' /\ LoaderTrampolineIntact' /\ PluginTrampolinesIntact'
  BY DEF TrampolineInv, LoaderTrampolineIntact, PluginTrampolinesIntact, Installed
<1> QED
  BY <1>1, <1>2, <1>3

LEMMA FinishLoadHookedIInv ==
  ASSUME IInv, FinishLoadHooked PROVE IInv'
<1> USE ConstantsAssumption DEF IInv, FinishLoadHooked, BeginLoad, dllVars
<1>1. /\ plugin' = NoExe /\ poolUsed' = baseline
      /\ saved' = [s \in Site |-> NotInstalled]
      /\ code' = [s \in Site |-> Unpatched(s)]
  BY ResetFacts
<1>2. TypeOK'
  <2>1. todo' \in Seq(Site)
    <3>1. <<>> \in Seq(Site)
      OBVIOUS
    <3>2. image \in Builds => Hooks[image] \in Seq(Site)
      OBVIOUS
    <3> QED
      BY <3>1, <3>2
  <2>2. code' \in [Site -> Content]
    BY <1>1 DEF TypeOK, Content, Unpatched
  <2>3. saved' \in [Site -> Content \cup {NotInstalled}]
    BY <1>1
  <2> QED
    BY <1>1, <2>1, <2>2, <2>3 DEF TypeOK, Phase
<1>3. StagesInv' /\ DllInv'
  BY <1>1 DEF StagesInv, DllInv, DllMainIdle
<1>4. /\ Installed' = {} /\ PluginInv' /\ TrampolineInv'
      /\ LoaderTrampolineIntact' /\ PluginTrampolinesIntact'
  BY <1>1, NoDetours DEF TypeOK
<1>5. TodoInv'
  BY <1>4 DEF TodoInv
<1>6. CodeInv'
  BY <1>1, <1>4 DEF CodeInv, Unpatched
<1> QED
  BY <1>2, <1>3, <1>4, <1>5, <1>6

LEMMA TerminateTitleIInv ==
  ASSUME IInv, TerminateTitle PROVE IInv'
<1> USE ConstantsAssumption DEF IInv, TerminateTitle, dllVars
<1>1. CASE registered
  <2>1. /\ plugin' = NoExe /\ poolUsed' = baseline
        /\ saved' = [s \in Site |-> NotInstalled]
        /\ code' = [s \in Site |-> Unpatched(s)]
    BY <1>1, ResetFacts
  <2>2. TypeOK'
    <3>1. code' \in [Site -> Content]
      BY <2>1 DEF TypeOK, Content, Unpatched
    <3>2. saved' \in [Site -> Content \cup {NotInstalled}]
      BY <2>1
    <3> QED
      BY <2>1, <3>1, <3>2 DEF TypeOK, Phase
  <2>3. StagesInv' /\ DllInv'
    <3>1. dll = "attaching" => baseline = 0
      BY DEF DllInv, TrampolineInv, TypeOK
    <3> QED
      BY <2>1, <3>1 DEF StagesInv, DllInv, DllMainIdle
  <2>4. /\ Installed' = {} /\ PluginInv' /\ TrampolineInv'
        /\ LoaderTrampolineIntact' /\ PluginTrampolinesIntact'
    BY <2>1, NoDetours DEF TypeOK
  <2>5. TodoInv' /\ CodeInv'
    BY <2>1, <2>4 DEF TodoInv, CodeInv, Unpatched
  <2> QED
    BY <2>2, <2>3, <2>4, <2>5
<1>2. CASE ~registered
  <2>1. UNCHANGED <<code, saved, plugin, poolUsed>>
    BY <1>2
  <2>2. TypeOK' /\ StagesInv' /\ DllInv'
    BY <2>1 DEF TypeOK, Phase, StagesInv, DllInv, DllMainIdle
  <2>3. PluginInv'
    BY <1>2, <2>1 DEF PluginInv, DllInv, Installed
  <2>4. TodoInv' /\ CodeInv' /\ TrampolineInv'
    BY <2>1 DEF TodoInv, CodeInv, TrampolineInv, Installed
  <2>5. LoaderTrampolineIntact' /\ PluginTrampolinesIntact'
    BY <2>1 DEF LoaderTrampolineIntact, PluginTrampolinesIntact, Installed
  <2> QED
    BY <2>2, <2>3, <2>4, <2>5
<1> QED
  BY <1>1, <1>2

LEMMA TearDownIInv ==
  ASSUME IInv, TearDown PROVE IInv'
<1> USE ConstantsAssumption DEF IInv, TearDown, dllVars, managerVars, detourVars, poolVars
<1>1. TypeOK'
  BY DEF TypeOK, Content, Phase
<1>2. StagesInv' /\ DllInv'
  BY DEF StagesInv, DllInv, DllMainIdle
<1>3. PluginInv' /\ TodoInv' /\ CodeInv'
  BY DEF PluginInv, TodoInv, CodeInv, Installed
<1>4. TrampolineInv' /\ LoaderTrampolineIntact' /\ PluginTrampolinesIntact'
  BY DEF TrampolineInv, LoaderTrampolineIntact, PluginTrampolinesIntact, Installed
<1> QED
  BY <1>1, <1>2, <1>3, <1>4

-----------------------------------------------------------------------------
(* The plugin's constructor *)

LEMMA PrologueUnits ==
  ASSUME NEW e \in Exe, NEW s \in Site
  PROVE  TrampolineUnits(RelativeIn(Prologue(e), s)) \in Nat
<1>1. RelativeIn(Prologue(e), s) = Relative[e][s]
  BY DEF RelativeIn, Prologue
<1>2. Relative[e][s] \in 0..4
  BY ConstantsAssumption
<1> QED
  BY <1>1, <1>2 DEF TrampolineUnits

(* Install writes its trampoline behind every trampoline in use.           *)
LEMMA InstallNextIInv ==
  ASSUME IInv, InstallNext PROVE IInv'
<1> USE ConstantsAssumption DEF IInv, InstallNext, Install, WriteTrampoline, dllVars, titleVars
<1> DEFINE site  == Head(todo)
           units == TrampolineUnits(RelativeIn(code[site], site))
<1>1. /\ site \in Site /\ site \in Maps[image] /\ site \notin Installed
      /\ todo' \in Seq(Site) /\ Len(todo') = Len(todo) - 1
      /\ \A i \in 1..Len(todo') : todo'[i] = todo[i + 1] /\ i + 1 \in 1..Len(todo)
      /\ 1 \in 1..Len(todo) /\ site = todo[1]
  <2>1. todo \in Seq(Site) /\ todo # <<>>
    BY DEF TypeOK
  <2>2. /\ site \in Site /\ site = todo[1] /\ 1 \in 1..Len(todo)
        /\ todo' \in Seq(Site) /\ Len(todo') = Len(todo) - 1
        /\ \A i \in 1..Len(todo') : todo'[i] = todo[i + 1] /\ i + 1 \in 1..Len(todo)
    BY <2>1
  <2> QED
    BY <2>2 DEF TodoInv
<1>2. /\ image \in Builds /\ image # NoExe /\ plugin = NoExe /\ dll = "active"
      /\ code[site] = Prologue(image) /\ saved[site] = NotInstalled
      /\ Prologue(image) # NotInstalled /\ Prologue(image) \in Content
      /\ Branch(image) \in Content
  BY <1>1 DEF StagesInv, CodeInv, Installed, Prologue, NotInstalled, Content, Exe
<1>3. /\ saved' = [saved EXCEPT ![site] = Prologue(image)]
      /\ tramp' = [tramp EXCEPT ![site] = poolUsed]
      /\ code' = [code EXCEPT ![site] = Branch(image)]
      /\ Installed' = Installed \cup {site}
  BY <1>1, <1>2 DEF TypeOK, Installed
<1>4. units \in Nat /\ units = TrampolineUnits(RelativeIn(Prologue(image), site))
      /\ poolUsed' = poolUsed + units /\ poolUsed \in Nat
  BY <1>1, <1>2, PrologueUnits DEF Exe, TypeOK
<1>5. TypeOK'
  <2>1. pool' \in [Units -> Owner]
    BY <1>1 DEF TypeOK, Owner
  <2>2. saved' \in [Site -> Content \cup {NotInstalled}] /\ tramp' \in [Site -> Nat]
        /\ code' \in [Site -> Content]
    BY <1>1, <1>2, <1>3 DEF TypeOK
  <2> QED
    BY <1>1, <1>4, <2>1, <2>2 DEF TypeOK
<1>6. StagesInv' /\ DllInv' /\ PluginInv'
  BY <1>2 DEF StagesInv, DllInv, PluginInv, DllMainIdle
<1>7. TodoInv'
  <2>1. \A i \in 1..Len(todo') : todo'[i] \in Maps[image] /\ todo'[i] \notin Installed'
    BY <1>1, <1>3 DEF TodoInv, TypeOK
  <2>2. \A i, j \in 1..Len(todo') : todo'[i] = todo'[j] => i = j
    BY <1>1 DEF TodoInv, TypeOK
  <2> QED
    BY <2>1, <2>2 DEF TodoInv
<1>8. CodeInv'
  BY <1>1, <1>2, <1>3 DEF CodeInv, TypeOK, Installed
<1>9. \A s \in Installed : saved'[s] = saved[s] /\ tramp'[s] = tramp[s] /\ s # site
  BY <1>1, <1>3 DEF TypeOK, Installed
<1>10. saved'[site] = Prologue(image) /\ tramp'[site] = poolUsed
  BY <1>1, <1>3 DEF TypeOK
<1>11. \A s \in Installed : /\ tramp[s] \in Nat
                           /\ TrampolineUnits(RelativeIn(saved[s], s)) \in Nat
  <2> SUFFICES ASSUME NEW s \in Installed
               PROVE  tramp[s] \in Nat /\ TrampolineUnits(RelativeIn(saved[s], s)) \in Nat
    OBVIOUS
  <2>1. s \in Site /\ saved[s] = Prologue(image)
    BY <1>2 DEF CodeInv, Installed
  <2> QED
    BY <2>1, <1>2, PrologueUnits DEF TypeOK, Exe
<1>12. TrampolineInv'
  <2>1. baseline <= poolUsed' /\ UNCHANGED <<baseline, loaderHook>>
    BY <1>4 DEF TrampolineInv, TypeOK
  <2>2. ASSUME NEW s \in Installed'
        PROVE  tramp'[s] + TrampolineUnits(RelativeIn(saved'[s], s)) <= poolUsed'
    <3>1. CASE s = site
      BY <3>1, <1>4, <1>10
    <3>2. CASE s # site
      <4>1. s \in Installed
        BY <3>2, <1>3
      <4>2. tramp[s] + TrampolineUnits(RelativeIn(saved[s], s)) <= poolUsed
        BY <4>1 DEF TrampolineInv
      <4>3. /\ saved'[s] = saved[s] /\ tramp'[s] = tramp[s] /\ tramp[s] \in Nat
            /\ TrampolineUnits(RelativeIn(saved[s], s)) \in Nat
        BY <4>1, <1>9, <1>11
      <4> QED
        BY <4>2, <4>3, <1>4
    <3> QED
      BY <3>1, <3>2
  <2> QED
    BY <2>1, <2>2 DEF TrampolineInv, TrampolineUnits, RelativeIn
<1>13. LoaderTrampolineIntact'
  BY <1>4 DEF LoaderTrampolineIntact, TrampolineInv, TypeOK, Units, TrampolineUnits
<1>14. PluginTrampolinesIntact'
  <2> SUFFICES ASSUME NEW s \in Installed', NEW u \in Units,
                      u \in tramp'[s]..(tramp'[s]
                             + TrampolineUnits(RelativeIn(saved'[s], s)) - 1)
               PROVE  pool'[u] = s
    BY DEF PluginTrampolinesIntact, RelativeIn
  <2>1. CASE s = site
    BY <2>1, <1>4, <1>10
  <2>2. CASE s # site
    <3>1. s \in Installed /\ tramp'[s] = tramp[s] /\ saved'[s] = saved[s]
      BY <2>2, <1>3, <1>9
    <3>2. u < poolUsed /\ pool[u] = s
      BY <3>1, <1>11 DEF TrampolineInv, PluginTrampolinesIntact, TypeOK, Units
    <3> QED
      BY <3>2, <1>4 DEF Units
  <2> QED
    BY <2>1, <2>2
<1> QED
  BY <1>5, <1>6, <1>7, <1>8, <1>12, <1>13, <1>14

LEMMA PluginReadyIInv ==
  ASSUME IInv, PluginReady PROVE IInv'
<1> USE DEF IInv, PluginReady, dllVars, detourVars, poolVars
<1>1. TypeOK' /\ StagesInv' /\ DllInv'
  BY DEF TypeOK, Phase, StagesInv, DllInv, DllMainIdle
<1>2. PluginInv' /\ TodoInv' /\ CodeInv'
  BY ConstantsAssumption DEF StagesInv, PluginInv, TodoInv, CodeInv, Installed, Exe
<1>3. TrampolineInv' /\ LoaderTrampolineIntact' /\ PluginTrampolinesIntact'
  BY DEF TrampolineInv, LoaderTrampolineIntact, PluginTrampolinesIntact, Installed
<1> QED
  BY <1>1, <1>2, <1>3

-----------------------------------------------------------------------------
(* DllMain *)

(* A DLL is mapped only while nothing of an earlier one is left.           *)
LEMMA FreshFacts ==
  ASSUME IInv, dll = "absent", FreshStatics
  PROVE  /\ saved' = [s \in Site |-> NotInstalled] /\ saved = saved'
         /\ plugin' = NoExe /\ plugin = NoExe
         /\ poolUsed' = 0 /\ baseline' = 0 /\ ~loaderHook /\ ~registered
         /\ pool' \in [Units -> Owner] /\ tramp' \in [Site -> Nat]
<1>1. plugin = NoExe /\ ~loaderHook /\ ~registered
  BY DEF IInv, DllInv
<1>2. Installed = {}
  BY <1>1 DEF IInv, PluginInv, StagesInv
<1>3. saved = [s \in Site |-> NotInstalled]
  BY <1>2 DEF Installed, IInv, TypeOK
<1>4. pool' \in [Units -> Owner] /\ tramp' \in [Site -> Nat]
  BY DEF FreshStatics, Owner
<1> QED
  BY <1>1, <1>3, <1>4 DEF FreshStatics

LEMMA AttachIInv ==
  ASSUME IInv, AttachUnsupported \/ AttachHardware PROVE IInv'
<1> USE DEF IInv, AttachUnsupported, AttachHardware, titleVars
<1>1. /\ saved' = [s \in Site |-> NotInstalled] /\ saved = saved'
      /\ plugin' = NoExe /\ plugin = NoExe
      /\ poolUsed' = 0 /\ baseline' = 0 /\ ~loaderHook /\ ~registered
      /\ pool' \in [Units -> Owner] /\ tramp' \in [Site -> Nat]
  BY FreshFacts
<1>2. TypeOK'
  BY <1>1 DEF TypeOK, DllState
<1>3. StagesInv' /\ DllInv'
  BY <1>1 DEF StagesInv, DllInv, LoaderIdle, DllMainIdle
<1>4. /\ Installed' = {} /\ PluginInv' /\ TrampolineInv'
      /\ LoaderTrampolineIntact' /\ PluginTrampolinesIntact'
  BY <1>1, NoDetours
<1>5. TodoInv'
  BY <1>4 DEF TodoInv
<1>6. CodeInv'
  BY <1>1, <1>4 DEF CodeInv, Installed
<1> QED
  BY <1>2, <1>3, <1>4, <1>5, <1>6

LEMMA AttachXeniaIInv ==
  ASSUME IInv, AttachXenia PROVE IInv'
<1> USE ConstantsAssumption DEF IInv, AttachXenia, BeginLoad
<1>1. /\ saved' = [s \in Site |-> NotInstalled] /\ saved = saved'
      /\ plugin' = NoExe /\ plugin = NoExe
      /\ poolUsed' = 0 /\ baseline' = 0 /\ ~loaderHook /\ ~registered
      /\ pool' \in [Units -> Owner] /\ tramp' \in [Site -> Nat]
  BY FreshFacts
<1>2. TypeOK'
  <2>1. todo' \in Seq(Site)
    <3>1. <<>> \in Seq(Site)
      OBVIOUS
    <3>2. image \in Builds => Hooks[image] \in Seq(Site)
      OBVIOUS
    <3> QED
      BY <3>1, <3>2
  <2> QED
    BY <1>1, <2>1 DEF TypeOK, DllState, Phase
<1>3. StagesInv' /\ DllInv'
  BY <1>1 DEF StagesInv, DllInv, DllMainIdle
<1>4. /\ Installed' = {} /\ PluginInv' /\ TrampolineInv'
      /\ LoaderTrampolineIntact' /\ PluginTrampolinesIntact'
  BY <1>1, NoDetours
<1>5. TodoInv'
  BY <1>4 DEF TodoInv
<1>6. CodeInv'
  BY <1>1, <1>4 DEF CodeInv, Installed
<1> QED
  BY <1>2, <1>3, <1>4, <1>5, <1>6

(* The loader's trampoline comes first and the baseline lies behind it.    *)
LEMMA InstallLoaderHookIInv ==
  ASSUME IInv, InstallLoaderHook PROVE IInv'
<1> USE ConstantsAssumption
    DEF IInv, InstallLoaderHook, WriteTrampoline, detourVars, titleVars
<1>1. /\ poolUsed = 0 /\ plugin = NoExe /\ ~loaderHook
      /\ phase \notin {"mapped", "constructing"}
  BY DEF DllInv, StagesInv, DllMainIdle
<1>2. Installed = {} /\ Installed' = {}
  BY <1>1 DEF PluginInv, Installed
<1>3. /\ TrampolineUnits(LoaderRelative) \in Nat
      /\ poolUsed' = TrampolineUnits(LoaderRelative) /\ baseline' = poolUsed'
  BY <1>1 DEF TrampolineUnits
<1>4. pool' \in [Units -> Owner]
  BY DEF TypeOK, Owner
<1>5. TypeOK'
  BY <1>3, <1>4 DEF TypeOK, DllState
<1>6. StagesInv'
  BY DEF StagesInv, DllMainIdle
<1>7. DllInv'
  <2>1. registered
    BY DEF DllInv
  <2> QED
    BY <1>1, <2>1 DEF DllInv
<1>8. PluginInv' /\ TodoInv' /\ CodeInv'
  BY <1>1, <1>2 DEF PluginInv, TodoInv, CodeInv, Installed
<1>9. TrampolineInv'
  BY <1>2, <1>3 DEF TrampolineInv, TrampolineUnits, RelativeIn
<1>10. LoaderTrampolineIntact' /\ PluginTrampolinesIntact'
  BY <1>1, <1>2, <1>3
  DEF LoaderTrampolineIntact, PluginTrampolinesIntact, Units, TrampolineUnits
<1> QED
  BY <1>5, <1>6, <1>7, <1>8, <1>9, <1>10

LEMMA DetachStepsIInv ==
  ASSUME IInv, DetachBegin \/ DetachUnregister \/ DetachRemoveLoaderHook PROVE IInv'
<1> USE DEF IInv, DetachBegin, DetachUnregister, DetachRemoveLoaderHook,
            managerVars, detourVars, poolVars, titleVars
<1>1. TypeOK'
  BY DEF TypeOK, DllState
<1>2. StagesInv' /\ DllInv'
  BY DEF StagesInv, DllInv, DllMainIdle, LoaderIdle
<1>3. PluginInv' /\ TodoInv' /\ CodeInv'
  BY DEF PluginInv, TodoInv, CodeInv, Installed
<1>4. TrampolineInv' /\ LoaderTrampolineIntact' /\ PluginTrampolinesIntact'
  BY DEF TrampolineInv, LoaderTrampolineIntact, PluginTrampolinesIntact, Installed
<1> QED
  BY <1>1, <1>2, <1>3, <1>4

LEMMA DetachDeleteManagerIInv ==
  ASSUME IInv, DetachDeleteManager PROVE IInv'
<1> USE DEF IInv, DetachDeleteManager, titleVars
<1>1. phase # "constructing"
  BY DEF StagesInv
<1>2. /\ plugin' = NoExe /\ poolUsed' = baseline
      /\ saved' = [s \in Site |-> NotInstalled]
      /\ code' = [s \in Site |-> Unpatched(s)]
  BY <1>1, ResetFacts
<1>3. TypeOK'
  <2>1. code' \in [Site -> Content]
    BY <1>2 DEF TypeOK, Content, Unpatched
  <2>2. saved' \in [Site -> Content \cup {NotInstalled}]
    BY <1>2
  <2> QED
    BY <1>2, <2>1, <2>2 DEF TypeOK, DllState
<1>4. StagesInv' /\ DllInv'
  BY <1>1, <1>2 DEF StagesInv, DllInv, DllMainIdle
<1>5. /\ Installed' = {} /\ PluginInv' /\ TrampolineInv'
      /\ LoaderTrampolineIntact' /\ PluginTrampolinesIntact'
  BY <1>2, NoDetours DEF TypeOK
<1>6. TodoInv' /\ CodeInv'
  BY <1>1, <1>2, <1>5 DEF TodoInv, CodeInv, Unpatched
<1> QED
  BY <1>3, <1>4, <1>5, <1>6

-----------------------------------------------------------------------------
LEMMA NextIInv == IInv /\ [Next]_vars => IInv'
<1> SUFFICES ASSUME IInv, [Next]_vars PROVE IInv'
  OBVIOUS
<1>1. CASE Load
  BY <1>1, MapImageIInv, FinishLoadUnhookedIInv, FinishLoadHookedIInv,
     InstallNextIInv, PluginReadyIInv
  DEF Load
<1>2. CASE TerminateTitle
  BY <1>2, TerminateTitleIInv
<1>3. CASE TearDown
  BY <1>3, TearDownIInv
<1>4. CASE Attach
  BY <1>4, AttachIInv, AttachXeniaIInv, InstallLoaderHookIInv DEF Attach
<1>5. CASE Detach
  BY <1>5, DetachStepsIInv, DetachDeleteManagerIInv DEF Detach
<1>6. CASE UNCHANGED vars
  <2> USE <1>6 DEF vars, dllVars, managerVars, detourVars, poolVars, titleVars, IInv
  <2>1. TypeOK' /\ StagesInv' /\ DllInv'
    BY DEF TypeOK, StagesInv, DllInv, DllMainIdle
  <2>2. PluginInv' /\ TodoInv' /\ CodeInv'
    BY DEF PluginInv, TodoInv, CodeInv, Installed
  <2>3. TrampolineInv' /\ LoaderTrampolineIntact' /\ PluginTrampolinesIntact'
    BY DEF TrampolineInv, LoaderTrampolineIntact, PluginTrampolinesIntact, Installed
  <2> QED
    BY <2>1, <2>2, <2>3
<1> QED
  BY <1>1, <1>2, <1>3, <1>4, <1>5, <1>6 DEF Next

LEMMA InductiveInvariant == Spec => []IInv
BY InitIInv, NextIInv, PTL DEF Spec

-----------------------------------------------------------------------------
(* The state variables keep their types: DllMain's progress, the manager's *)
(* plugin and the trampoline pool are what their readers take them for.    *)
THEOREM TypeCorrect == Spec => []TypeOK
BY InductiveInvariant, PTL DEF IInv

(* The persistent loader hook's trampoline survives any number of titles   *)
(* (dllmain.cpp:178, plugin_manager.cpp:213), and no Install writes over   *)
(* the trampoline of a hook that is in place.                              *)
THEOREM TrampolinesSafe == Spec => []TrampolinesIntact
BY InductiveInvariant, PTL DEF IInv, TrampolinesIntact

LEMMA ContentKinds ==
  /\ \A e : Branch(e).kind = "branch" /\ Prologue(e).kind = "prologue"
  /\ Unmapped.kind = "unmapped"
  /\ \A e : Prologue(e) # NotInstalled
BY DEF Branch, Prologue, Unmapped, NotInstalled

LEMMA CodeFacts ==
  ASSUME IInv, NEW s \in Site
  PROVE  /\ code[s] \in {Unmapped, Prologue(image), Branch(image)}
         /\ code[s].kind = "branch" <=> s \in Installed /\ image # NoExe
         /\ code[s].kind = "branch" =>
              saved[s] = Prologue(image) /\ code[s] = Branch(image)
<1>1. CASE image = NoExe
  BY <1>1, ContentKinds DEF IInv, CodeInv
<1>2. CASE image # NoExe
  BY <1>2, ContentKinds DEF IInv, CodeInv, Installed
<1> QED
  BY <1>1, <1>2

(* Detour::Remove never leaves bytes of an earlier executable behind, and  *)
(* a branch into the plugin can be undone as long as it is there           *)
(* (detour.h:338-344).                                                     *)
THEOREM PatchesCanBeUndone == Spec => []PatchesUndoable
<1>1. ASSUME IInv PROVE CodeBelongsToImage
  BY <1>1, CodeFacts DEF CodeBelongsToImage
<1>2. ASSUME IInv PROVE BranchesAreUndoable
  <2> SUFFICES ASSUME NEW s \in Site, code[s].kind = "branch"
               PROVE  /\ saved[s] = Prologue(image)
                      /\ plugin = image \/ phase = "constructing"
    BY DEF BranchesAreUndoable
  <2>1. saved[s] = Prologue(image) /\ s \in Installed /\ image # NoExe
    BY <1>2, CodeFacts
  <2>2. phase # "constructing" => plugin # NoExe /\ phase # "none"
    BY <1>2, <2>1 DEF IInv, PluginInv, StagesInv
  <2> QED
    BY <1>2, <2>1, <2>2 DEF IInv, PluginInv
<1>3. IInv => PatchesUndoable
  BY <1>1, <1>2 DEF PatchesUndoable, IInv
<1> QED
  BY <1>3, InductiveInvariant, PTL

(* An unloaded DLL is called by nobody: dllmain.cpp:190-208.               *)
THEOREM NothingDangles == Spec => []NothingDanglesWhenUnloaded
<1>1. ASSUME IInv PROVE NothingDanglesWhenUnloaded
  <2> SUFFICES ASSUME dll \in {"absent", "inactive"}
               PROVE  /\ ~loaderHook /\ ~registered /\ plugin = NoExe
                      /\ \A s \in Site : code[s].kind # "branch"
    BY DEF NothingDanglesWhenUnloaded
  <2>1. ~loaderHook /\ ~registered /\ plugin = NoExe /\ phase # "constructing"
    BY <1>1 DEF IInv, DllInv, StagesInv
  <2>2. Installed = {}
    BY <1>1, <2>1 DEF IInv, PluginInv
  <2> QED
    BY <1>1, <2>1, <2>2, CodeFacts
<1> QED
  BY <1>1, InductiveInvariant, PTL

(* A terminating title is unpatched before its memory goes                 *)
(* (dllmain.cpp:28, PluginManager::OnTitleTerminate).                      *)
THEOREM TitlesAreReleased == Spec => TerminationReleasesTitle
<1>1. ASSUME IInv, [Next]_vars PROVE ReleasesTitle
  <2> SUFFICES ASSUME dll = "active", phase = "running", phase' = "terminating"
               PROVE  /\ \A s \in Site : code'[s].kind # "branch"
                      /\ plugin' = NoExe
                      /\ poolUsed' = baseline'
    BY DEF ReleasesTitle
  <2>1. TerminateTitle
    BY <1>1
    DEF Next, Load, Attach, Detach, MapImage, FinishLoadUnhooked, FinishLoadHooked,
        InstallNext, PluginReady, TearDown, AttachUnsupported, AttachXenia, AttachHardware,
        InstallLoaderHook, DetachBegin, DetachUnregister, DetachRemoveLoaderHook,
        DetachDeleteManager, BeginLoad, titleVars, vars
  <2>2. registered
    BY <1>1, <2>1 DEF TerminateTitle, IInv, DllInv
  <2>3. ResetCurrentPlugin /\ baseline' = baseline
    BY <2>1, <2>2 DEF TerminateTitle
  <2>4. /\ plugin' = NoExe /\ poolUsed' = baseline
        /\ code' = [s \in Site |-> Unpatched(s)]
    BY <1>1, <2>3, ResetFacts
  <2>5. \A s \in Site : code'[s].kind # "branch"
    BY <2>4, ContentKinds DEF Unpatched
  <2> QED
    BY <2>3, <2>4, <2>5
<1>2. IInv /\ [Next]_vars => [ReleasesTitle]_vars
  BY <1>1
<1> QED
  BY <1>2, InductiveInvariant, PTL DEF Spec, TerminationReleasesTitle

-----------------------------------------------------------------------------
(* The abstract promise: every step of DllMain, the loader and the detours *)
(* is a step of the life of title memory in TitlePatches, or changes       *)
(* nothing of it.                                                          *)

(* While a plugin is constructed, what is installed and what is still to   *)
(* install are together the hooks of the title: when nothing is left to    *)
(* do, all of them are in place.                                           *)
HooksOf(b) == {Hooks[b][i] : i \in 1..Len(Hooks[b])}
ToInstall == {todo[i] : i \in 1..Len(todo)}
HooksInv == phase = "constructing" => ToInstall \cup Installed = HooksOf(image)

LEMMA InitHooks == Init => HooksInv
BY DEF Init, HooksInv

(* BeginLoad, the only step into a construction, finds nothing installed.  *)
LEMMA BeginHooks ==
  ASSUME NEW otherwise, otherwise # "constructing",
         BeginLoad(otherwise), image' = image, Installed' = {}
  PROVE  HooksInv'
BY DEF BeginLoad, HooksInv, ToInstall, HooksOf

LEMMA InstallHooks ==
  ASSUME IInv, HooksInv, InstallNext
  PROVE  /\ Head(todo) \in HooksOf(image) \ Installed
         /\ Installed' = Installed \cup {Head(todo)}
         /\ image' = image /\ phase' = phase
         /\ HooksInv'
<1> USE DEF InstallNext, titleVars
<1>1. todo \in Seq(Site) /\ todo # <<>>
  BY DEF IInv, TypeOK
<1>2. /\ Head(todo) \in Site /\ Head(todo) = todo[1] /\ 1 \in 1..Len(todo)
      /\ Len(todo') = Len(todo) - 1
      /\ \A i \in 1..Len(todo') : todo'[i] = todo[i + 1] /\ i + 1 \in 1..Len(todo)
  BY <1>1
<1>3. Head(todo) \in Maps[image] \ Installed
  BY <1>2 DEF IInv, TodoInv
<1>4. code[Head(todo)] = Prologue(image)
  BY <1>2, <1>3 DEF IInv, StagesInv, CodeInv, Installed, Exe
<1>5. saved' = [saved EXCEPT ![Head(todo)] = Prologue(image)]
  BY <1>4 DEF Install
<1>6. Installed' = Installed \cup {Head(todo)}
  BY <1>2, <1>5, ContentKinds DEF Installed, IInv, TypeOK
<1>7. ToInstall = ToInstall' \cup {Head(todo)}
  <2>1. ASSUME NEW i \in 1..Len(todo) PROVE todo[i] \in ToInstall' \cup {Head(todo)}
    <3>1. CASE i = 1
      BY <3>1, <1>2
    <3>2. CASE i # 1
      <4>1. i - 1 \in 1..Len(todo') /\ (i - 1) + 1 = i
        BY <3>2, <1>1, <1>2
      <4>2. todo'[i - 1] = todo[(i - 1) + 1]
        BY <4>1, <1>2
      <4> QED
        BY <4>1, <4>2 DEF ToInstall
    <3> QED
      BY <3>1, <3>2
  <2>2. ToInstall' \cup {Head(todo)} \subseteq ToInstall
    BY <1>2 DEF ToInstall
  <2> QED
    BY <2>1, <2>2 DEF ToInstall
<1>8. Head(todo) \in HooksOf(image) /\ HooksInv'
  BY <1>6, <1>7 DEF HooksInv, HooksOf
<1> QED
  BY <1>3, <1>6, <1>8

LEMMA NextHooks == IInv /\ HooksInv /\ [Next]_vars => HooksInv'
<1> SUFFICES ASSUME IInv, HooksInv, [Next]_vars PROVE HooksInv'
  OBVIOUS
<1>1. CASE FinishLoadHooked
  <2>1. Installed' = {}
    BY <1>1, ResetFacts DEF FinishLoadHooked, Installed
  <2> QED
    BY <1>1, <2>1, BeginHooks DEF FinishLoadHooked
<1>2. CASE AttachXenia
  <2>1. Installed' = {}
    BY <1>2 DEF AttachXenia, FreshStatics, Installed
  <2> QED
    BY <1>2, <2>1, BeginHooks DEF AttachXenia
<1>3. CASE InstallNext
  BY <1>3, InstallHooks
<1>4. CASE (\E e \in Exe : MapImage(e)) \/ FinishLoadUnhooked \/ PluginReady \/ TerminateTitle \/ TearDown
  BY <1>4 DEF MapImage, FinishLoadUnhooked, PluginReady, TerminateTitle, TearDown, HooksInv
<1>5. CASE AttachUnsupported \/ AttachHardware \/ InstallLoaderHook \/ Detach
  BY <1>5 DEF AttachUnsupported, AttachHardware, InstallLoaderHook, Detach, DetachBegin,
     DetachUnregister, DetachRemoveLoaderHook, DetachDeleteManager, LoaderIdle, titleVars,
     HooksInv, IInv, StagesInv, DllMainIdle
<1>6. CASE UNCHANGED vars
  BY <1>6 DEF vars, managerVars, detourVars, titleVars, HooksInv, ToInstall, HooksOf, Installed
<1> QED
  BY <1>1, <1>2, <1>3, <1>4, <1>5, <1>6 DEF Next, Load, Attach

-----------------------------------------------------------------------------
(* The refinement mapping *)

(* What is patched is what is installed, while a title is mapped.          *)
LEMMA PatchedFacts ==
  ASSUME IInv
  PROVE  /\ image # NoExe => Patched = Installed
         /\ image = NoExe => Patched = {}
         /\ plugin = NoExe /\ phase # "constructing" => Patched = {}
<1>1. \A s \in Site : code[s].kind = "branch" <=> s \in Installed /\ image # NoExe
  BY CodeFacts
<1>2. Installed \subseteq Site
  BY DEF Installed
<1> QED
  BY <1>1, <1>2 DEF Patched, IInv, PluginInv

LEMMA StageFacts ==
  ASSUME TypeOK
  PROVE  /\ phase = "none" <=> Stage = "off"
         /\ phase \in {"mapped", "constructing"} <=> Stage = "loading"
         /\ phase = "running" <=> Stage = "running"
         /\ phase = "terminating" <=> Stage = "ending"
BY DEF TypeOK, Phase, Stage

Mapped == <<Attached, image, Stage, Patched>>

LEMMA HooksAreSites == \A b \in Builds : Patches!SitesOf(b) = HooksOf(b) /\ HooksOf(b) \subseteq Site
<1> SUFFICES ASSUME NEW b \in Builds
             PROVE  Patches!SitesOf(b) = HooksOf(b) /\ HooksOf(b) \subseteq Site
  OBVIOUS
<1>1. Hooks[b] \in Seq(Site)
  BY ConstantsAssumption
<1> QED
  BY <1>1 DEF Patches!SitesOf, HooksOf

LEMMA InitImplements == Init => Patches!Init
BY DEF Init, Patches!Init, Attached, Stage, Patched, Unmapped

(* What the loader does: Launch, Patch, Run or nothing.                    *)
LEMMA LoadImplements ==
  ASSUME IInv, IInv', HooksInv, Load
  PROVE  Patches!Next \/ UNCHANGED Mapped
<1> USE DEF IInv, Mapped
<1>1. CASE \E e \in Exe : MapImage(e)
  <2> PICK e \in Exe : MapImage(e)
    BY <1>1
  <2>1. Stage = "off" /\ Stage' = "loading" /\ image' = e /\ UNCHANGED dll
    BY StageFacts DEF MapImage, dllVars, Stage
  <2>2. Patched = {} /\ Patched' = {}
    BY PatchedFacts DEF MapImage, StagesInv, Patched, Prologue, Unmapped
  <2> QED
    BY <2>1, <2>2 DEF Patches!Next, Patches!Launch, Exe, Attached
<1>2. CASE FinishLoadUnhooked
  <2>1. Stage = "loading" /\ Stage' = "running" /\ UNCHANGED <<image, dll>>
    BY <1>2, StageFacts DEF FinishLoadUnhooked, dllVars, Stage
  <2>2. Patched = {} /\ Patched' = {}
    BY <1>2, PatchedFacts DEF FinishLoadUnhooked, PluginInv, Patched
  <2> QED
    BY <2>1, <2>2 DEF Patches!Next, Patches!Run, Attached
<1>3. CASE FinishLoadHooked
  <2>1. Stage = "loading" /\ UNCHANGED <<image, dll>>
    BY <1>3, StageFacts DEF FinishLoadHooked, dllVars
  <2>2. plugin = NoExe /\ Patched = {}
    BY <1>3, PatchedFacts DEF FinishLoadHooked, PluginInv
  <2>3. Patched' = {}
    BY <1>3, <2>2 DEF FinishLoadHooked, ResetCurrentPlugin, Patched
  <2>4. Stage' \in {"loading", "running"}
    BY <1>3 DEF FinishLoadHooked, BeginLoad, Stage
  <2> QED
    BY <2>1, <2>2, <2>3, <2>4 DEF Patches!Next, Patches!Run, Attached
<1>4. CASE InstallNext
  <2>1. /\ phase = "constructing" /\ dll = "active" /\ UNCHANGED <<image, phase, dll>>
        /\ image \in Builds /\ image # NoExe
    BY <1>4, ConstantsAssumption DEF InstallNext, StagesInv, titleVars, dllVars, Exe
  <2>2. Stage = "loading" /\ UNCHANGED Stage
    BY <2>1 DEF Stage
  <2>3. Patched = Installed /\ Patched' = Installed'
    <3>1. Patched = Installed
      BY <2>1, PatchedFacts
    <3>2. \A s \in Site : code'[s].kind = "branch" <=> s \in Installed'
      BY <2>1, ContentKinds DEF CodeInv, Installed
    <3> QED
      BY <3>1, <3>2 DEF Patched, Installed
  <2>4. /\ Head(todo) \in HooksOf(image) \ Installed
        /\ Installed' = Installed \cup {Head(todo)}
    BY <1>4, InstallHooks
  <2>5. Head(todo) \in Site /\ Head(todo) \in Patches!SitesOf(image)
    BY <2>1, <2>4, HooksAreSites
  <2> QED
    BY <2>1, <2>2, <2>3, <2>4, <2>5 DEF Patches!Next, Patches!Patch, Attached
<1>5. CASE PluginReady
  <2>1. /\ phase = "constructing" /\ UNCHANGED <<image, dll, code>> /\ todo = <<>>
        /\ image \in Builds /\ image # NoExe
    BY <1>5, ConstantsAssumption DEF PluginReady, StagesInv, dllVars, Exe
  <2>2. Stage = "loading" /\ Stage' = "running"
    BY <1>5 DEF Stage, PluginReady
  <2>3. Patched = Patches!SitesOf(image) /\ UNCHANGED Patched
    <3>1. ToInstall = {}
      BY <2>1 DEF ToInstall
    <3> QED
      BY <2>1, <3>1, PatchedFacts, HooksAreSites DEF HooksInv, Patched
  <2> QED
    BY <2>1, <2>2, <2>3 DEF Patches!Next, Patches!Run, Attached
<1> QED
  BY <1>1, <1>2, <1>3, <1>4, <1>5 DEF Load

(* How a title ends: Terminate and TearDown.                               *)
LEMMA EndImplements ==
  ASSUME IInv, TerminateTitle \/ TearDown
  PROVE  Patches!Next
<1> USE DEF IInv
<1>1. CASE TerminateTitle
  <2>1. Stage = "running" /\ Stage' = "ending" /\ UNCHANGED <<image, dll>>
    BY <1>1 DEF TerminateTitle, dllVars, Stage
  <2>2. Patched' \in {{}, Patched}
    <3>1. CASE registered
      <4>1. code' = [s \in Site |-> Unpatched(s)]
        BY <1>1, <3>1, ResetFacts DEF TerminateTitle
      <4> QED
        BY <4>1, ContentKinds DEF Patched, Unpatched
    <3>2. CASE ~registered
      BY <1>1, <3>2 DEF TerminateTitle, Patched
    <3> QED
      BY <3>1, <3>2
  <2> QED
    BY <2>1, <2>2 DEF Patches!Next, Patches!Terminate, Attached
<1>2. CASE TearDown
  <2>1. Stage = "ending" /\ Stage' = "off" /\ image' = NoExe /\ UNCHANGED dll
    BY <1>2 DEF TearDown, dllVars, Stage
  <2>2. Patched' = {}
    BY <1>2, ContentKinds DEF TearDown, Patched
  <2> QED
    BY <2>1, <2>2 DEF Patches!Next, Patches!TearDown, Attached
<1> QED
  BY <1>1, <1>2

(* DllMain: Attach, Detach or nothing.                                     *)
LEMMA AttachImplements ==
  ASSUME IInv, Attach
  PROVE  Patches!Next \/ UNCHANGED Mapped
<1> USE DEF IInv, Mapped
<1>1. CASE AttachUnsupported \/ AttachHardware
  <2>1. dll = "absent" /\ dll' \in {"inactive", "attaching"} /\ UNCHANGED <<image, phase, code>>
    BY <1>1 DEF AttachUnsupported, AttachHardware, titleVars
  <2>2. UNCHANGED Attached
    BY <2>1 DEF Attached
  <2> QED
    BY <2>1, <2>2 DEF Stage, Patched
<1>2. CASE AttachXenia
  <2>1. ~Attached /\ Attached' /\ UNCHANGED <<image, code>>
    BY <1>2 DEF AttachXenia, Attached
  <2>2. UNCHANGED Stage
    BY <1>2 DEF AttachXenia, BeginLoad, Stage
  <2> QED
    BY <2>1, <2>2 DEF Patches!Next, Patches!Attach, Attached, Patched
<1>3. CASE InstallLoaderHook
  BY <1>3 DEF InstallLoaderHook, titleVars, Patches!Next, Patches!Attach, Attached, Stage, Patched
<1> QED
  BY <1>1, <1>2, <1>3 DEF Attach

LEMMA DetachImplements ==
  ASSUME IInv, Detach
  PROVE  Patches!Next \/ UNCHANGED Mapped
<1> USE DEF IInv, Mapped
<1>1. CASE DetachBegin
  BY <1>1 DEF DetachBegin, titleVars, Patches!Next, Patches!Attach, Attached, Stage, Patched
<1>2. CASE DetachUnregister \/ DetachRemoveLoaderHook
  <2>1. /\ dll \in {"detaching", "unregistered"} /\ dll' \in {"unregistered", "unhooked"}
        /\ UNCHANGED <<image, phase, code>>
    BY <1>2 DEF DetachUnregister, DetachRemoveLoaderHook, titleVars
  <2>2. UNCHANGED Attached
    BY <2>1 DEF Attached
  <2> QED
    BY <2>1, <2>2 DEF Stage, Patched
<1>3. CASE DetachDeleteManager
  <2>1. /\ Attached /\ Attached' = FALSE /\ UNCHANGED <<image, phase>>
        /\ phase \notin {"mapped", "constructing"}
    BY <1>3 DEF DetachDeleteManager, titleVars, Attached, StagesInv, DllMainIdle
  <2>2. Stage # "loading" /\ UNCHANGED Stage
    BY <2>1, StageFacts DEF Stage
  <2>3. Patched' = {}
    <3>1. code' = [s \in Site |-> Unpatched(s)]
      BY <1>3, <2>1, ResetFacts DEF DetachDeleteManager
    <3> QED
      BY <3>1, ContentKinds DEF Patched, Unpatched
  <2> QED
    BY <2>1, <2>2, <2>3 DEF Patches!Next, Patches!Detach
<1> QED
  BY <1>1, <1>2, <1>3 DEF Detach

(* Hooks appear only while the title loads, a title runs with every hook   *)
(* of its plugin or with none, and hooks go all at once: the steps of      *)
(* XexpFinishExecutableLoad_Hook, DllMain and the detours implement it.    *)
THEOREM ImplementsPatches == Spec => ImplementsTitlePatches
<1>1. IInv /\ HooksInv /\ IInv' /\ [Next]_vars => [Patches!Next]_Mapped
  <2> SUFFICES ASSUME IInv, HooksInv, IInv', [Next]_vars
               PROVE  Patches!Next \/ UNCHANGED Mapped
    OBVIOUS
  <2>1. CASE UNCHANGED vars
    BY <2>1 DEF vars, dllVars, titleVars, Mapped, Attached, Stage, Patched
  <2> QED
    BY <2>1, LoadImplements, EndImplements, AttachImplements, DetachImplements DEF Next
<1>2. Spec => []HooksInv
  BY InitHooks, NextHooks, InductiveInvariant, PTL DEF Spec
<1>3. [Patches!Next]_Mapped => [Patches!Next]_(Patches!vars)
  BY DEF Mapped, Patches!vars
<1> QED
  BY <1>1, <1>2, <1>3, InitImplements, InductiveInvariant, PTL
     DEF Spec, ImplementsTitlePatches, Patches!Spec

-----------------------------------------------------------------------------
(* The buffer.  Nothing in Install asks whether a trampoline still fits, so *)
(* this rests on the titles: used[b][i] units are taken once the loader's   *)
(* hook and the first i hooks of title b are in place, and that fits.       *)
HooksFit(used) ==
  /\ used \in [Builds -> [Nat -> 0..PoolUnits]]
  /\ TrampolineUnits(LoaderRelative) <= PoolUnits
  /\ \A b \in Builds :
       /\ used[b][0] = TrampolineUnits(LoaderRelative)
       /\ \A i \in 1..Len(Hooks[b]) :
            used[b][i] = used[b][i - 1] + TrampolineUnits(Relative[b][Hooks[b][i]])

Done == Len(Hooks[image]) - Len(todo)

(* A construction begins at the baseline, whatever ran before, and installs *)
(* each hook of its title once.                                            *)
PoolInv(used) ==
  /\ baseline <= TrampolineUnits(LoaderRelative)
  /\ poolUsed <= PoolUnits
  /\ phase = "constructing" =>
       /\ Len(todo) <= Len(Hooks[image])
       /\ \A i \in 1..Len(todo) : todo[i] = Hooks[image][Done + i]
       /\ poolUsed <= used[image][Done]

LEMMA ResetPool ==
  ASSUME NEW used, HooksFit(used), IInv, PoolInv(used), ResetCurrentPlugin, phase # "constructing",
         UNCHANGED baseline
  PROVE  poolUsed' = baseline /\ poolUsed' <= PoolUnits
<1>1. poolUsed' = baseline
  BY ResetFacts
<1> QED
  BY <1>1, ConstantsAssumption DEF IInv, TypeOK, HooksFit, PoolInv, TrampolineUnits

(* The first step of a construction: nothing is installed of the title.    *)
LEMMA BeginPool ==
  ASSUME NEW used, HooksFit(used), NEW otherwise, otherwise # "constructing",
         BeginLoad(otherwise), image' = image,
         poolUsed' \in Nat, poolUsed' <= TrampolineUnits(LoaderRelative),
         baseline' \in Nat, baseline' <= TrampolineUnits(LoaderRelative)
  PROVE  PoolInv(used)'
<1> USE ConstantsAssumption DEF HooksFit, TrampolineUnits
<1>1. poolUsed' <= PoolUnits
  OBVIOUS
<1>2. CASE image \in Builds /\ todo' = Hooks[image] /\ phase' = "constructing"
  <2>1. Hooks[image] \in Seq(Site) /\ Done' = 0
    BY <1>2 DEF Done
  <2>2. \A i \in 1..Len(todo') : todo'[i] = Hooks[image'][Done' + i]
    BY <1>2, <2>1
  <2>3. Len(todo') <= Len(Hooks[image']) /\ image' \in Builds
    BY <1>2, <2>1
  <2>4. poolUsed' <= used[image'][Done']
    BY <1>2, <2>1, <2>3
  <2> QED
    BY <1>1, <2>2, <2>3, <2>4 DEF PoolInv
<1>3. CASE phase' = otherwise
  BY <1>1, <1>3 DEF PoolInv
<1> QED
  BY <1>2, <1>3 DEF BeginLoad

(* Install takes the units of the hook that comes next.                    *)
LEMMA InstallPool ==
  ASSUME NEW used, HooksFit(used), IInv, PoolInv(used), InstallNext
  PROVE  PoolInv(used)'
<1> DEFINE site == Head(todo)
           n == Len(Hooks[image])
<1>1. /\ image \in Builds /\ image' = image /\ phase = "constructing" /\ phase' = phase
      /\ UNCHANGED baseline /\ todo' = Tail(todo)
      /\ poolUsed' = poolUsed + TrampolineUnits(RelativeIn(code[site], site))
  BY DEF InstallNext, Install, WriteTrampoline, titleVars, IInv, StagesInv
<1>2. /\ Hooks[image] \in Seq(Site) /\ n \in Nat
      /\ todo \in Seq(Site) /\ Len(todo) \in 1..n /\ site = todo[1] /\ site \in Site
      /\ todo' \in Seq(Site) /\ Len(todo') = Len(todo) - 1
      /\ \A i \in 1..Len(todo') : todo'[i] = todo[i + 1]
  <2>1. todo \in Seq(Site) /\ todo # <<>>
    BY DEF InstallNext, IInv, TypeOK
  <2>2. Len(todo) <= n /\ Hooks[image] \in Seq(Site)
    BY <1>1, ConstantsAssumption DEF PoolInv
  <2> QED
    BY <1>1, <2>1, <2>2
<1>3. code[site] = Prologue(image)
  BY <1>1, <1>2 DEF IInv, TodoInv, CodeInv, StagesInv, Installed
<1>4. RelativeIn(code[site], site) = Relative[image][site]
  BY <1>3 DEF RelativeIn, Prologue
<1>5. Done \in 0..(n - 1) /\ Done' = Done + 1 /\ Done' \in 1..n
  BY <1>1, <1>2 DEF Done
<1>6. site = Hooks[image][Done']
  BY <1>1, <1>2, <1>5 DEF PoolInv
<1>7. /\ used[image][Done'] = used[image][Done] + TrampolineUnits(Relative[image][site])
      /\ used[image][Done] \in 0..PoolUnits /\ used[image][Done'] \in 0..PoolUnits
  <2>1. used[image] \in [Nat -> 0..PoolUnits]
    BY <1>1 DEF HooksFit
  <2>2. Done' - 1 = Done
    BY <1>5
  <2>3. used[image][Done']
          = used[image][Done' - 1] + TrampolineUnits(Relative[image][Hooks[image][Done']])
    BY <1>1, <1>5 DEF HooksFit
  <2>4. used[image][Done] \in 0..PoolUnits /\ used[image][Done'] \in 0..PoolUnits
    <3>1. Done \in Nat /\ Done' \in Nat
      BY <1>2, <1>5
    <3> QED
      BY <2>1, <3>1
  <2> QED
    BY <2>2, <2>3, <2>4, <1>6
<1>8. TrampolineUnits(Relative[image][site]) \in Nat /\ poolUsed \in Nat
  <2>1. Relative[image][site] \in 0..4
    BY <1>1, <1>2, ConstantsAssumption DEF Exe
  <2> QED
    BY <2>1 DEF TrampolineUnits, IInv, TypeOK
<1>9. poolUsed' <= used[image][Done'] /\ poolUsed' <= PoolUnits
  BY <1>1, <1>4, <1>7, <1>8, ConstantsAssumption DEF PoolInv
<1>10. \A i \in 1..Len(todo') : todo'[i] = Hooks[image][Done' + i]
  <2> SUFFICES ASSUME NEW i \in 1..Len(todo') PROVE todo'[i] = Hooks[image][Done' + i]
    OBVIOUS
  <2>1. todo'[i] = todo[i + 1] /\ i + 1 \in 1..Len(todo) /\ Done + (i + 1) = Done' + i
    BY <1>2, <1>5
  <2> QED
    BY <1>1, <2>1 DEF PoolInv
<1> HIDE DEF site
<1> QED
  BY <1>1, <1>2, <1>9, <1>10 DEF PoolInv

LEMMA PoolStep ==
  ASSUME NEW used, HooksFit(used), IInv, PoolInv(used), [Next]_vars
  PROVE  PoolInv(used)'
<1> USE ConstantsAssumption
<1>1. CASE FinishLoadHooked
  <2>1. poolUsed' = baseline /\ baseline \in Nat
    BY <1>1, ResetPool DEF FinishLoadHooked, IInv, TypeOK
  <2> QED
    BY <1>1, <2>1, BeginPool DEF FinishLoadHooked, PoolInv
<1>2. CASE AttachXenia
  BY <1>2, BeginPool DEF AttachXenia, FreshStatics, TrampolineUnits
<1>3. CASE InstallNext
  BY <1>3, InstallPool
<1>4. CASE TerminateTitle \/ DetachDeleteManager
  <2>1. (UNCHANGED poolUsed \/ ResetCurrentPlugin) /\ UNCHANGED baseline
    BY <1>4 DEF TerminateTitle, DetachDeleteManager
  <2>2. phase # "constructing" /\ phase' # "constructing"
    BY <1>4 DEF TerminateTitle, DetachDeleteManager, titleVars, IInv, StagesInv, DllMainIdle
  <2> QED
    BY <2>1, <2>2, ResetPool DEF PoolInv
<1>5. CASE AttachUnsupported \/ AttachHardware
  BY <1>5 DEF AttachUnsupported, AttachHardware, FreshStatics, LoaderIdle, titleVars, PoolInv,
     TrampolineUnits
<1>6. CASE InstallLoaderHook
  <2>1. poolUsed = 0 /\ phase # "constructing"
    BY <1>6 DEF InstallLoaderHook, IInv, DllInv, StagesInv, DllMainIdle
  <2> QED
    BY <1>6, <2>1 DEF InstallLoaderHook, WriteTrampoline, titleVars, PoolInv, HooksFit,
       TrampolineUnits
<1>7. CASE (\E e \in Exe : MapImage(e)) \/ FinishLoadUnhooked \/ PluginReady \/ TearDown
  BY <1>7 DEF MapImage, FinishLoadUnhooked, PluginReady, TearDown, managerVars, poolVars, PoolInv
<1>8. CASE DetachBegin \/ DetachUnregister \/ DetachRemoveLoaderHook \/ UNCHANGED vars
  BY <1>8 DEF DetachBegin, DetachUnregister, DetachRemoveLoaderHook, vars, managerVars, poolVars,
     titleVars, PoolInv, Done
<1> QED
  BY <1>1, <1>2, <1>3, <1>4, <1>5, <1>6, <1>7, <1>8 DEF Next, Load, Attach, Detach

(* When the hooks of every single title fit the buffer next to the loader's,  *)
(* no sequence of titles, terminations and attachments outgrows it: what a    *)
(* title's plugin took is given back (plugin_manager.cpp:213).                *)
THEOREM PoolHolds ==
  ASSUME NEW used, HooksFit(used)
  PROVE  Spec => []PoolWithinBuffer
<1>1. Init => PoolInv(used)
  BY ConstantsAssumption DEF Init, PoolInv, HooksFit, TrampolineUnits
<1>2. IInv /\ PoolInv(used) /\ [Next]_vars => PoolInv(used)'
  BY PoolStep
<1>3. PoolInv(used) => PoolWithinBuffer
  BY DEF PoolInv, PoolWithinBuffer
<1> QED
  BY <1>1, <1>2, <1>3, InductiveInvariant, PTL DEF Spec
=============================================================================
