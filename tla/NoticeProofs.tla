----------------------------- MODULE NoticeProofs -----------------------------
(***************************************************************************)
(* Proofs about popups and the keyboard.  StartupNotice: where the DLL     *)
(* hears of titles that terminate, a popup is shown once, to the run of    *)
(* the title it was made for, and the startup popup not before its delay.  *)
(* The slots: a popup shows the message it was made for.  ConsoleInput:    *)
(* what the console and the game think of the keys follows the keyboard.   *)
(* ConsoleLine: the buffer, its cursor and the ring of the history are the *)
(* editor that LineEditor describes.                                       *)
(***************************************************************************)
EXTENDS StartupNotice, ConsoleLine, FiniteSetTheorems, SequenceTheorems, WellFoundedInduction, TLAPS

WorkerPc == {"loop", "readTitle", "readGeneration", "observe", "create", "wait", "sleep", "exit"}
DispPc   == {"none", "checkStopping", "checkGeneration", "checkTitle", "queue", "markQueued",
             "ended"}
ShutPc   == {"idle", "setEvent", "join", "readTitle", "create", "wait", "done"}
Kind     == {"startup", "unloaded"}
IDs      == Title \cup {NoTitle}

NoticeRecords ==
  /\ titleId \in IDs
  /\ titleState \in {"off", "loading", "running", "dying"}
  /\ instance \in Nat /\ generation \in Nat
  /\ stopping \in BOOLEAN /\ stopEvent \in BOOLEAN
  /\ delay \in [id : IDs, gen : Nat, elapsed : 0..DelayPolls, immediate : BOOLEAN]
  /\ worker \in [pc : WorkerPc, id : IDs, gen : Nat, of : Nat]
  /\ disp \in [pc : DispPc, kind : Kind, id : IDs, gen : Nat, of : Nat, queued : BOOLEAN]
  /\ shut \in [pc : ShutPc, id : IDs, gen : Nat, of : Nat]
  /\ seenOff \in BOOLEAN /\ unseen \in BOOLEAN
  /\ dyingPolls \in Nat /\ upPolls \in 0..(DelayPolls + 1)
  /\ \A p \in shown : p.to \in Nat /\ p.of \in Nat /\ p.polls \in Nat

(* Every title that ended was counted, so the generation tells the runs of *)
(* one title apart; what the worker remembers is never ahead of it.        *)
Generations ==
  /\ instance = IF titleState \in {"loading", "running"} THEN generation + 1 ELSE generation
  /\ delay.gen <= generation
  /\ worker.gen <= generation
  /\ worker.of <= instance

(* Who waits for the dispatcher.                                           *)
Waiting ==
  /\ worker.pc = "wait" <=> disp.kind = "startup" /\ disp.pc # "none"
  /\ shut.pc = "wait" <=> disp.kind = "unloaded"
  /\ disp.kind = "unloaded" => disp.pc # "none"
  /\ shut.pc \in {"readTitle", "create", "wait", "done"} => worker.pc = "exit"
  /\ disp.pc \notin {"none", "ended"} => titleState # "off"
  /\ disp.queued => disp.pc = "ended"

(* The delay that runs.                                                    *)
Counting ==
  /\ worker.pc \notin {"create", "wait", "exit"} => delay.elapsed < DelayPolls
  /\ delay.immediate => delay.elapsed = 0

(* A title that is going never has a delay of its own run out.             *)
Delaying ==
  titleState = "dying" /\ delay.id # NoTitle /\ delay.gen = generation
    => ~delay.immediate /\ delay.elapsed < dyingPolls

(* The run of the title that a dispatcher is made for is over, or its      *)
(* generation is the one before the end of that run.                       *)
MadeFor ==
  /\ worker.pc \in {"create", "wait"} => worker.gen < worker.of
  /\ worker.pc = "wait" => disp.gen = worker.gen /\ disp.of = worker.of
  /\ shut.pc = "create" => shut.of = instance
  /\ disp.kind = "unloaded" => disp.of = instance
  /\ disp.pc \in {"checkTitle", "queue"} => disp.of = instance

(* A popup is queued once: afterwards its dispatcher is on its way to say  *)
(* so, or the worker has heard it, or the run of the title is over.        *)
QueuedOnce ==
  \A p \in shown :
    /\ p.to <= instance /\ p.to = p.of /\ ~p.again
    /\ p.kind = "startup" /\ p.to = instance /\ titleState # "off"
         => \/ worker.pc = "exit"
            \/ worker.pc = "wait" /\ (disp.pc = "markQueued" \/ disp.queued)
    /\ p.kind = "unloaded"
         => \/ shut.pc = "done"
            \/ shut.pc = "wait" /\ disp.pc \in {"markQueued", "ended"}

(* The delay is never ahead of the polls that found this run of the title, *)
(* as long as the worker has seen every time between two titles.           *)
PolledEnough ==
  /\ seenOff /\ titleState \in {"off", "loading"} => delay.id = NoTitle
  /\ ~unseen =>
       /\ worker.pc # "exit" /\ titleState = "running"
            /\ delay.id # NoTitle /\ delay.gen = generation
          => /\ delay.elapsed + 1 <= upPolls
             /\ delay.immediate => upPolls = DelayPolls + 1
       /\ worker.pc \in {"create", "wait"} /\ worker.gen = generation => upPolls >= DelayPolls
       /\ disp.kind = "startup" /\ disp.pc \in {"checkTitle", "queue"} => upPolls >= DelayPolls
       /\ \A p \in shown : p.kind = "startup" => p.polls >= DelayPolls

(* What holds of the threads, and what the generation makes true besides.  *)
ThreadInv == NoticeRecords /\ Waiting /\ Counting
RunInv    == Generations /\ Delaying /\ MadeFor /\ QueuedOnce /\ PolledEnough
NoticeInv == ThreadInv /\ RunInv

USE StartupNoticeAssumption
    DEF StartupNoticeAssumption, WorkerPc, DispPc, ShutPc, Kind, IDs, titleVars, stopVars, timeVars,
        WorkerAt, ShutAt, Goto, CreateDispatcher, NoDispatcher, IsTitleRunning

-----------------------------------------------------------------------------
(* The threads, wherever the plugin is active. *)

LEMMA DispatcherFields ==
  ASSUME NoticeRecords
  PROVE  /\ disp.pc \in DispPc /\ disp.kind \in Kind /\ disp.id \in IDs /\ disp.gen \in Nat
         /\ disp.of \in Nat /\ disp.queued \in BOOLEAN
         /\ \A pc \in DispPc, queued \in BOOLEAN :
              [disp EXCEPT !.pc = pc, !.queued = queued]
                \in [pc : DispPc, kind : Kind, id : IDs, gen : Nat, of : Nat, queued : BOOLEAN]
BY DEF NoticeRecords

LEMMA ObserveTypes ==
  ASSUME ThreadInv, worker.pc = "observe", NEW running \in BOOLEAN
  PROVE  Observe(worker.id, worker.gen, running)
           \in [id : IDs, gen : Nat, elapsed : 0..DelayPolls, immediate : BOOLEAN]
<1>1. /\ delay.elapsed + 1 \in 0..DelayPolls
      /\ delay.id \in IDs /\ delay.gen \in Nat /\ delay.elapsed \in 0..DelayPolls
      /\ delay.immediate \in BOOLEAN
      /\ worker.id \in IDs /\ worker.gen \in Nat
  BY DEF ThreadInv, NoticeRecords, Counting
<1> DEFINE T == [id : IDs, gen : Nat, elapsed : 0..DelayPolls, immediate : BOOLEAN]
<1>2. delay \in T /\ delay = [id |-> delay.id, gen |-> delay.gen, elapsed |-> delay.elapsed,
                                immediate |-> delay.immediate]
  BY DEF ThreadInv, NoticeRecords
<1>3. [delay EXCEPT !.elapsed = delay.elapsed + 1] \in T
  BY <1>1, <1>2
<1>4. [delay EXCEPT !.immediate = FALSE] \in T
  BY <1>2
<1>5. \A e : e = [delay EXCEPT !.id = NoTitle, !.elapsed = 0, !.immediate = FALSE] => e \in T
  <2> SUFFICES ASSUME NEW e, e = [delay EXCEPT !.id = NoTitle, !.elapsed = 0, !.immediate = FALSE]
               PROVE  e \in T
    OBVIOUS
  <2>1. /\ e.id = NoTitle /\ e.gen = delay.gen /\ e.elapsed = 0 /\ e.immediate = FALSE
        /\ DOMAIN e = DOMAIN delay
    BY <1>2
  <2>2. 0 \in 0..DelayPolls
    OBVIOUS
  <2> QED
    BY <1>1, <1>2, <2>1, <2>2
<1>6. [id |-> worker.id, gen |-> worker.gen, elapsed |-> 0, immediate |-> FALSE] \in T
  BY <1>1
<1> DEFINE d == [delay EXCEPT !.id = NoTitle, !.elapsed = 0, !.immediate = FALSE]
<1>7. d \in T
  BY <1>5
<1> HIDE DEF T, d
<1>8. \/ Observe(worker.id, worker.gen, running) = d
      \/ Observe(worker.id, worker.gen, running) = [delay EXCEPT !.elapsed = delay.elapsed + 1]
      \/ Observe(worker.id, worker.gen, running) = [delay EXCEPT !.immediate = FALSE]
      \/ Observe(worker.id, worker.gen, running)
           = [id |-> worker.id, gen |-> worker.gen, elapsed |-> 0, immediate |-> FALSE]
  BY DEF Observe, d
<1>9. Observe(worker.id, worker.gen, running) \in T
  BY <1>3, <1>4, <1>6, <1>7, <1>8
<1> QED
  BY <1>9 DEF T

LEMMA ThreadInvKept ==
  ASSUME ThreadInv, [Next]_vars
  PROVE  ThreadInv'
<1> USE DEF ThreadInv, NoticeRecords, Waiting, Counting
<1>1. CASE UNCHANGED vars
  BY <1>1 DEF vars
<1>2. ASSUME Console
      PROVE  ThreadInv'
  <2>1. ASSUME NEW t \in Title, Launch(t)
        PROVE  ThreadInv'
    BY <2>1 DEF Launch
  <2>2. ASSUME TitleRuns
        PROVE  ThreadInv'
    BY <2>2 DEF TitleRuns
  <2>3. ASSUME Terminate
        PROVE  ThreadInv'
    BY <2>3 DEF Terminate
  <2>4. ASSUME TearDown
        PROVE  ThreadInv'
    <3>1. disp.pc \notin {"none", "ended"} => disp' = [disp EXCEPT !.pc = "ended"]
      BY <2>4 DEF TearDown
    <3>2. disp' \in [pc : DispPc, kind : Kind, id : IDs, gen : Nat, of : Nat, queued : BOOLEAN]
      BY <2>4, <3>1 DEF TearDown
    <3>3. /\ titleId' = NoTitle /\ titleState' = "off" /\ seenOff' = FALSE
          /\ UNCHANGED <<instance, generation, stopping, stopEvent, delay, worker, shut, dyingPolls,
                          upPolls, unseen, shown>>
      BY <2>4 DEF TearDown
    <3>4. disp'.kind = disp.kind /\ disp'.queued = disp.queued
          /\ disp'.pc = (IF disp.pc = "none" THEN "none" ELSE "ended")
      BY <2>4, <3>1 DEF TearDown
    <3>5. /\ delay' \in [id : IDs, gen : Nat, elapsed : 0..DelayPolls, immediate : BOOLEAN]
          /\ worker' \in [pc : WorkerPc, id : IDs, gen : Nat, of : Nat]
          /\ shut' \in [pc : ShutPc, id : IDs, gen : Nat, of : Nat]
      BY <3>3
    <3>6. NoticeRecords'
      BY <3>2, <3>3, <3>5
    <3>7. Waiting' /\ Counting'
      BY <2>4, <3>4 DEF TearDown
    <3> QED
      BY <3>6, <3>7
  <2> QED
    BY <1>2, <2>1, <2>2, <2>3, <2>4 DEF Console
<1>3. ASSUME Dispatcher
      PROVE  ThreadInv'
  <2>1. ASSUME CheckStopping
        PROVE  ThreadInv'
    BY <2>1 DEF CheckStopping
  <2>2. ASSUME CheckGeneration
        PROVE  ThreadInv'
    BY <2>2 DEF CheckGeneration
  <2>3. ASSUME CheckTitle
        PROVE  ThreadInv'
    BY <2>3 DEF CheckTitle
  <2>4. ASSUME QueuePopup
        PROVE  ThreadInv'
    BY <2>4 DEF QueuePopup
  <2>5. ASSUME MarkQueued
        PROVE  ThreadInv'
    <3>1. disp' \in [pc : DispPc, kind : Kind, id : IDs, gen : Nat, of : Nat, queued : BOOLEAN]
      BY <2>5, DispatcherFields DEF MarkQueued
    <3>2. disp'.pc = "ended" /\ disp'.kind = disp.kind
      BY <2>5 DEF MarkQueued
    <3> QED
      BY <2>5, <3>1, <3>2 DEF MarkQueued
  <2> QED
    BY <1>3, <2>1, <2>2, <2>3, <2>4, <2>5 DEF Dispatcher
<1>4. ASSUME Worker
      PROVE  ThreadInv'
  <2>1. ASSUME WorkerLoop
        PROVE  ThreadInv'
    BY <2>1 DEF WorkerLoop
  <2>2. ASSUME ReadTitle
        PROVE  ThreadInv'
    <3>1. worker' = [pc |-> "readGeneration", id |-> titleId, gen |-> worker.gen, of |-> worker.of]
      BY <2>2 DEF ReadTitle
    <3>2. worker.gen \in Nat /\ worker.of \in Nat
      OBVIOUS
    <3> QED
      BY <2>2, <3>1, <3>2 DEF ReadTitle
  <2>3. ASSUME ReadGeneration
        PROVE  ThreadInv'
    <3>1. worker' = [pc |-> "observe", id |-> worker.id, gen |-> generation, of |-> worker.of]
      BY <2>3 DEF ReadGeneration
    <3>2. worker.id \in IDs /\ worker.of \in Nat
      OBVIOUS
    <3> QED
      BY <2>3, <3>1, <3>2 DEF ReadGeneration
  <2>4. ASSUME ObserveTitle
        PROVE  ThreadInv'
    <3>1. delay' \in [id : IDs, gen : Nat, elapsed : 0..DelayPolls, immediate : BOOLEAN]
      BY <2>4, ObserveTypes, IsTitleRunning \in BOOLEAN DEF ObserveTitle
    <3>2. PICK pc \in {"create", "sleep"} :
            /\ worker' = [pc |-> pc, id |-> worker.id, gen |-> worker.gen, of |-> instance]
            /\ pc = "create" <=> Due(worker.id, worker.gen, IsTitleRunning)
      BY <2>4 DEF ObserveTitle
    <3>3. worker.id \in IDs /\ worker.gen \in Nat
      OBVIOUS
    <3>4. worker' \in [pc : WorkerPc, id : IDs, gen : Nat, of : Nat]
      BY <3>2, <3>3
    <3>5. Counting'
      BY <2>4, <3>2 DEF ObserveTitle, Observe, Due
    <3>6. dyingPolls' \in Nat /\ upPolls' \in 0..(DelayPolls + 1) /\ seenOff' \in BOOLEAN
      BY <2>4 DEF ObserveTitle
    <3> HIDE DEF Counting
    <3> QED
      BY <2>4, <3>1, <3>2, <3>4, <3>5, <3>6 DEF ObserveTitle
  <2>5. ASSUME Dispatch
        PROVE  ThreadInv'
    BY <2>5 DEF Dispatch
  <2>6. ASSUME DispatchFails
        PROVE  ThreadInv'
    BY <2>6 DEF DispatchFails
  <2>7. ASSUME DispatchReturns
        PROVE  ThreadInv'
    BY <2>7 DEF DispatchReturns
  <2>8. ASSUME WorkerSleep
        PROVE  ThreadInv'
    BY <2>8 DEF WorkerSleep
  <2> QED
    BY <1>4, <2>1, <2>2, <2>3, <2>4, <2>5, <2>6, <2>7, <2>8 DEF Worker, WorkerStep
<1>5. ASSUME Shutdown
      PROVE  ThreadInv'
  <2>1. ASSUME SetStopping
        PROVE  ThreadInv'
    BY <2>1 DEF SetStopping
  <2>2. ASSUME SetStopEvent
        PROVE  ThreadInv'
    BY <2>2 DEF SetStopEvent
  <2>3. ASSUME JoinWorker
        PROVE  ThreadInv'
    BY <2>3 DEF JoinWorker
  <2>4. ASSUME ShutReadTitle
        PROVE  ThreadInv'
    BY <2>4 DEF ShutReadTitle
  <2>5. ASSUME ShutDispatch
        PROVE  ThreadInv'
    <3>1. CASE UNCHANGED disp
      BY <2>5, <3>1 DEF ShutDispatch
    <3>2. CASE disp' = [pc |-> "checkStopping", kind |-> "unloaded", id |-> shut.id,
                        gen |-> generation, of |-> shut.of, queued |-> FALSE]
      <4>1. shut.id \in IDs /\ shut.of \in Nat
        OBVIOUS
      <4>2. disp' \in [pc : DispPc, kind : Kind, id : IDs, gen : Nat, of : Nat, queued : BOOLEAN]
        BY <3>2, <4>1
      <4> QED
        BY <2>5, <3>2, <4>2 DEF ShutDispatch
    <3> QED
      BY <2>5, <3>1, <3>2 DEF ShutDispatch
  <2>6. ASSUME ShutReturns
        PROVE  ThreadInv'
    BY <2>6 DEF ShutReturns
  <2> QED
    BY <1>5, <2>1, <2>2, <2>3, <2>4, <2>5, <2>6 DEF Shutdown
<1> QED
  BY <1>1, <1>2, <1>3, <1>4, <1>5 DEF Next

LEMMA ThreadInvariant == Spec => []ThreadInv
<1>1. Init => ThreadInv
  <2> SUFFICES ASSUME Init
               PROVE  ThreadInv
    OBVIOUS
  <2>1. delay \in [id : IDs, gen : Nat, elapsed : 0..DelayPolls, immediate : BOOLEAN]
    BY DEF Init, Begin
  <2>2. Counting
    BY DEF Init, Begin, Counting
  <2>3. Waiting
    BY DEF Init, Waiting
  <2>4. titleId \in IDs /\ titleState \in {"off", "loading", "running", "dying"} /\ instance \in Nat
    BY DEF Init
  <2>5. /\ worker \in [pc : WorkerPc, id : IDs, gen : Nat, of : Nat]
        /\ disp \in [pc : DispPc, kind : Kind, id : IDs, gen : Nat, of : Nat, queued : BOOLEAN]
        /\ shut \in [pc : ShutPc, id : IDs, gen : Nat, of : Nat]
    BY DEF Init
  <2>6. upPolls \in 0..(DelayPolls + 1)
    BY DEF Init
  <2> QED
    BY <2>1, <2>2, <2>3, <2>4, <2>5, <2>6 DEF Init, ThreadInv, NoticeRecords
<1>2. ThreadInv /\ [Next]_vars => ThreadInv'
  BY ThreadInvKept
<1> QED
  BY <1>1, <1>2, PTL DEF Spec

-----------------------------------------------------------------------------
(* The runs of titles, where their ends are heard of. *)

(* A new run has an instance of its own: no popup has gone to it, and what *)
(* the worker and the dispatcher remember is about earlier ones.           *)
LEMMA LaunchKeeps ==
  ASSUME Registered, NoticeInv, NEW t \in Title, Launch(t)
  PROVE  RunInv'
<1>1. Generations' /\ Delaying' /\ QueuedOnce'
  BY DEF Launch, NoticeInv, RunInv, ThreadInv, NoticeRecords, Generations, Delaying, QueuedOnce
<1>2. MadeFor'
  BY DEF Launch, NoticeInv, RunInv, ThreadInv, MadeFor, Waiting
<1>3. PolledEnough'
  BY DEF Launch, NoticeInv, RunInv, ThreadInv, NoticeRecords, PolledEnough, Generations,
     Waiting, MadeFor
<1> QED
  BY <1>1, <1>2, <1>3 DEF RunInv

(* Either the worker has been there since the last title ended, and counts *)
(* from here, or it has missed the change.                                 *)
LEMMA TitleRunsKeeps ==
  ASSUME Registered, NoticeInv, TitleRuns
  PROVE  RunInv'
<1>1. Generations' /\ Delaying' /\ MadeFor' /\ QueuedOnce'
  BY DEF TitleRuns, NoticeInv, RunInv, Generations, Delaying, MadeFor, QueuedOnce
<1>2. PolledEnough'
  BY DEF TitleRuns, NoticeInv, RunInv, ThreadInv, NoticeRecords, PolledEnough, MadeFor, Waiting,
     Generations
<1> QED
  BY <1>1, <1>2 DEF RunInv

(* The generation moves on, past everything the worker remembers.          *)
LEMMA TerminateKeeps ==
  ASSUME Registered, NoticeInv, Terminate
  PROVE  RunInv'
<1>1. Generations' /\ MadeFor' /\ QueuedOnce'
  BY DEF Terminate, NoticeInv, RunInv, ThreadInv, NoticeRecords, Generations, MadeFor,
     QueuedOnce
<1>2. Delaying'
  BY DEF Terminate, NoticeInv, RunInv, ThreadInv, NoticeRecords, Delaying, Generations
<1>3. PolledEnough'
  BY DEF Terminate, NoticeInv, RunInv, ThreadInv, NoticeRecords, PolledEnough, Generations
<1> QED
  BY <1>1, <1>2, <1>3 DEF RunInv

(* The dispatcher goes with its title; the detach waits on.                *)
LEMMA TearDownKeeps ==
  ASSUME Registered, NoticeInv, TearDown
  PROVE  RunInv'
BY DEF TearDown, NoticeInv, RunInv, Generations, Delaying, MadeFor, QueuedOnce, PolledEnough

LEMMA CheckStoppingKeeps ==
  ASSUME Registered, NoticeInv, CheckStopping
  PROVE  RunInv'
BY DEF CheckStopping, NoticeInv, RunInv, Generations, Delaying, MadeFor, QueuedOnce,
   PolledEnough

(* The generation is that of the dispatcher: the run of the title that it  *)
(* was made for has not ended.                                             *)
LEMMA CheckGenerationKeeps ==
  ASSUME Registered, NoticeInv, CheckGeneration
  PROVE  RunInv'
<1>1. Generations' /\ Delaying' /\ QueuedOnce'
  BY DEF CheckGeneration, NoticeInv, RunInv, Generations, Delaying, QueuedOnce
<1>2. MadeFor'
  BY DEF CheckGeneration, NoticeInv, RunInv, ThreadInv, NoticeRecords, MadeFor, Generations,
     Waiting
<1>3. PolledEnough'
  BY DEF CheckGeneration, NoticeInv, RunInv, ThreadInv, PolledEnough, Waiting, MadeFor
<1> QED
  BY <1>1, <1>2, <1>3 DEF RunInv

LEMMA CheckTitleKeeps ==
  ASSUME Registered, NoticeInv, CheckTitle
  PROVE  RunInv'
BY DEF CheckTitle, NoticeInv, RunInv, Generations, Delaying, MadeFor, QueuedOnce, PolledEnough

(* No popup of this kind can have gone to this run: its dispatcher would   *)
(* have been the last one.                                                 *)
LEMMA QueuePopupKeeps ==
  ASSUME Registered, NoticeInv, QueuePopup
  PROVE  RunInv'
<1>1. Generations' /\ Delaying' /\ MadeFor' /\ PolledEnough'
  BY DEF QueuePopup, NoticeInv, RunInv, Generations, Delaying, MadeFor, PolledEnough
<1>2. QueuedOnce'
  BY DEF QueuePopup, NoticeInv, RunInv, ThreadInv, NoticeRecords, QueuedOnce, Waiting, MadeFor
<1> QED
  BY <1>1, <1>2 DEF RunInv

LEMMA MarkQueuedKeeps ==
  ASSUME Registered, NoticeInv, MarkQueued
  PROVE  RunInv'
BY DEF MarkQueued, NoticeInv, RunInv, Generations, Delaying, MadeFor, QueuedOnce, PolledEnough

LEMMA WorkerLoopKeeps ==
  ASSUME Registered, NoticeInv, WorkerLoop
  PROVE  RunInv'
BY DEF WorkerLoop, NoticeInv, RunInv, Generations, Delaying, MadeFor, QueuedOnce, PolledEnough

LEMMA ReadTitleKeeps ==
  ASSUME Registered, NoticeInv, ReadTitle
  PROVE  RunInv'
BY DEF ReadTitle, NoticeInv, RunInv, Generations, Delaying, MadeFor, QueuedOnce, PolledEnough

LEMMA ReadGenerationKeeps ==
  ASSUME Registered, NoticeInv, ReadGeneration
  PROVE  RunInv'
BY DEF ReadGeneration, NoticeInv, RunInv, ThreadInv, NoticeRecords, Generations, Delaying,
   MadeFor, QueuedOnce, PolledEnough

(* A title that is going is polled too seldom for its delay to run out, so *)
(* a delay that is over belongs to a run that has not ended, or to an      *)
(* earlier generation.                                                     *)
LEMMA ObserveTitleKeeps ==
  ASSUME Registered, NoticeInv, ObserveTitle
  PROVE  RunInv'
<1>1. Generations' /\ QueuedOnce'
  BY DEF ObserveTitle, Observe, Due, NoticeInv, RunInv, ThreadInv, NoticeRecords, Generations,
     QueuedOnce
<1>2. Delaying'
  BY DEF ObserveTitle, Observe, Due, NoticeInv, RunInv, ThreadInv, NoticeRecords, Delaying,
     Counting
<1>3. MadeFor'
  BY DEF ObserveTitle, Observe, Due, NoticeInv, RunInv, ThreadInv, NoticeRecords, MadeFor,
     Generations, Delaying, Counting
<1>4. PolledEnough'
  BY DEF ObserveTitle, Observe, Due, NoticeInv, RunInv, ThreadInv, NoticeRecords, PolledEnough,
     Delaying, Counting
<1> QED
  BY <1>1, <1>2, <1>3, <1>4 DEF RunInv

(* The worker waits, so it has not heard of a popup in this run.           *)
LEMMA DispatchKeeps ==
  ASSUME Registered, NoticeInv, Dispatch
  PROVE  RunInv'
<1>1. Generations' /\ Delaying' /\ MadeFor' /\ PolledEnough'
  BY DEF Dispatch, NoticeInv, RunInv, Generations, Delaying, MadeFor, PolledEnough
<1>2. QueuedOnce'
  BY DEF Dispatch, NoticeInv, RunInv, ThreadInv, QueuedOnce, Waiting
<1> QED
  BY <1>1, <1>2 DEF RunInv

LEMMA DispatchFailsKeeps ==
  ASSUME Registered, NoticeInv, DispatchFails
  PROVE  RunInv'
BY DEF DispatchFails, NoticeInv, RunInv, ThreadInv, NoticeRecords, Generations, Delaying,
   MadeFor, QueuedOnce, PolledEnough

(* Without a popup the worker goes on, and none has gone to this run.      *)
LEMMA DispatchReturnsKeeps ==
  ASSUME Registered, NoticeInv, DispatchReturns
  PROVE  RunInv'
<1>1. Generations' /\ Delaying' /\ MadeFor' /\ PolledEnough'
  BY DEF DispatchReturns, NoticeInv, RunInv, ThreadInv, NoticeRecords, Generations, Delaying,
     MadeFor, PolledEnough
<1>2. QueuedOnce'
  BY DEF DispatchReturns, NoticeInv, RunInv, ThreadInv, NoticeRecords, QueuedOnce, Waiting
<1> QED
  BY <1>1, <1>2 DEF RunInv

LEMMA WorkerSleepKeeps ==
  ASSUME Registered, NoticeInv, WorkerSleep
  PROVE  RunInv'
BY DEF WorkerSleep, NoticeInv, RunInv, Generations, Delaying, MadeFor, QueuedOnce, PolledEnough

LEMMA SetStoppingKeeps ==
  ASSUME Registered, NoticeInv, SetStopping
  PROVE  RunInv'
BY DEF SetStopping, NoticeInv, RunInv, Generations, Delaying, MadeFor, QueuedOnce, PolledEnough

LEMMA SetStopEventKeeps ==
  ASSUME Registered, NoticeInv, SetStopEvent
  PROVE  RunInv'
BY DEF SetStopEvent, NoticeInv, RunInv, Generations, Delaying, MadeFor, QueuedOnce, PolledEnough

LEMMA JoinWorkerKeeps ==
  ASSUME Registered, NoticeInv, JoinWorker
  PROVE  RunInv'
BY DEF JoinWorker, NoticeInv, RunInv, Generations, Delaying, MadeFor, QueuedOnce, PolledEnough

LEMMA ShutReadTitleKeeps ==
  ASSUME Registered, NoticeInv, ShutReadTitle
  PROVE  RunInv'
BY DEF ShutReadTitle, NoticeInv, RunInv, Generations, Delaying, MadeFor, QueuedOnce,
   PolledEnough

(* No title can have been launched since the detach read the title ID.     *)
LEMMA ShutDispatchKeeps ==
  ASSUME Registered, NoticeInv, ShutDispatch
  PROVE  RunInv'
<1>1. Generations' /\ Delaying' /\ PolledEnough'
  BY DEF ShutDispatch, NoticeInv, RunInv, Generations, Delaying, PolledEnough
<1>2. MadeFor'
  BY DEF ShutDispatch, NoticeInv, RunInv, ThreadInv, NoticeRecords, MadeFor, Waiting
<1>3. QueuedOnce'
  BY DEF ShutDispatch, NoticeInv, RunInv, ThreadInv, QueuedOnce, Waiting
<1> QED
  BY <1>1, <1>2, <1>3 DEF RunInv

LEMMA ShutReturnsKeeps ==
  ASSUME Registered, NoticeInv, ShutReturns
  PROVE  RunInv'
<1>1. Generations' /\ Delaying' /\ PolledEnough'
  BY DEF ShutReturns, NoticeInv, RunInv, Generations, Delaying, PolledEnough
<1>2. MadeFor'
  BY DEF ShutReturns, NoticeInv, RunInv, ThreadInv, MadeFor, Waiting
<1>3. QueuedOnce'
  BY DEF ShutReturns, NoticeInv, RunInv, ThreadInv, QueuedOnce, Waiting
<1> QED
  BY <1>1, <1>2, <1>3 DEF RunInv

LEMMA RunStep ==
  ASSUME Registered, NoticeInv, [Next]_vars
  PROVE  RunInv'
<1>1. CASE UNCHANGED vars
  BY <1>1 DEF vars, NoticeInv, RunInv, Generations, Delaying, MadeFor, QueuedOnce, PolledEnough
<1>2. CASE Console
  BY <1>2, LaunchKeeps, TitleRunsKeeps, TerminateKeeps, TearDownKeeps DEF Console
<1>3. CASE Dispatcher
  BY <1>3, CheckStoppingKeeps, CheckGenerationKeeps, CheckTitleKeeps, QueuePopupKeeps,
     MarkQueuedKeeps DEF Dispatcher
<1>4. CASE Worker
  BY <1>4, WorkerLoopKeeps, ReadTitleKeeps, ReadGenerationKeeps, ObserveTitleKeeps, DispatchKeeps,
     DispatchFailsKeeps, DispatchReturnsKeeps, WorkerSleepKeeps DEF Worker, WorkerStep
<1>5. CASE Shutdown
  BY <1>5, SetStoppingKeeps, SetStopEventKeeps, JoinWorkerKeeps, ShutReadTitleKeeps,
     ShutDispatchKeeps, ShutReturnsKeeps DEF Shutdown
<1> QED
  BY <1>1, <1>2, <1>3, <1>4, <1>5 DEF Next

LEMMA NoticeInvariant ==
  ASSUME Registered
  PROVE  Spec => []NoticeInv
<1>1. Init => RunInv
  BY DEF Init, Begin, RunInv, Generations, Delaying, MadeFor, QueuedOnce, PolledEnough
<1>2. ThreadInv /\ RunInv /\ [Next]_vars => RunInv'
  BY RunStep DEF NoticeInv
<1> QED
  BY <1>1, <1>2, ThreadInvariant, PTL DEF Spec, NoticeInv

(* Where title termination is heard of, for any titles, delay and number   *)
(* of launches: a popup is shown once, in the run of the title that it was *)
(* made for, and the startup popup not before its delay.                   *)
THEOREM PopupsInTheirTime ==
  ASSUME Registered
  PROVE  Spec => []PopupInItsTime
<1>1. NoticeInv => PopupInItsTime
  BY DEF NoticeInv, RunInv, QueuedOnce, PolledEnough, PopupInItsTime, PopupReachesItsInstance,
     DelayRespected
<1> QED
  BY <1>1, NoticeInvariant, PTL

(* A dispatcher, which reads the stack of its creator, lives only while    *)
(* the creator waits for it, even where the plugin stays inactive.         *)
THEOREM DispatchersAreWaitedFor == Spec => []DispatcherHasWaiter
<1>1. ThreadInv => DispatcherHasWaiter
  BY DEF ThreadInv, NoticeRecords, Waiting, DispatcherHasWaiter, TypeOK
<1> QED
  BY <1>1, ThreadInvariant, PTL
-----------------------------------------------------------------------------
(* The slots of popups. *)

Owns(c, s) == caller[c].pc \in Working /\ caller[c].slot = s

CallerRecords ==
  {Idle} \cup [pc : {"claim"}, message : Messages, tried : SUBSET Slots]
         \cup [pc : Working, message : Messages, slot : Slots]
ThreadRecords == {NoThread} \cup [pc : {"sleep", "queue", "release"}, message : Messages]

SlotsRecords ==
  /\ ended \in BOOLEAN
  /\ inUse \in [Slots -> {0, 1}]
  /\ displayText \in [Slots -> Messages \union {NoMessage}]
  /\ caller \in [Callers -> CallerRecords]
  /\ thread \in [Slots -> ThreadRecords]

(* A slot is owned by one caller, by a thread, or by nobody; after the end *)
(* of a title it may be in use without an owner, and is never claimed.      *)
Ownership ==
  /\ \A s \in Slots, c, d \in Callers : Owns(c, s) /\ Owns(d, s) => c = d
  /\ \A s \in Slots, c \in Callers : Owns(c, s) => inUse[s] = 1 /\ thread[s].pc = "none"
  /\ \A s \in Slots : thread[s].pc # "none" => inUse[s] = 1
  /\ ~ended => \A s \in Slots :
       inUse[s] = 1 => thread[s].pc # "none" \/ \E c \in Callers : Owns(c, s)

(* What the owner wrote is there when the thread reads it.                 *)
Texts ==
  /\ \A c \in Callers : caller[c].pc = "create" => displayText[caller[c].slot] = caller[c].message
  /\ \A s \in Slots : thread[s].pc # "none" => displayText[s] = thread[s].message
  /\ \A pair \in told : pair[1] = pair[2]

SlotsInv == SlotsRecords /\ Ownership /\ Texts

LEMMA OneOwnerCounted ==
  ASSUME SlotsInv, ~ended, NEW s \in Slots
  PROVE  Cardinality({c \in Callers : caller[c].pc \in Working /\ caller[c].slot = s})
           + (IF thread[s].pc = "none" THEN 0 ELSE 1) = inUse[s]
<1> DEFINE S == {c \in Callers : Owns(c, s)}
<1>0. S = {c \in Callers : caller[c].pc \in Working /\ caller[c].slot = s}
  BY DEF Owns
<1>1. CASE \E c \in Callers : Owns(c, s)
  <2>1. PICK c \in Callers : Owns(c, s)
    BY <1>1
  <2>2. S = {c}
    BY <2>1 DEF SlotsInv, Ownership
  <2>3. Cardinality(S) = 1
    BY <2>2, FS_Singleton
  <2>4. inUse[s] = 1 /\ thread[s].pc = "none"
    BY <2>1 DEF SlotsInv, Ownership
  <2> HIDE DEF S
  <2> QED
    BY <1>0, <2>3, <2>4
<1>2. CASE ~\E c \in Callers : Owns(c, s)
  <2>1. S = {}
    BY <1>2
  <2>2. Cardinality(S) = 0
    BY <2>1, FS_EmptySet
  <2>3. inUse[s] = IF thread[s].pc = "none" THEN 0 ELSE 1
    BY <1>2 DEF SlotsInv, Ownership, SlotsRecords
  <2> HIDE DEF S
  <2> QED
    BY <1>0, <2>2, <2>3
<1> QED
  BY <1>1, <1>2

LEMMA ShowsItsMessage ==
  ASSUME SlotsInv
  PROVE  PopupsShowTheirMessage
<1>1. SlotsTypeOK
  <2>1. \A c \in Callers : caller[c].pc \in {"idle", "claim"} \union Working
    BY DEF SlotsInv, SlotsRecords, CallerRecords, Idle
  <2>2. \A s \in Slots : thread[s].pc \in {"none", "sleep", "queue", "release"}
    BY DEF SlotsInv, SlotsRecords, ThreadRecords, NoThread
  <2>3. ASSUME NEW c \in Callers, caller[c].pc \in Working
        PROVE  inUse[caller[c].slot] = 1
    <3>1. caller[c].slot \in Slots
      BY <2>3 DEF SlotsInv, SlotsRecords, CallerRecords, Idle, Working
    <3> QED
      BY <2>3, <3>1 DEF SlotsInv, Ownership, Owns
  <2> QED
    BY <2>1, <2>2, <2>3 DEF SlotsTypeOK, SlotsInv, SlotsRecords
<1>2. SlotHasOneOwner
  BY OneOwnerCounted DEF SlotHasOneOwner
<1> QED
  BY <1>1, <1>2 DEF PopupsShowTheirMessage, SlotsInv, Texts

(* A caller that is not working, before and after, owns nothing.           *)
LEMMA CallKeeps ==
  ASSUME SlotsInv, NEW c \in Callers, NEW m \in Messages, Call(c, m)
  PROVE  SlotsInv'
<1>1. caller' = [caller EXCEPT ![c] = [pc |-> "claim", message |-> m, tried |-> {}]]
      /\ UNCHANGED <<inUse, displayText, thread, told, ended>> /\ caller[c].pc = "idle"
  BY DEF Call, Idle
<1> QED
  BY <1>1 DEF SlotsInv, SlotsRecords, Ownership, Texts, Owns, CallerRecords, Working

LEMMA ClaimKeeps ==
  ASSUME SlotsInv, NEW c \in Callers, Claim(c)
  PROVE  SlotsInv'
<1>1. PICK s \in Slots \ caller[c].tried :
        IF inUse[s] = 0
        THEN /\ inUse' = [inUse EXCEPT ![s] = 1]
             /\ caller' = [caller EXCEPT ![c] =
                  [pc |-> "write", message |-> caller[c].message, slot |-> s]]
        ELSE /\ caller' = [caller EXCEPT ![c].tried = caller[c].tried \union {s}]
             /\ UNCHANGED inUse
  BY DEF Claim
<1>2. caller[c] \in [pc : {"claim"}, message : Messages, tried : SUBSET Slots]
  BY DEF Claim, SlotsInv, SlotsRecords, CallerRecords, Idle, Working
<1>3. UNCHANGED <<displayText, thread, told, ended>>
  BY DEF Claim
<1>4. CASE inUse[s] = 0
  <2>1. /\ inUse' = [inUse EXCEPT ![s] = 1]
        /\ caller' = [caller EXCEPT ![c] =
                  [pc |-> "write", message |-> caller[c].message, slot |-> s]]
    BY <1>1, <1>4
  <2>2. thread[s].pc = "none" /\ \A d \in Callers : ~Owns(d, s)
    BY <1>4 DEF SlotsInv, Ownership
  <2>3. SlotsRecords'
    BY <1>2, <1>3, <2>1 DEF SlotsInv, SlotsRecords, CallerRecords, Working
  <2>4. /\ \A d \in Callers \ {c}, t \in Slots : Owns(d, t)' <=> Owns(d, t)
        /\ \A t \in Slots : Owns(c, t)' <=> t = s
        /\ \A t \in Slots : ~Owns(c, t)
    BY <1>2, <2>1 DEF Owns, Working, SlotsInv, SlotsRecords
  <2>5. Ownership'
    BY <1>3, <2>1, <2>2, <2>4 DEF SlotsInv, SlotsRecords, Ownership
  <2>6. Texts'
    BY <1>3, <2>1 DEF SlotsInv, SlotsRecords, Texts
  <2> QED
    BY <2>3, <2>5, <2>6 DEF SlotsInv
<1>5. CASE inUse[s] # 0
  <2>1. caller' = [caller EXCEPT ![c] = 
         [pc |-> "claim", message |-> caller[c].message, tried |-> caller[c].tried \cup {s}]]
        /\ UNCHANGED inUse
    BY <1>1, <1>2, <1>5 DEF SlotsInv, SlotsRecords
  <2> QED
    BY <1>2, <1>3, <2>1 DEF SlotsInv, SlotsRecords, Ownership, Texts, Owns, CallerRecords, Working
<1> QED
  BY <1>4, <1>5

(* A caller that gives up, or ends its call, owns nothing afterwards.      *)
LEMMA QueueFullKeeps ==
  ASSUME SlotsInv, NEW c \in Callers, QueueFull(c)
  PROVE  SlotsInv'
<1>1. caller' = [caller EXCEPT ![c] = [pc |-> "idle"]]
      /\ UNCHANGED <<inUse, displayText, thread, told, ended>> /\ caller[c].pc = "claim"
  BY DEF QueueFull, Idle
<1> QED
  BY <1>1 DEF SlotsInv, SlotsRecords, Ownership, Texts, Owns, CallerRecords, Working, Idle

(* What a working caller is.                                               *)
LEMMA WorkingRecord ==
  ASSUME SlotsInv, NEW c \in Callers, caller[c].pc \in Working
  PROVE  /\ caller[c] \in [pc : Working, message : Messages, slot : Slots]
         /\ Owns(c, caller[c].slot)
         /\ \A t \in Slots : Owns(c, t) => t = caller[c].slot
<1>1. caller[c] \in [pc : Working, message : Messages, slot : Slots]
  BY DEF SlotsInv, SlotsRecords, CallerRecords, Idle, Working
<1> QED
  BY <1>1 DEF Owns

LEMMA WriteTextKeeps ==
  ASSUME SlotsInv, NEW c \in Callers, WriteText(c)
  PROVE  SlotsInv'
<1> DEFINE s == caller[c].slot
           m == caller[c].message
<1>1. /\ caller[c].pc = "write" /\ UNCHANGED <<inUse, thread, told, ended>>
      /\ displayText' = [displayText EXCEPT ![s] = m]
      /\ caller' = [caller EXCEPT ![c].pc = "create"]
  BY DEF WriteText
<1>2. caller[c] \in [pc : Working, message : Messages, slot : Slots] /\ Owns(c, s)
  BY <1>1, WorkingRecord DEF Working
<1>3. caller' = [caller EXCEPT ![c] = [pc |-> "create", message |-> m, slot |-> s]]
  <2>1. [caller[c] EXCEPT !.pc = "create"] = [pc |-> "create", message |-> m, slot |-> s]
    BY <1>2
  <2> QED
    BY <1>1, <2>1
<1>4. SlotsRecords'
  BY <1>1, <1>2, <1>3 DEF SlotsInv, SlotsRecords, CallerRecords, Working
<1>5. \A d \in Callers, t \in Slots : Owns(d, t)' <=> Owns(d, t)
  BY <1>1, <1>2, <1>3 DEF Owns, Working, SlotsInv, SlotsRecords
<1>6. Ownership'
  BY <1>1, <1>5 DEF SlotsInv, Ownership
<1>7. Texts'
  <2>1. \A t \in Slots : thread[t].pc # "none" => t # s
    BY <1>2 DEF SlotsInv, Ownership
  <2>2. ASSUME NEW d \in Callers \ {c}, caller[d].pc = "create"
        PROVE  caller[d].slot # s /\ caller[d].slot \in Slots
    BY <1>2, <2>2, WorkingRecord DEF SlotsInv, Ownership, Working
  <2> QED
    BY <1>1, <1>2, <1>3, <2>1, <2>2 DEF SlotsInv, SlotsRecords, Texts
<1> QED
  BY <1>4, <1>6, <1>7 DEF SlotsInv

(* The slot goes from the caller to the thread.                            *)
LEMMA CreateThreadKeeps ==
  ASSUME SlotsInv, NEW c \in Callers, CreateThread(c)
  PROVE  SlotsInv'
<1> DEFINE s == caller[c].slot
           m == caller[c].message
<1>1. /\ caller[c].pc = "create" /\ UNCHANGED <<inUse, displayText, told, ended>>
      /\ thread' = [thread EXCEPT ![s] = [pc |-> "sleep", message |-> m]]
      /\ caller' = [caller EXCEPT ![c] = [pc |-> "idle"]]
  BY DEF CreateThread, Idle
<1>2. caller[c] \in [pc : Working, message : Messages, slot : Slots] /\ Owns(c, s)
      /\ \A t \in Slots : Owns(c, t) => t = s
  BY <1>1, WorkingRecord DEF Working
<1>3. SlotsRecords'
  BY <1>1, <1>2 DEF SlotsInv, SlotsRecords, CallerRecords, ThreadRecords, Idle
<1>4. /\ \A d \in Callers \ {c}, t \in Slots : Owns(d, t)' <=> Owns(d, t)
      /\ \A t \in Slots : ~Owns(c, t)'
  BY <1>1 DEF Owns, Working, SlotsInv, SlotsRecords
<1>5. /\ \A t \in Slots \ {s} : thread'[t] = thread[t]
      /\ thread'[s] = [pc |-> "sleep", message |-> m]
  BY <1>1, <1>2 DEF SlotsInv, SlotsRecords
<1>6. Ownership'
  <2>1. \A d \in Callers \ {c} : ~Owns(d, s)
    BY <1>2 DEF SlotsInv, Ownership
  <2> QED
    BY <1>1, <1>2, <1>4, <1>5, <2>1 DEF SlotsInv, Ownership
<1>7. Texts'
  BY <1>1, <1>2, <1>5 DEF SlotsInv, SlotsRecords, Texts
<1> QED
  BY <1>3, <1>6, <1>7 DEF SlotsInv

LEMMA CreateThreadFailsKeeps ==
  ASSUME SlotsInv, NEW c \in Callers, CreateThreadFails(c)
  PROVE  SlotsInv'
<1> DEFINE s == caller[c].slot
<1>1. /\ caller[c].pc = "create" /\ UNCHANGED <<displayText, thread, told, ended>>
      /\ inUse' = [inUse EXCEPT ![s] = 0]
      /\ caller' = [caller EXCEPT ![c] = [pc |-> "idle"]]
  BY DEF CreateThreadFails, UsedAfterFailure, Idle
<1>2. caller[c] \in [pc : Working, message : Messages, slot : Slots] /\ Owns(c, s)
      /\ \A t \in Slots : Owns(c, t) => t = s
  BY <1>1, WorkingRecord DEF Working
<1>3. SlotsRecords'
  BY <1>1, <1>2 DEF SlotsInv, SlotsRecords, CallerRecords, Idle
<1>4. /\ \A d \in Callers \ {c}, t \in Slots : Owns(d, t)' <=> Owns(d, t)
      /\ \A t \in Slots : ~Owns(c, t)'
  BY <1>1 DEF Owns, Working, SlotsInv, SlotsRecords
<1>5. thread[s].pc = "none" /\ \A d \in Callers \ {c} : ~Owns(d, s)
  BY <1>2 DEF SlotsInv, Ownership
<1>6. inUse'[s] = 0 /\ \A t \in Slots \ {s} : inUse'[t] = inUse[t]
  BY <1>1, <1>2 DEF SlotsInv, SlotsRecords
<1>7. Ownership'
  BY <1>1, <1>2, <1>4, <1>5, <1>6 DEF SlotsInv, Ownership
<1>8. Texts'
  BY <1>1 DEF SlotsInv, SlotsRecords, Texts
<1> QED
  BY <1>3, <1>7, <1>8 DEF SlotsInv

(* What a thread in a slot is: nobody else owns the slot.                  *)
LEMMA ThreadRecord ==
  ASSUME SlotsInv, NEW s \in Slots, thread[s].pc # "none"
  PROVE  /\ thread[s] \in [pc : {"sleep", "queue", "release"}, message : Messages]
         /\ \A c \in Callers : ~Owns(c, s)
         /\ displayText[s] = thread[s].message
BY DEF SlotsInv, SlotsRecords, ThreadRecords, NoThread, Ownership, Texts

LEMMA ThreadStepKeeps ==
  ASSUME SlotsInv, NEW s \in Slots, ThreadStep(s)
  PROVE  SlotsInv'
<1> DEFINE m == thread[s].message
<1>1. CASE Awake(s) \/ QueueUI(s)
  <2>1. PICK pc \in {"queue", "release"} : thread' = [thread EXCEPT ![s].pc = pc]
    BY <1>1 DEF Awake, QueueUI
  <2>2. thread[s].pc # "none" /\ inUse' = inUse /\ UNCHANGED <<displayText, caller, ended>>
    <3>1. [inUse EXCEPT ![s] = inUse[s]] = inUse
      BY DEF SlotsInv, SlotsRecords
    <3> QED
      BY <1>1, <3>1 DEF Awake, QueueUI, UsedWhileShowing
  <2>3. thread' = [thread EXCEPT ![s] = [pc |-> pc, message |-> m]]
    <3>1. [thread[s] EXCEPT !.pc = pc] = [pc |-> pc, message |-> m]
      BY <2>2, ThreadRecord
    <3> QED
      BY <2>1, <3>1
  <2>4. \A pair \in told' : pair[1] = pair[2]
    BY <1>1, <2>2, ThreadRecord DEF Awake, QueueUI, SlotsInv, Texts
  <2>5. SlotsRecords'
    BY <2>2, <2>3, ThreadRecord DEF SlotsInv, SlotsRecords, ThreadRecords
  <2>6. /\ \A t \in Slots \ {s} : thread'[t] = thread[t]
        /\ thread'[s] = [pc |-> pc, message |-> m]
    BY <2>3 DEF SlotsInv, SlotsRecords
  <2>7. \A t \in Slots : thread'[t].pc = "none" <=> thread[t].pc = "none"
    BY <2>2, <2>6
  <2>8. Ownership'
    BY <2>2, <2>7 DEF SlotsInv, Ownership, Owns
  <2>9. Texts'
    BY <2>2, <2>4, <2>6, ThreadRecord DEF SlotsInv, Texts
  <2> QED
    BY <2>5, <2>8, <2>9 DEF SlotsInv
<1>2. CASE Release(s)
  <2>1. /\ thread[s].pc = "release" /\ UNCHANGED <<displayText, caller, told, ended>>
        /\ inUse' = [inUse EXCEPT ![s] = 0]
        /\ thread' = [thread EXCEPT ![s] = [pc |-> "none"]]
    BY <1>2 DEF Release, NoThread
  <2>2. SlotsRecords'
    BY <2>1 DEF SlotsInv, SlotsRecords, ThreadRecords, NoThread
  <2>3. /\ \A t \in Slots \ {s} : thread'[t] = thread[t] /\ inUse'[t] = inUse[t]
        /\ thread'[s].pc = "none" /\ inUse'[s] = 0
    BY <2>1 DEF SlotsInv, SlotsRecords
  <2>4. \A c \in Callers : ~Owns(c, s)
    BY <2>1, ThreadRecord
  <2>5. Ownership'
    BY <2>1, <2>3, <2>4 DEF SlotsInv, Ownership, Owns
  <2>6. Texts'
    BY <2>1, <2>3 DEF SlotsInv, Texts
  <2> QED
    BY <2>2, <2>5, <2>6 DEF SlotsInv
<1> QED
  BY <1>1, <1>2 DEF ThreadStep

(* The slots of the threads that end with the title stay in use.           *)
LEMMA EndTitleKeeps ==
  ASSUME SlotsInv, EndTitle
  PROVE  SlotsInv'
<1>1. /\ ended' = TRUE /\ UNCHANGED <<inUse, displayText, told>>
      /\ thread' = [s \in Slots |-> [pc |-> "none"]]
      /\ caller' = [c \in Callers |-> [pc |-> "idle"]]
  BY DEF EndTitle, NoThread, Idle
<1> QED
  BY <1>1 DEF SlotsInv, SlotsRecords, Ownership, Texts, Owns, Working, CallerRecords,
     ThreadRecords, Idle, NoThread

(* For any number of callers and slots, whenever the title ends: a popup   *)
(* shows the message it was made for, and no slot has two owners.          *)
THEOREM PopupsShow == SlotsSpec => []PopupsShowTheirMessage
<1>1. SlotsInit => SlotsInv
  <2> SUFFICES ASSUME SlotsInit
               PROVE  SlotsInv
    OBVIOUS
  <2>1. SlotsRecords
    BY DEF SlotsInit, SlotsRecords, CallerRecords, ThreadRecords
  <2>2. \A c \in Callers : caller[c].pc = "idle"
    BY DEF SlotsInit, Idle
  <2>3. \A s \in Slots : thread[s].pc = "none" /\ inUse[s] = 0
    BY DEF SlotsInit, NoThread
  <2>4. told = {}
    BY DEF SlotsInit
  <2>5. Ownership /\ Texts
    BY <2>2, <2>3, <2>4 DEF Ownership, Texts, Owns, Working
  <2> QED
    BY <2>1, <2>5 DEF SlotsInv
<1>2. SlotsInv /\ [SlotsNext]_slotVars => SlotsInv'
  <2> SUFFICES ASSUME SlotsInv, [SlotsNext]_slotVars
               PROVE  SlotsInv'
    OBVIOUS
  <2>1. CASE UNCHANGED slotVars
    BY <2>1 DEF slotVars, SlotsInv, SlotsRecords, Ownership, Texts, Owns
  <2>2. ASSUME NEW c \in Callers, CallerStep(c)
        PROVE  SlotsInv'
    BY <2>2, ClaimKeeps, QueueFullKeeps, WriteTextKeeps, CreateThreadKeeps,
       CreateThreadFailsKeeps DEF CallerStep
  <2>3. ASSUME NEW c \in Callers, NEW m \in Messages, Call(c, m)
        PROVE  SlotsInv'
    BY <2>3, CallKeeps
  <2>4. ASSUME NEW s \in Slots, ThreadStep(s)
        PROVE  SlotsInv'
    BY <2>4, ThreadStepKeeps
  <2>5. CASE EndTitle
    BY <2>5, EndTitleKeeps
  <2> QED
    BY <2>1, <2>2, <2>3, <2>4, <2>5 DEF SlotsNext
<1>3. SlotsInv => PopupsShowTheirMessage
  BY ShowsItsMessage
<1> QED
  BY <1>1, <1>2, <1>3, PTL DEF SlotsSpec

-----------------------------------------------------------------------------
(* ConsoleInput: the names of keys *)

LEMMA TitleNames ==
  ASSUME NEW t \in AllTitles
  PROVE  /\ DOMAIN Names = AllTitles /\ DOMAIN AllNames = AllTitles /\ DOMAIN Owners = AllTitles
         /\ DOMAIN OneKey = AllTitles
         /\ \A k \in Keyboard, shift \in BOOLEAN : Names[t][k][shift] \in AllNames[t]
         /\ \A key \in AllNames[t] :
              Owners[t][key] = {k \in Keyboard : \E shift \in BOOLEAN : Names[t][k][shift] = key}
         /\ OneKey[t] = {key \in AllNames[t] :
                           \A k \in Owners[t][key], shift \in BOOLEAN : Names[t][k][shift] = key}
<1>1. DOMAIN Names = AllTitles
  BY DEF Names
<1>2. AllNames[t] = {Names[t][k][shift] : k \in Keyboard, shift \in BOOLEAN} /\ DOMAIN AllNames = AllTitles
  BY DEF AllNames
<1>3. DOMAIN Owners = AllTitles /\ \A key \in AllNames[t] :
        Owners[t][key] = {k \in Keyboard : \E shift \in BOOLEAN : Names[t][k][shift] = key}
  BY DEF Owners
<1>4. DOMAIN OneKey = AllTitles /\
      OneKey[t] = {key \in AllNames[t] :
                           \A k \in Owners[t][key], shift \in BOOLEAN : Names[t][k][shift] = key}
  BY DEF OneKey
<1>5. \A k \in Keyboard, shift \in BOOLEAN : Names[t][k][shift] \in AllNames[t]
  BY <1>2
<1> QED
  BY <1>1, <1>2, <1>3, <1>4, <1>5

Convert(t, vk, unicode) ==
  CASE t = "iw3_mp" -> iw3_convert_virtual_key(vk, unicode)
    [] t = "t4_mp" -> t4mp_convert_virtual_key(vk, unicode)
    [] t = "t4_sp" -> t4sp_convert_virtual_key(vk, unicode)
    [] t = "iw4_mp" -> iw4_convert_virtual_key(vk, unicode)

LEMMA NamesAre ==
  ASSUME NEW t \in AllTitles, NEW k \in Keyboard, NEW shift \in BOOLEAN
  PROVE  Names[t][k][shift] = Convert(t, AllKeys[k].vk, Unicode(k, shift))
BY DEF Names, Convert

LEMMA KeysAre ==
  /\ DOMAIN AllKeys = {"grave", "hash", "quote", "letter", "escape", "lshift", "rshift", "lctrl"}
  /\ \A k \in {"escape", "lshift", "rshift", "lctrl"} : AllKeys[k].plain = AllKeys[k].shifted
  /\ AllKeys["grave"] = [vk |-> "VK_OEM_8", plain |-> "grave", shifted |-> NoChar]
  /\ AllKeys["hash"] = [vk |-> "VK_OEM_7", plain |-> "hash", shifted |-> "tilde"]
  /\ AllKeys["quote"] = [vk |-> "VK_OEM_3", plain |-> "quote", shifted |-> "at"]
  /\ AllKeys["letter"] = [vk |-> "VK_A", plain |-> "a", shifted |-> "A"]
BY DEF AllKeys

LEMMA NoCharIsNone ==
  NoChar \notin {"hash", "tilde", "grave", "quote", "at", "a", "A"}
BY Zenon DEF NoChar

(* Keys that are other keys with Shift are no modifiers.                   *)
LEMMA ModifiersAreFixed ==
  ASSUME NEW t \in AllTitles, NEW k \in Keyboard, NEW m \in {"K_SHIFT", "K_CTRL"}, NEW shift \in BOOLEAN,
         Names[t][k][shift] = m
  PROVE  \A other \in BOOLEAN : Names[t][k][other] = m
<1>1. k \in {"grave", "hash", "quote", "letter", "escape", "lshift", "rshift", "lctrl"}
  BY KeysAre, ConsoleInputAssumption
<1>2. CASE k \in {"escape", "lshift", "rshift", "lctrl"}
  <2>1. \A other \in BOOLEAN : Unicode(k, other) = Unicode(k, shift)
    BY <1>2, KeysAre DEF Unicode
  <2> QED
    BY <2>1, NamesAre
<1>3. CASE k \in {"grave", "hash", "quote", "letter"}
  <2> DEFINE vk == AllKeys[k].vk
             u == Unicode(k, shift)
  <2>1. Convert(t, vk, u) = m
    BY NamesAre
  <2>2. \/ vk = "VK_OEM_8" /\ u \in {"grave", NoChar}
        \/ vk = "VK_OEM_7" /\ u \in {"hash", "tilde"}
        \/ vk = "VK_OEM_3" /\ u \in {"quote", "at"}
        \/ vk = "VK_A" /\ u \in {"a", "A"}
    BY <1>3, KeysAre DEF Unicode
  <2> HIDE DEF vk, u
  <2>3. iw3_convert_virtual_key(vk, u) \notin {"K_SHIFT", "K_CTRL"}
    <3>1. CASE u = NoChar
      <4>1. vk = "VK_OEM_8"
        BY <2>2, <3>1, NoCharIsNone
      <4>2. iw3_convert_virtual_key(vk, u) = OfTable(vk, [VK_OEM_3 |-> "grave", VK_OEM_8 |-> "caret"])
        BY <3>1, NoCharIsNone DEF iw3_convert_virtual_key
      <4>3. "VK_OEM_8" \notin DOMAIN NamedKeys
        BY DEF NamedKeys
      <4>4. "VK_OEM_8" \notin DOMAIN keypad_numbers
        BY DEF keypad_numbers
      <4>5. OfTable(vk, [VK_OEM_3 |-> "grave", VK_OEM_8 |-> "caret"]) = "caret"
        BY <4>1, <4>3, <4>4 DEF OfTable
      <4> QED
        BY <4>2, <4>5
    <3>2. CASE u = "hash"
      <4>1. iw3_convert_virtual_key(vk, u) = "caret"
        BY <3>2 DEF iw3_convert_virtual_key
      <4> QED
        BY <4>1
    <3>3. CASE u \in {"grave", "tilde", "quote", "at", "a", "A"}
      <4>1. iw3_convert_virtual_key(vk, u) = Lower(u)
        BY <3>3, NoCharIsNone DEF iw3_convert_virtual_key
      <4> QED
        BY <3>3, <4>1 DEF Lower
    <3> QED
      BY <2>2, <3>1, <3>2, <3>3
  <2>4. iw4_convert_virtual_key(vk, u) \notin {"K_SHIFT", "K_CTRL"}
    <3>1. CASE vk \in {"VK_OEM_3", "VK_OEM_8"}
      BY <3>1 DEF iw4_convert_virtual_key
    <3>2. CASE vk \notin {"VK_OEM_3", "VK_OEM_8"}
      <4>1. u \in {"hash", "tilde", "a", "A"}
        BY <2>2, <3>2
      <4>2. iw4_convert_virtual_key(vk, u) = Lower(u)
        BY <3>2, <4>1, NoCharIsNone DEF iw4_convert_virtual_key
      <4> QED
        BY <4>1, <4>2 DEF Lower
    <3> QED
      BY <3>1, <3>2
  <2> QED
    BY <2>1, <2>3, <2>4 DEF Convert, AllTitles, t4mp_convert_virtual_key, t4sp_convert_virtual_key
<1> QED
  BY <1>1, <1>2, <1>3

-----------------------------------------------------------------------------
(* ConsoleInput: strokes *)

Flags == {{"keydown"}, {"keyup"}, {"repeat"}, {"keydown", "repeat"}}
StrokeRecords == [key : Keyboard, flags : SUBSET {"keydown", "keyup", "repeat"}, shift : BOOLEAN]

(* The key was down before stroke n, of those in q, with those in h down    *)
(* now.                                                                    *)
DownAt(q, h, k, n) ==
  \/ k \in h /\ \A i \in n..Len(q) : q[i].key # k
  \/ \E i \in n..Len(q) :
       q[i].key = k /\ (\A j \in n..i - 1 : q[j].key # k) /\ q[i].flags # {"keydown"}

(* Each stroke leaves its key as the next stroke of the key finds it.       *)
InTurns(q, h) ==
  \A n \in 1..Len(q) : q[n].flags \in Flags /\ (q[n].flags = {"keyup"} <=> ~ DownAt(q, h, q[n].key, n + 1))

ConsoleKeys == IF title = "iw4_mp" THEN {"grave", "tilde"} ELSE {"grave", "caret", "tilde"}

StrokesInv ==
  /\ StrokesTypes /\ KeysFollowKeyboard /\ ClosedWhileLoading
  /\ InTurns(queue, held)
  /\ gameDown \cap ConsoleKeys = {}
  /\ title \in {"t4_mp", "t4_sp"} => gameDown = {}

LEMMA WasDownIsDownAt ==
  ASSUME queue \in Seq(StrokeRecords), NEW k
  PROVE  WasDown(k) <=> DownAt(queue, held, k, 1)
<1>1. DOMAIN queue = 1..Len(queue)
  OBVIOUS
<1> QED
  BY <1>1 DEF WasDown, DownAt

(* A stroke more, by a key that is or is not down.                         *)
LEMMA StrokeAdded ==
  ASSUME NEW q \in Seq(StrokeRecords), NEW h, NEW s \in StrokeRecords, NEW g,
         \A k : k # s.key => (k \in g <=> k \in h),
         s.flags \in Flags, s.flags = {"keydown"} <=> s.key \notin h, s.flags = {"keyup"} <=> s.key \notin g,
         InTurns(q, h)
  PROVE  /\ InTurns(Append(q, s), g)
         /\ \A k : DownAt(Append(q, s), g, k, 1) <=> DownAt(q, h, k, 1)
<1> DEFINE r == Append(q, s)
           m == Len(q)
<1>1. Len(r) = m + 1 /\ r[m + 1] = s /\ m \in Nat /\ \A i \in 1..m : r[i] = q[i]
  OBVIOUS
<1> HIDE DEF r, m
<1>2. ASSUME NEW n \in 1..m + 1, NEW k
      PROVE  DownAt(r, g, k, n) <=> DownAt(q, h, k, n)
  <2>1. \A i \in n..m : r[i] = q[i]
    BY <1>1
  <2>2. CASE \E i \in n..m : q[i].key = k
    <3>1. \E i \in n..m + 1 : r[i].key = k
      BY <1>1, <2>1, <2>2
    <3>2. ASSUME NEW i \in n..m, q[i].key = k, \A j \in n..i - 1 : q[j].key # k, q[i].flags # {"keydown"}
          PROVE  DownAt(r, g, k, n)
      <4>1. i \in n..Len(r) /\ r[i].key = k /\ r[i].flags # {"keydown"} /\ \A j \in n..i - 1 : r[j].key # k
        BY <1>1, <2>1, <3>2
      <4> QED
        BY <4>1 DEF DownAt
    <3>3. ASSUME NEW i \in n..m + 1, r[i].key = k, \A j \in n..i - 1 : r[j].key # k, r[i].flags # {"keydown"}
          PROVE  DownAt(q, h, k, n)
      <4>1. i # m + 1
        BY <1>1, <2>1, <2>2, <3>3
      <4>2. i \in n..m /\ q[i].key = k /\ q[i].flags # {"keydown"} /\ \A j \in n..i - 1 : q[j].key # k
        BY <1>1, <2>1, <3>3, <4>1
      <4> QED
        BY <4>2 DEF DownAt, m
    <3> QED
      BY <1>1, <2>2, <3>1, <3>2, <3>3 DEF DownAt, m
  <2>3. CASE \A i \in n..m : q[i].key # k
    <3>1. DownAt(q, h, k, n) <=> k \in h
      BY <2>3 DEF DownAt, m
    <3>2. \A i \in n..m : r[i].key # k
      BY <2>1, <2>3
    <3>3. CASE k # s.key
      <4>1. \A i \in n..m + 1 : r[i].key # k
        BY <1>1, <3>2, <3>3
      <4> QED
        BY <1>1, <3>1, <3>3, <4>1 DEF DownAt
    <3>4. CASE k = s.key
      <4>1. m + 1 \in n..m + 1 /\ r[m + 1].key = k /\ \A j \in n..m + 1 - 1 : r[j].key # k
        BY <1>1, <3>2, <3>4
      <4>2. \A i \in n..m + 1 : r[i].key = k => i = m + 1
        BY <1>1, <3>2
      <4>3. DownAt(r, g, k, n) <=> r[m + 1].flags # {"keydown"}
        BY <1>1, <4>1, <4>2 DEF DownAt
      <4> QED
        BY <1>1, <3>1, <3>4, <4>3
    <3> QED
      BY <3>3, <3>4
  <2> QED
    BY <2>2, <2>3
<1>3. DownAt(r, g, s.key, m + 2) <=> s.key \in g
  BY <1>1 DEF DownAt
<1>4. InTurns(r, g)
  <2> SUFFICES ASSUME NEW n \in 1..m + 1
               PROVE  r[n].flags \in Flags /\ (r[n].flags = {"keyup"} <=> ~ DownAt(r, g, r[n].key, n + 1))
    BY <1>1 DEF InTurns
  <2>1. CASE n = m + 1
    BY <1>1, <1>3, <2>1
  <2>2. CASE n # m + 1
    <3>1. n \in 1..m /\ n + 1 \in 1..m + 1 /\ r[n] = q[n]
      BY <1>1, <2>2
    <3>2. q[n].flags \in Flags /\ (q[n].flags = {"keyup"} <=> ~ DownAt(q, h, q[n].key, n + 1))
      BY <3>1 DEF InTurns, m
    <3>3. DownAt(r, g, q[n].key, n + 1) <=> DownAt(q, h, q[n].key, n + 1)
      BY <1>2, <3>1
    <3> QED
      BY <3>1, <3>2, <3>3
  <2> QED
    BY <2>1, <2>2
<1>5. \A k : DownAt(r, g, k, 1) <=> DownAt(q, h, k, 1)
  <2>1. 1 \in 1..m + 1
    BY <1>1
  <2> QED
    BY <1>2, <2>1
<1> QED
  BY <1>4, <1>5 DEF r

(* A stroke less.                                                          *)
LEMMA StrokeTaken ==
  ASSUME NEW q \in Seq(StrokeRecords), NEW h, q # <<>>, InTurns(q, h)
  PROVE  /\ InTurns(Tail(q), h) /\ Head(q).flags \in Flags
         /\ \A k : k # Head(q).key => (DownAt(Tail(q), h, k, 1) <=> DownAt(q, h, k, 1))
         /\ DownAt(Tail(q), h, Head(q).key, 1) <=> Head(q).flags # {"keyup"}
<1> DEFINE r == Tail(q)
           m == Len(q)
<1>1. Len(r) = m - 1 /\ m \in Nat /\ m > 0 /\ Head(q) = q[1] /\ \A i \in 1..m - 1 : r[i] = q[i + 1]
  OBVIOUS
<1> HIDE DEF r, m
<1>2. ASSUME NEW n \in 1..m, NEW k
      PROVE  DownAt(r, h, k, n) <=> DownAt(q, h, k, n + 1)
  <2>1. (\A i \in n..m - 1 : r[i].key # k) <=> (\A i \in n + 1..m : q[i].key # k)
    <3>1. ASSUME \A i \in n..m - 1 : r[i].key # k, NEW i \in n + 1..m
          PROVE  q[i].key # k
      <4>1. i - 1 \in n..m - 1 /\ r[i - 1] = q[i - 1 + 1] /\ i - 1 + 1 = i
        BY <1>1
      <4> QED
        BY <3>1, <4>1
    <3>2. ASSUME \A i \in n + 1..m : q[i].key # k, NEW i \in n..m - 1
          PROVE  r[i].key # k
      <4>1. i + 1 \in n + 1..m /\ r[i] = q[i + 1]
        BY <1>1
      <4> QED
        BY <3>2, <4>1
    <3> QED
      BY <3>1, <3>2
  <2>2. ASSUME NEW i \in n..m - 1, r[i].key = k, \A j \in n..i - 1 : r[j].key # k, r[i].flags # {"keydown"}
        PROVE  DownAt(q, h, k, n + 1)
    <3>1. i + 1 \in n + 1..m /\ r[i] = q[i + 1]
      BY <1>1
    <3>2. ASSUME NEW j \in n + 1..i + 1 - 1
          PROVE  q[j].key # k
      <4>1. j - 1 \in n..i - 1 /\ r[j - 1] = q[j - 1 + 1] /\ j - 1 + 1 = j
        BY <1>1
      <4> QED
        BY <2>2, <4>1
    <3> QED
      BY <2>2, <3>1, <3>2 DEF DownAt, m
  <2>3. ASSUME NEW i \in n + 1..m, q[i].key = k, \A j \in n + 1..i - 1 : q[j].key # k, q[i].flags # {"keydown"}
        PROVE  DownAt(r, h, k, n)
    <3> DEFINE o == i - 1
    <3>1. o \in n..m - 1 /\ r[o] = q[o + 1] /\ o + 1 = i
      BY <1>1
    <3> HIDE DEF o
    <3>2. ASSUME NEW j \in n..o - 1
          PROVE  r[j].key # k
      <4>1. j + 1 \in n + 1..i - 1 /\ r[j] = q[j + 1]
        BY <1>1, <3>1
      <4> QED
        BY <2>3, <4>1
    <3> QED
      BY <1>1, <2>3, <3>1, <3>2 DEF DownAt
  <2> QED
    BY <1>1, <2>1, <2>2, <2>3 DEF DownAt, m
<1>3. InTurns(r, h)
  <2> SUFFICES ASSUME NEW n \in 1..m - 1
               PROVE  r[n].flags \in Flags /\ (r[n].flags = {"keyup"} <=> ~ DownAt(r, h, r[n].key, n + 1))
    BY <1>1 DEF InTurns
  <2>1. r[n] = q[n + 1] /\ n + 1 \in 1..m
    BY <1>1
  <2>2. q[n + 1].flags \in Flags /\ (q[n + 1].flags = {"keyup"} <=> ~ DownAt(q, h, q[n + 1].key, n + 1 + 1))
    BY <2>1 DEF InTurns, m
  <2>3. DownAt(r, h, q[n + 1].key, n + 1) <=> DownAt(q, h, q[n + 1].key, n + 1 + 1)
    BY <1>2, <2>1
  <2> QED
    BY <2>1, <2>2, <2>3
<1>4. 1 \in 1..m
  BY <1>1
<1>5. q[1].flags \in Flags /\ (q[1].flags = {"keyup"} <=> ~ DownAt(q, h, q[1].key, 1 + 1))
  BY <1>4 DEF InTurns, m
<1>6. DownAt(r, h, q[1].key, 1) <=> q[1].flags # {"keyup"}
  BY <1>2, <1>4, <1>5
<1>7. ASSUME NEW k, k # q[1].key
      PROVE  DownAt(r, h, k, 1) <=> DownAt(q, h, k, 1)
  <2>1. DownAt(r, h, k, 1) <=> DownAt(q, h, k, 1 + 1)
    BY <1>2, <1>4
  <2>2. (\A i \in 1..m : q[i].key # k) <=> (\A i \in 1 + 1..m : q[i].key # k)
    BY <1>1, <1>7
  <2>3. ASSUME NEW i \in 1 + 1..m
        PROVE  (\A j \in 1..i - 1 : q[j].key # k) <=> (\A j \in 1 + 1..i - 1 : q[j].key # k)
    BY <1>1, <1>7
  <2>4. DownAt(q, h, k, 1) <=> DownAt(q, h, k, 1 + 1)
    <3>1. ASSUME NEW i \in 1..m, q[i].key = k, \A j \in 1..i - 1 : q[j].key # k, q[i].flags # {"keydown"}
          PROVE  DownAt(q, h, k, 1 + 1)
      <4>1. i \in 1 + 1..m
        BY <1>1, <1>7, <3>1
      <4> QED
        BY <2>3, <3>1, <4>1 DEF DownAt, m
    <3>2. ASSUME NEW i \in 1 + 1..m, q[i].key = k, \A j \in 1 + 1..i - 1 : q[j].key # k,
                 q[i].flags # {"keydown"}
          PROVE  DownAt(q, h, k, 1)
      <4>1. i \in 1..m
        BY <1>1
      <4> QED
        BY <2>3, <3>2, <4>1 DEF DownAt, m
    <3> QED
      BY <2>2, <3>1, <3>2 DEF DownAt, m
  <2> QED
    BY <2>1, <2>4
<1> QED
  BY <1>1, <1>3, <1>5, <1>6, <1>7 DEF r

-----------------------------------------------------------------------------
(* ConsoleInput: the steps *)

LEMMA StrokesStart == StrokesInit => StrokesInv
<1> SUFFICES ASSUME StrokesInit PROVE StrokesInv
  OBVIOUS
<1>1. title \in AllTitles
  BY ConsoleInputAssumption DEF StrokesInit
<1>2. StrokesTypes
  <2>1. queue \in Seq(StrokeRecords)
    BY DEF StrokesInit
  <2> QED
    BY <1>1, <2>1 DEF StrokesInit, StrokesTypes, StrokeRecords
<1>3. InTurns(queue, held)
  BY DEF StrokesInit, InTurns
<1>4. \A k : ~ WasDown(k)
  BY DEF StrokesInit, WasDown
<1>5. \A m \in AllNames[title] : \E k \in KeysOf(m) : TRUE
  <2>1. AllNames[title] = {Names[title][k][shift] : k \in Keyboard, shift \in BOOLEAN}
    BY <1>1 DEF AllNames
  <2>2. \A m \in AllNames[title] :
          KeysOf(m) = {k \in Keyboard : \E shift \in BOOLEAN : Names[title][k][shift] = m}
    BY <1>1, TitleNames DEF KeysOf
  <2> QED
    BY <2>1, <2>2
<1>6. KeysFollowKeyboard
  BY <1>4, <1>5 DEF KeysFollowKeyboard, StrokesInit
<1> QED
  BY <1>2, <1>3, <1>6 DEF StrokesInv, StrokesInit, ClosedWhileLoading

(* Nothing that the keyboard and the modifiers are about moves.            *)
LEMMA SameKeys ==
  ASSUME KeysFollowKeyboard, UNCHANGED <<title, down, unknown, gameVars>>,
         \A k : WasDown(k)' <=> WasDown(k)
  PROVE  KeysFollowKeyboard'
BY DEF KeysFollowKeyboard, gameVars, Modifiers, KeysOf

LEMMA SameQueue ==
  ASSUME StrokesInv, UNCHANGED <<title, down, held, queue, gameVars, unknown>>
  PROVE  /\ KeysFollowKeyboard' /\ InTurns(queue, held)'
         /\ (gameDown \cap ConsoleKeys = {})' /\ (title \in {"t4_mp", "t4_sp"} => gameDown = {})'
<1>1. \A k : WasDown(k)' <=> WasDown(k)
  BY DEF WasDown
<1>2. KeysFollowKeyboard'
  BY <1>1, SameKeys DEF StrokesInv
<1> QED
  BY <1>2 DEF StrokesInv, InTurns, DownAt, ConsoleKeys, gameVars

(* What the console does of itself.                                        *)
LEMMA ConsoleSteps ==
  ASSUME StrokesInv, StrokesTypes',
         EmptyFrame \/ LoadingFrame \/ Cmd_ToggleConsole_f \/ ChangeConnection
  PROVE  StrokesInv'
<1>1. UNCHANGED <<title, down, held, queue, gameVars, unknown>>
  BY DEF EmptyFrame, LoadingFrame, Cmd_ToggleConsole_f, ChangeConnection
<1>2. ClosedWhileLoading'
  BY DEF StrokesInv, StrokesTypes, ClosedWhileLoading, EmptyFrame, LoadingFrame, Cmd_ToggleConsole_f,
         ChangeConnection, toggle, close, Con_Close, Con_ToggleConsole, console
<1> QED
  BY <1>1, <1>2, SameQueue DEF StrokesInv

LEMMA RelaunchStep ==
  ASSUME StrokesInv, Relaunch, StrokesTypes'
  PROVE  StrokesInv'
<1>1. KeysFollowKeyboard'
  BY DEF KeysFollowKeyboard, Relaunch, Modifiers
<1>2. InTurns(queue, held)'
  BY DEF InTurns, Relaunch
<1>3. ClosedWhileLoading'
  BY DEF ClosedWhileLoading, Relaunch
<1> QED
  BY <1>1, <1>2, <1>3 DEF StrokesInv, Relaunch

(* What the keyboard does.                                                 *)
LEMMA KeyboardStep ==
  ASSUME StrokesInv, NEW k \in Keyboard, PressKey(k) \/ ReleaseKey(k) \/ HoldOn(k), StrokesTypes'
  PROVE  StrokesInv'
<1>1. queue \in Seq(StrokeRecords)
  BY DEF StrokesInv, StrokesTypes, StrokeRecords
<1>2. PICK flags \in Flags :
        /\ Strike(k, flags)
        /\ flags = {"keydown"} <=> k \notin held
        /\ flags = {"keyup"} <=> k \notin held'
        /\ \A other : other # k => (other \in held' <=> other \in held)
  BY DEF PressKey, ReleaseKey, HoldOn, Flags
<1> DEFINE s == [key |-> k, flags |-> flags, shift |-> held' \intersect {"lshift", "rshift"} # {}]
<1>3. s \in StrokeRecords /\ s.key = k /\ s.flags = flags
  BY DEF StrokeRecords, Flags
<1>4. queue' = Append(queue, s) /\ UNCHANGED <<title, connection, previous, console, down, gameVars, unknown>>
  BY <1>2 DEF Strike
<1> HIDE DEF s
<1>5. /\ InTurns(Append(queue, s), held')
      /\ \A o : DownAt(Append(queue, s), held', o, 1) <=> DownAt(queue, held, o, 1)
  BY <1>1, <1>2, <1>3, StrokeAdded DEF StrokesInv
<1>6. InTurns(queue', held') /\ \A o : DownAt(queue', held', o, 1) <=> DownAt(queue, held, o, 1)
  BY <1>4, <1>5
<1>7. queue' \in Seq(StrokeRecords)
  BY DEF StrokesTypes, StrokeRecords
<1>8. ASSUME NEW o
      PROVE  WasDown(o)' <=> WasDown(o)
  <2>1. WasDown(o) <=> DownAt(queue, held, o, 1)
    BY <1>1, WasDownIsDownAt
  <2>2. DOMAIN queue' = 1..Len(queue')
    BY <1>7
  <2>3. WasDown(o)' <=> DownAt(queue', held', o, 1)
    BY <2>2 DEF WasDown, DownAt
  <2> QED
    BY <1>6, <2>1, <2>3
<1>9. KeysFollowKeyboard'
  BY <1>4, <1>8, SameKeys DEF StrokesInv
<1> QED
  BY <1>4, <1>6, <1>9 DEF StrokesInv, ClosedWhileLoading, ConsoleKeys, gameVars, console

(* A frame with a stroke: of the keys only the stroke's own moves.         *)
LEMMA FrameStep ==
  ASSUME StrokesInv, TakeStroke, StrokesTypes'
  PROVE  StrokesInv'
<1> DEFINE s == Head(queue)
           key == KeyOf(s.key, s.shift)
<1>1. queue \in Seq(StrokeRecords) /\ queue # <<>>
  BY DEF StrokesInv, StrokesTypes, StrokeRecords, TakeStroke
<1>2. s \in StrokeRecords
  BY <1>1
<1>3. /\ queue' = Tail(queue) /\ UNCHANGED <<title, connection, held>> /\ connection # "loading"
      /\ update_modifier_state(key, ~is_keyup(s))
      /\ IW3Stroke(s, key) \/ T4MPStroke(s, key) \/ T4SPStroke(s, key) \/ IW4Stroke(s, key)
  BY DEF TakeStroke
<1>4. title \in AllTitles /\ s.key \in Keyboard /\ s.shift \in BOOLEAN
  BY <1>2 DEF StrokesInv, StrokesTypes, StrokeRecords
<1>5. key = Names[title][s.key][s.shift] /\ key \in AllNames[title] /\ s.key \in KeysOf(key)
  BY <1>4, TitleNames DEF KeyOf, KeysOf
<1>6. /\ InTurns(queue', held') /\ s.flags \in Flags
      /\ \A k : k # s.key => (DownAt(queue', held', k, 1) <=> DownAt(queue, held, k, 1))
      /\ DownAt(queue', held', s.key, 1) <=> s.flags # {"keyup"}
  BY <1>1, <1>3, StrokeTaken DEF StrokesInv
<1>7. is_keyup(s) <=> s.flags = {"keyup"}
  BY <1>6 DEF Flags, is_keyup
<1>8. DOMAIN queue = 1..Len(queue) /\ DOMAIN queue' = 1..Len(queue')
  BY <1>1, <1>3
<1> HIDE DEF s, key
<1>9. \A k : WasDown(k) <=> DownAt(queue, held, k, 1)
  BY <1>1, WasDownIsDownAt
<1>10. ASSUME NEW k
       PROVE  /\ k # s.key => (WasDown(k)' <=> WasDown(k))
              /\ k = s.key => (WasDown(k)' <=> ~ is_keyup(s))
  <2>1. WasDown(k)' <=> DownAt(queue', held', k, 1)
    BY <1>8 DEF WasDown, DownAt
  <2> QED
    BY <1>6, <1>7, <1>9, <2>1
<1>11. ASSUME NEW m \in AllNames[title], m # key, m \in OneKey[title] \/ m \in Modifiers
       PROVE  s.key \notin KeysOf(m)
  <2> SUFFICES ASSUME s.key \in KeysOf(m) PROVE FALSE
    OBVIOUS
  <2>1. PICK shift \in BOOLEAN : Names[title][s.key][shift] = m
    BY <1>4, TitleNames DEF KeysOf
  <2>2. CASE m \in OneKey[title]
    BY <1>4, <1>5, <1>11, <2>2, TitleNames DEF KeysOf
  <2>3. CASE m \in Modifiers
    <3>1. m \in {"K_SHIFT", "K_CTRL"}
      BY <2>3 DEF Modifiers
    <3>2. \A other \in BOOLEAN : Names[title][s.key][other] = m
      BY <1>4, <2>1, <3>1, ModifiersAreFixed
    <3> QED
      BY <1>4, <1>5, <1>11, <3>2
  <2> QED
    BY <1>11, <2>2, <2>3
<1>12. ASSUME NEW m \in (Modifiers \intersect AllNames[title]) \ unknown'
       PROVE  /\ m \in down' => \E k \in KeysOf(m) : WasDown(k)'
              /\ (\A k \in KeysOf(m) : WasDown(k)') => m \in down'
  <2>1. CASE m = key
    <3>1. m \in down' <=> ~ is_keyup(s)
      BY <1>3, <1>12, <2>1 DEF update_modifier_state
    <3> QED
      BY <1>5, <1>10, <2>1, <3>1
  <2>2. CASE m # key
    <3>1. m \notin unknown /\ (m \in down' <=> m \in down)
      BY <1>3, <1>12, <2>2 DEF update_modifier_state
    <3>2. \A k \in KeysOf(m) : WasDown(k)' <=> WasDown(k)
      BY <1>10, <1>11, <1>12, <2>2
    <3>3. /\ m \in down => \E k \in KeysOf(m) : WasDown(k)
          /\ (\A k \in KeysOf(m) : WasDown(k)) => m \in down
      BY <1>12, <3>1 DEF StrokesInv, KeysFollowKeyboard
    <3> QED
      BY <3>1, <3>2, <3>3
  <2> QED
    BY <2>1, <2>2
<1>13. /\ \A other : other # key => /\ (other \in gameDown' <=> other \in gameDown)
                                   /\ (other \in swallowed' <=> other \in swallowed)
       /\ key \in gameDown' \ swallowed' => ~ is_keyup(s)
       /\ gameDown' \cap ConsoleKeys = {}
       /\ title \in {"t4_mp", "t4_sp"} => gameDown' = {}
  <2>1. CASE title \in {"t4_mp", "t4_sp"}
    <3>1. gameDown' = gameDown
      BY <1>3, <2>1 DEF IW3Stroke, T4MPStroke, T4SPStroke, IW4Stroke, T4Stroke, dispatch_console_key, gameVars
    <3>2. swallowed' \subseteq gameDown'
      BY DEF StrokesTypes
    <3> QED
      BY <2>1, <3>1, <3>2 DEF StrokesInv, StrokesTypes
  <2>2. CASE title = "iw3_mp"
    <3>1. IW3Stroke(s, key)
      BY <1>3, <2>2 DEF T4MPStroke, T4SPStroke, IW4Stroke
    <3>2. CASE CL_IsConsoleKey(key)
      <4>1. key \notin gameDown /\ UNCHANGED <<gameDown, swallowed>>
        BY <2>2, <3>1, <3>2 DEF IW3Stroke, StrokesInv, CL_IsConsoleKey, ConsoleKeys, gameVars
      <4> QED
        BY <2>2, <4>1 DEF StrokesInv
    <3>3. CASE ~ CL_IsConsoleKey(key) /\ open
      <4>1. dispatch_console_key(s, key)
        BY <3>1, <3>3 DEF IW3Stroke
      <4> QED
        BY <2>2, <4>1 DEF dispatch_console_key, StrokesInv
    <3>4. CASE ~ CL_IsConsoleKey(key) /\ ~open
      <4>1. SendToGame(key, ~ is_keyup(s))
        BY <3>1, <3>4 DEF IW3Stroke
      <4>2. key \notin ConsoleKeys
        BY <2>2, <3>4 DEF ConsoleKeys, CL_IsConsoleKey
      <4> QED
        BY <2>2, <4>1, <4>2 DEF SendToGame, StrokesInv
    <3> QED
      BY <3>2, <3>3, <3>4
  <2>3. CASE title = "iw4_mp"
    <3>1. IW4Stroke(s, key)
      BY <1>3, <2>3 DEF T4MPStroke, T4SPStroke, IW3Stroke
    <3>2. CASE iw4_is_console_key(key)
      <4>1. key \notin gameDown /\ UNCHANGED <<gameDown, swallowed>>
        BY <2>3, <3>1, <3>2 DEF IW4Stroke, StrokesInv, iw4_is_console_key, ConsoleKeys, gameVars
      <4> QED
        BY <2>3, <4>1 DEF StrokesInv
    <3>3. CASE ~ iw4_is_console_key(key)
      <4>1. SendToGame(key, ~ is_keyup(s))
        BY <3>1, <3>3 DEF IW4Stroke
      <4>2. key \notin ConsoleKeys
        BY <2>3, <3>3 DEF ConsoleKeys, iw4_is_console_key
      <4> QED
        BY <2>3, <4>1, <4>2 DEF SendToGame, StrokesInv
    <3> QED
      BY <3>2, <3>3
  <2> QED
    BY <1>4, <2>1, <2>2, <2>3 DEF AllTitles
<1>14. ASSUME NEW other \in (gameDown' \ swallowed') \intersect OneKey[title]
       PROVE  \E k \in KeysOf(other) : WasDown(k)'
  <2>1. CASE other = key
    BY <1>5, <1>10, <1>13, <1>14, <2>1
  <2>2. CASE other # key
    <3>1. other \in AllNames[title] /\ other \in gameDown \ swallowed
      BY <1>4, <1>13, <1>14, <2>2, TitleNames
    <3>2. PICK k \in KeysOf(other) : WasDown(k)
      BY <1>14, <3>1 DEF StrokesInv, KeysFollowKeyboard
    <3>3. k # s.key
      BY <1>11, <1>14, <2>2, <3>1, <3>2
    <3> QED
      BY <1>10, <3>2, <3>3
  <2> QED
    BY <2>1, <2>2
<1>15. KeysFollowKeyboard'
  BY <1>3, <1>12, <1>14 DEF KeysFollowKeyboard, Modifiers, KeysOf
<1>16. ClosedWhileLoading'
  BY <1>3 DEF ClosedWhileLoading
<1> QED
  BY <1>3, <1>6, <1>13, <1>15, <1>16 DEF StrokesInv, ConsoleKeys

LEMMA StrokesTypesKept ==
  ASSUME StrokesInv, [StrokesNext]_strokesVars
  PROVE  StrokesTypes'
<1>1. CASE TakeStroke
  <2> DEFINE s == Head(queue)
             key == KeyOf(s.key, s.shift)
  <2>1. queue \in Seq(StrokeRecords) /\ queue # <<>>
    BY <1>1 DEF StrokesInv, StrokesTypes, StrokeRecords, TakeStroke
  <2>2. s \in StrokeRecords /\ Tail(queue) \in Seq(StrokeRecords)
    BY <2>1
  <2>3. title \in AllTitles /\ s.key \in Keyboard /\ s.shift \in BOOLEAN
    BY <2>2 DEF StrokesInv, StrokesTypes, StrokeRecords
  <2>4. key \in AllNames[title]
    BY <2>3, TitleNames DEF KeyOf
  <2>5. /\ queue' = Tail(queue) /\ UNCHANGED <<title, connection, held>> /\ previous' = connection
        /\ update_modifier_state(key, ~is_keyup(s))
        /\ IW3Stroke(s, key) \/ T4MPStroke(s, key) \/ T4SPStroke(s, key) \/ IW4Stroke(s, key)
    BY <1>1 DEF TakeStroke
  <2> HIDE DEF s, key
  <2>6. down' \subseteq Modifiers' /\ unknown' \subseteq Modifiers'
    BY <2>5 DEF update_modifier_state, Modifiers, StrokesInv, StrokesTypes
  <2>7. open \in BOOLEAN /\ outputVisible \in BOOLEAN
    BY DEF StrokesInv, StrokesTypes
  <2>8. close \/ toggle \/ toggle_large_console => open' \in BOOLEAN /\ outputVisible' \in BOOLEAN
    BY <2>7 DEF close, toggle, toggle_large_console, Con_Close, Con_ToggleConsole
  <2>9. ASSUME ConsoleKey(s) \/ IW4ConsoleKey(s, key) \/ UNCHANGED console \/ close
        PROVE  open' \in BOOLEAN /\ outputVisible' \in BOOLEAN
    BY <2>7, <2>8, <2>9 DEF ConsoleKey, IW4ConsoleKey, OnPress, console
  <2>10. open' \in BOOLEAN /\ outputVisible' \in BOOLEAN
    BY <2>5, <2>7, <2>9 DEF IW3Stroke, T4MPStroke, T4SPStroke, IW4Stroke, T4Stroke, dispatch_console_key
  <2>11. gameDown' \subseteq AllNames[title] /\ swallowed' \subseteq gameDown'
    BY <2>4, <2>5 DEF StrokesInv, StrokesTypes, gameVars, IW3Stroke, T4MPStroke, T4SPStroke, IW4Stroke,
                      T4Stroke, dispatch_console_key, SendToGame
  <2> QED
    BY <2>2, <2>5, <2>6, <2>10, <2>11 DEF StrokesInv, StrokesTypes, StrokeRecords
<1>2. CASE EmptyFrame \/ LoadingFrame \/ Cmd_ToggleConsole_f \/ ChangeConnection
  BY <1>2 DEF StrokesInv, StrokesTypes, EmptyFrame, LoadingFrame, Cmd_ToggleConsole_f, ChangeConnection,
              toggle, close, Con_Close, Con_ToggleConsole, console, gameVars, Modifiers
<1>3. ASSUME NEW k \in Keyboard, PressKey(k) \/ ReleaseKey(k) \/ HoldOn(k)
      PROVE  StrokesTypes'
  <2>1. PICK flags \in Flags : Strike(k, flags)
    BY <1>3 DEF PressKey, ReleaseKey, HoldOn, Flags
  <2>2. held' \subseteq Keyboard
    BY <1>3 DEF PressKey, ReleaseKey, HoldOn, StrokesInv, StrokesTypes
  <2> DEFINE s == [key |-> k, flags |-> flags, shift |-> held' \intersect {"lshift", "rshift"} # {}]
  <2>3. s \in StrokeRecords
    BY DEF StrokeRecords, Flags
  <2>4. queue' = Append(queue, s) /\ UNCHANGED <<title, connection, previous, console, down, gameVars, unknown>>
    BY <2>1 DEF Strike
  <2> HIDE DEF s
  <2>5. queue \in Seq(StrokeRecords)
    BY DEF StrokesInv, StrokesTypes, StrokeRecords
  <2>6. queue' \in Seq(StrokeRecords)
    BY <2>3, <2>4, <2>5
  <2> QED
    BY <2>2, <2>4, <2>6 DEF StrokesInv, StrokesTypes, StrokeRecords, console, gameVars, Modifiers
<1>4. CASE Relaunch
  <2>1. queue' \in Seq(StrokeRecords)
    BY <1>4 DEF Relaunch
  <2>2. title' \in AllTitles /\ previous' \in {"loading", "other"} /\ connection' = "other"
    BY <1>4 DEF Relaunch, StrokesInv, StrokesTypes
  <2>3. down' \subseteq Modifiers' /\ unknown' \subseteq Modifiers' /\ held' \subseteq Keyboard
    BY <1>4 DEF Relaunch, StrokesInv, StrokesTypes, Modifiers
  <2>4. gameDown' = {} /\ swallowed' = {} /\ open' = FALSE /\ outputVisible' = FALSE
    BY <1>4 DEF Relaunch
  <2> QED
    BY <2>1, <2>2, <2>3, <2>4 DEF StrokesTypes, StrokeRecords
<1>5. CASE UNCHANGED strokesVars
  BY <1>5 DEF strokesVars, StrokesInv, StrokesTypes, console, gameVars, Modifiers
<1> QED
  BY <1>1, <1>2, <1>3, <1>4, <1>5 DEF StrokesNext

LEMMA StrokesStep ==
  ASSUME StrokesInv, [StrokesNext]_strokesVars
  PROVE  StrokesInv'
<1>1. StrokesTypes'
  BY StrokesTypesKept
<1>2. CASE UNCHANGED strokesVars
  BY <1>1, <1>2, SameQueue DEF strokesVars, StrokesInv, ClosedWhileLoading, console
<1> QED
  BY <1>1, <1>2, FrameStep, ConsoleSteps, KeyboardStep, RelaunchStep DEF StrokesNext

(* What the plugin and the game think of the keys follows the keyboard     *)
(* through consoles, loads and launches, and the console stays closed      *)
(* while the client loads: StrokesInOrder, for any keys and any queue.     *)
THEOREM KeystrokesInOrder == StrokesSpec => []StrokesInOrder
<1>1. StrokesInv => StrokesInOrder
  BY DEF StrokesInv, StrokesInOrder
<1> QED
  BY <1>1, StrokesStart, StrokesStep, PTL DEF StrokesSpec

-----------------------------------------------------------------------------
(* First and last of a set of positions *)

LEMMA LeastOf ==
  ASSUME NEW S \in SUBSET Nat, S # {}
  PROVE  \E m \in S : \A k \in S : m <= k
<1>1. PICK m \in S : \A k \in S : ~ (<<k, m>> \in OpToRel(<, Nat))
  BY NatLessThanWellFounded, WFMin, Zenon
<1>2. ASSUME NEW k \in S
      PROVE  m <= k
  <2>1. m \in Nat /\ k \in Nat
    OBVIOUS
  <2>2. ~ (k < m)
    BY <1>1, <2>1 DEF OpToRel
  <2> QED
    BY <2>1, <2>2
<1> QED
  BY <1>2

LEMMA GreatestOf ==
  ASSUME NEW n \in Nat, NEW S \in SUBSET (0..n), S # {}
  PROVE  \E m \in S : \A k \in S : k <= m
<1> DEFINE D == {d \in Nat : n - d \in S}
<1>1. PICK k \in S : TRUE
  OBVIOUS
<1>2. n - k \in Nat /\ n - (n - k) = k
  OBVIOUS
<1>3. D # {} /\ D \in SUBSET Nat
  BY <1>2
<1> HIDE DEF D
<1>4. PICK d \in D : \A other \in D : d <= other
  BY <1>3, LeastOf
<1>5. n - d \in S /\ d \in Nat
  BY <1>4 DEF D
<1>6. ASSUME NEW l \in S
      PROVE  l <= n - d
  <2>1. n - l \in D /\ l \in Nat /\ l <= n
    BY DEF D
  <2>2. d <= n - l
    BY <1>4, <2>1
  <2> QED
    BY <1>5, <2>1, <2>2
<1> QED
  BY <1>5, <1>6

-----------------------------------------------------------------------------
(* Buffers and their text *)

Buffers == [Cells -> Chars \union {NUL}]

(* The text of a buffer ends before cell n.                                *)
EndsAt(b, n) == n \in Cells /\ b[n] = NUL /\ \A i \in 0..n - 1 : b[i] # NUL

LEMMA LengthIs ==
  ASSUME NEW b, NEW n, EndsAt(b, n)
  PROVE  Length(b) = n
<1> DEFINE P(k) == k \in Cells /\ b[k] = NUL /\ \A i \in 0..k - 1 : b[i] # NUL
<1>1. P(n)
  BY DEF EndsAt
<1>2. \A k : P(k) => k = n
  BY <1>1, ConsoleLineAssumption DEF Cells
<1>3. Length(b) = CHOOSE k : P(k)
  BY DEF Length
<1> QED
  BY <1>1, <1>2, <1>3

LEMMA LengthFound ==
  ASSUME NEW b, \E n \in Cells : b[n] = NUL
  PROVE  EndsAt(b, Length(b)) /\ Length(b) \in Nat
<1> DEFINE S == {n \in Cells : b[n] = NUL}
<1>1. S # {} /\ S \in SUBSET Nat
  BY ConsoleLineAssumption DEF Cells
<1> HIDE DEF S
<1>2. PICK m \in S : \A k \in S : m <= k
  BY <1>1, LeastOf
<1>3. EndsAt(b, m) /\ m \in Nat
  BY <1>2, ConsoleLineAssumption DEF EndsAt, Cells, S
<1> QED
  BY <1>3, LengthIs

LEMMA TextIs ==
  ASSUME NEW b \in Buffers, NEW n, EndsAt(b, n)
  PROVE  /\ n \in Nat /\ n < BufferSize
         /\ Text(b) \in Seq(Chars) /\ Len(Text(b)) = n
         /\ \A i \in 1..n : Text(b)[i] = b[i - 1]
<1>1. n \in Nat /\ n < BufferSize
  BY ConsoleLineAssumption DEF EndsAt, Cells
<1>2. Text(b) = [i \in 1..n |-> b[i - 1]]
  BY LengthIs DEF Text
<1>3. \A i \in 1..n : b[i - 1] \in Chars
  BY <1>1, ConsoleLineAssumption DEF EndsAt, Cells, Buffers
<1> QED
  BY <1>1, <1>2, <1>3

LEMMA TextSame ==
  ASSUME NEW s \in Seq(Chars), NEW b \in Buffers, EndsAt(b, Len(s)), \A i \in 1..Len(s) : s[i] = b[i - 1]
  PROVE  Text(b) = s
BY TextIs, SeqEqual

LEMMA Joined ==
  ASSUME NEW s \in Seq(Chars), NEW t \in Seq(Chars), NEW m, NEW n, Len(s) = m, Len(t) = n
  PROVE  /\ m \in Nat /\ n \in Nat /\ s \o t \in Seq(Chars) /\ Len(s \o t) = m + n
         /\ \A i \in 1..m + n : (s \o t)[i] = IF i <= m THEN s[i] ELSE t[i - m]
<1>1. m \in Nat /\ n \in Nat
  OBVIOUS
<1>2. s \o t \in Seq(Chars)
  BY ConcatProperties
<1>3. Len(s \o t) = Len(s) + Len(t)
  BY ConcatProperties
<1>4. \A i \in 1..Len(s) + Len(t) : (s \o t)[i] = IF i <= Len(s) THEN s[i] ELSE t[i - Len(s)]
  BY ConcatProperties
<1> QED
  BY <1>1, <1>2, <1>3, <1>4

LEMMA Removed ==
  ASSUME NEW s \in Seq(Chars), NEW n \in 1..Len(s)
  PROVE  /\ Editor!RemoveAt(s, n) \in Seq(Chars) /\ Len(Editor!RemoveAt(s, n)) = Len(s) - 1
         /\ \A i \in 1..Len(s) - 1 : Editor!RemoveAt(s, n)[i] = IF i < n THEN s[i] ELSE s[i + 1]
<1> DEFINE a == SubSeq(s, 1, n - 1)
           z == SubSeq(s, n + 1, Len(s))
<1>1. Len(s) \in Nat /\ \A i \in 1..Len(s) : s[i] \in Chars
  OBVIOUS
<1>2. a \in Seq(Chars) /\ Len(a) = n - 1 /\ \A i \in 1..n - 1 : a[i] = s[i]
  BY <1>1, SubSeqProperties
<1>3. z \in Seq(Chars) /\ Len(z) = Len(s) - n /\ \A i \in 1..Len(s) - n : z[i] = s[n + i]
  BY <1>1, SubSeqProperties
<1>4. Editor!RemoveAt(s, n) = a \o z
  BY DEF Editor!RemoveAt
<1> HIDE DEF a, z
<1>5. a \o z \in Seq(Chars) /\ Len(a \o z) = Len(s) - 1 /\
      \A i \in 1..Len(s) - 1 : (a \o z)[i] = IF i <= n - 1 THEN a[i] ELSE z[i - (n - 1)]
  <2> DEFINE m == n - 1
             r == Len(s) - n
  <2> HIDE DEF m, r
  <2>1. a \o z \in Seq(Chars) /\ Len(a \o z) = m + r /\
        \A i \in 1..m + r : (a \o z)[i] = IF i <= m THEN a[i] ELSE z[i - m]
    <3>1. a \in Seq(Chars) /\ z \in Seq(Chars) /\ Len(a) = m /\ Len(z) = r
      BY <1>2, <1>3 DEF m, r
    <3> QED
      BY <3>1, Joined
  <2>2. m + r = Len(s) - 1 /\ m = n - 1
    BY <1>1 DEF m, r
  <2> QED
    BY <2>1, <2>2
<1>6. ASSUME NEW i \in 1..Len(s) - 1
      PROVE  (a \o z)[i] = IF i < n THEN s[i] ELSE s[i + 1]
  <2>1. CASE i < n
    BY <1>1, <1>2, <1>5, <2>1
  <2>2. CASE ~ (i < n)
    <3>1. i - (n - 1) \in 1..Len(s) - n /\ n + (i - (n - 1)) = i + 1 /\ ~ (i <= n - 1)
      BY <1>1, <2>2
    <3> QED
      BY <1>3, <1>5, <2>2, <3>1
  <2> QED
    BY <2>1, <2>2
<1> QED
  BY <1>4, <1>5, <1>6

LEMMA Inserted ==
  ASSUME NEW s \in Seq(Chars), NEW n \in 1..Len(s) + 1, NEW c \in Chars
  PROVE  /\ Editor!InsertAt(s, n, c) \in Seq(Chars) /\ Len(Editor!InsertAt(s, n, c)) = Len(s) + 1
         /\ \A i \in 1..n - 1 : Editor!InsertAt(s, n, c)[i] = s[i]
         /\ \A i \in {n} : Editor!InsertAt(s, n, c)[i] = c
         /\ \A i \in n + 1..Len(s) + 1 : Editor!InsertAt(s, n, c)[i] = s[i - 1]
<1> DEFINE a == SubSeq(s, 1, n - 1)
           z == SubSeq(s, n, Len(s))
<1>1. Len(s) \in Nat /\ \A i \in 1..Len(s) : s[i] \in Chars
  OBVIOUS
<1>2. a \in Seq(Chars) /\ Len(a) = n - 1 /\ \A i \in 1..n - 1 : a[i] = s[i]
  BY <1>1, SubSeqProperties
<1>3. z \in Seq(Chars) /\ Len(z) = Len(s) - n + 1 /\ \A i \in 1..Len(s) - n + 1 : z[i] = s[n + i - 1]
  BY <1>1, SubSeqProperties
<1>4. Editor!InsertAt(s, n, c) = a \o <<c>> \o z
  BY DEF Editor!InsertAt
<1> HIDE DEF a, z
<1>5. <<c>> \in Seq(Chars) /\ Len(<<c>>) = 1 /\ <<c>>[1] = c
  OBVIOUS
<1>6. a \o <<c>> \in Seq(Chars) /\ Len(a \o <<c>>) = n /\
      \A i \in 1..n : (a \o <<c>>)[i] = IF i <= n - 1 THEN s[i] ELSE c
  <2>1. a \o <<c>> \in Seq(Chars) /\ Len(a \o <<c>>) = n - 1 + 1 /\
        \A i \in 1..n - 1 + 1 : (a \o <<c>>)[i] = IF i <= n - 1 THEN a[i] ELSE <<c>>[i - (n - 1)]
    BY <1>2, <1>5, Joined
  <2>2. \A i \in 1..n : ~ (i <= n - 1) => i - (n - 1) = 1
    BY <1>1
  <2> QED
    BY <1>1, <1>2, <1>5, <2>1, <2>2
<1> DEFINE b == a \o <<c>>
<1> HIDE DEF b
<1>7. b \o z \in Seq(Chars) /\ Len(b \o z) = Len(s) + 1 /\
      \A i \in 1..Len(s) + 1 : (b \o z)[i] = IF i <= n THEN b[i] ELSE z[i - n]
  <2>1. b \in Seq(Chars) /\ Len(b) = n
    BY <1>6 DEF b
  <2>2. b \o z \in Seq(Chars) /\ Len(b \o z) = n + (Len(s) - n + 1) /\
        \A i \in 1..n + (Len(s) - n + 1) : (b \o z)[i] = IF i <= n THEN b[i] ELSE z[i - n]
    BY <1>3, <2>1, Joined
  <2>3. n + (Len(s) - n + 1) = Len(s) + 1
    BY <1>1
  <2> QED
    BY <2>2, <2>3
<1>8. ASSUME NEW i \in 1..Len(s) + 1
      PROVE  (b \o z)[i] = IF i < n THEN s[i] ELSE IF i = n THEN c ELSE s[i - 1]
  <2>1. CASE i <= n
    BY <1>1, <1>6, <1>7, <2>1 DEF b
  <2>2. CASE ~ (i <= n)
    <3>1. i - n \in 1..Len(s) - n + 1 /\ n + (i - n) - 1 = i - 1
      BY <1>1, <2>2
    <3> QED
      BY <1>3, <1>7, <2>2, <3>1
  <2> QED
    BY <2>1, <2>2
<1> DEFINE e == b \o z
<1> HIDE DEF e
<1>9. /\ \A i \in 1..n - 1 : e[i] = s[i]
      /\ e[n] = c
      /\ \A i \in n + 1..Len(s) + 1 : e[i] = s[i - 1]
  <2>1. \A i \in 1..Len(s) + 1 : e[i] = IF i < n THEN s[i] ELSE IF i = n THEN c ELSE s[i - 1]
    BY <1>8 DEF e
  <2>2. \A i \in 1..n - 1 : e[i] = s[i]
    BY <1>1, <2>1
  <2>3. e[n] = c
    BY <1>1, <2>1
  <2>4. \A i \in n + 1..Len(s) + 1 : e[i] = s[i - 1]
    BY <1>1, <2>1
  <2> QED
    BY <2>2, <2>3, <2>4
<1> QED
  BY <1>4, <1>7, <1>9 DEF b, e

(* memmove that closes the gap of a character, and that opens one.          *)
LEMMA Closed ==
  ASSUME NEW b \in Buffers, NEW n, EndsAt(b, n), NEW k \in 1..n,
         NEW d, d = [i \in Cells |-> IF i \in k - 1..n - 1 THEN b[i + 1] ELSE b[i]]
  PROVE  d \in Buffers /\ EndsAt(d, n - 1) /\ Text(d) = Editor!RemoveAt(Text(b), k)
<1>1. n \in Nat /\ n < BufferSize /\ Text(b) \in Seq(Chars) /\ Len(Text(b)) = n
      /\ \A i \in 1..n : Text(b)[i] = b[i - 1]
  BY TextIs
<1>2. d \in Buffers
  BY <1>1, ConsoleLineAssumption DEF Buffers, Cells
<1>3. EndsAt(d, n - 1)
  BY <1>1, ConsoleLineAssumption DEF EndsAt, Cells
<1> DEFINE s == Editor!RemoveAt(Text(b), k)
<1>4. s \in Seq(Chars) /\ Len(s) = n - 1 /\
      \A i \in 1..n - 1 : s[i] = IF i < k THEN Text(b)[i] ELSE Text(b)[i + 1]
  BY <1>1, Removed
<1> HIDE DEF s
<1>5. ASSUME NEW i \in 1..n - 1
      PROVE  s[i] = d[i - 1]
  <2>1. i - 1 \in Cells /\ i + 1 - 1 = i /\ i \in 1..n /\ i + 1 \in 1..n /\ i - 1 + 1 = i
    BY <1>1, ConsoleLineAssumption DEF Cells
  <2>2. CASE i < k
    <3>1. s[i] = b[i - 1] /\ d[i - 1] = b[i - 1]
      BY <1>1, <1>4, <2>1, <2>2
    <3> QED
      BY <3>1
  <2>3. CASE ~ (i < k)
    <3>1. s[i] = b[i + 1 - 1] /\ d[i - 1] = b[i - 1 + 1]
      BY <1>1, <1>4, <2>1, <2>3
    <3> QED
      BY <2>1, <3>1
  <2> QED
    BY <2>2, <2>3
<1>6. Text(d) = s
  BY <1>2, <1>3, <1>4, <1>5, TextSame
<1> QED
  BY <1>2, <1>3, <1>6 DEF s

LEMMA Opened ==
  ASSUME NEW b \in Buffers, NEW n, EndsAt(b, n), n < BufferSize - 1, NEW k \in 1..n + 1, NEW c \in Chars,
         NEW d, d = [i \in Cells |-> IF i = k - 1 THEN c ELSE IF i \in k..n + 1 THEN b[i - 1] ELSE b[i]]
  PROVE  d \in Buffers /\ EndsAt(d, n + 1) /\ Text(d) = Editor!InsertAt(Text(b), k, c)
<1>1. n \in Nat /\ n < BufferSize /\ Text(b) \in Seq(Chars) /\ Len(Text(b)) = n
      /\ \A i \in 1..n : Text(b)[i] = b[i - 1]
  BY TextIs
<1>2. d \in Buffers
  BY <1>1, ConsoleLineAssumption DEF Buffers, Cells
<1>3. EndsAt(d, n + 1)
  <2>1. n + 1 \in Cells /\ d[n + 1] = NUL
    BY <1>1, ConsoleLineAssumption DEF EndsAt, Cells
  <2>2. ASSUME NEW i \in 0..n
        PROVE  d[i] # NUL
    <3>1. i \in Cells
      BY <1>1, ConsoleLineAssumption DEF Cells
    <3>2. CASE i < k - 1
      BY <1>1, <3>1, <3>2 DEF EndsAt
    <3>3. CASE i = k - 1
      BY <3>1, <3>3, ConsoleLineAssumption
    <3>4. CASE i > k - 1
      BY <1>1, <3>1, <3>4 DEF EndsAt
    <3> QED
      BY <1>1, <3>2, <3>3, <3>4
  <2> QED
    BY <1>1, <2>1, <2>2 DEF EndsAt
<1> DEFINE s == Editor!InsertAt(Text(b), k, c)
<1>4. /\ s \in Seq(Chars) /\ Len(s) = n + 1
      /\ \A i \in 1..k - 1 : s[i] = Text(b)[i]
      /\ s[k] = c
      /\ \A i \in k + 1..n + 1 : s[i] = Text(b)[i - 1]
  <2> DEFINE t == Text(b)
  <2>1. t \in Seq(Chars) /\ k \in 1..Len(t) + 1 /\ Len(t) = n
    BY <1>1
  <2> HIDE DEF t
  <2>2. Editor!InsertAt(t, k, c) \in Seq(Chars)
    BY <2>1, Inserted
  <2>3. Len(Editor!InsertAt(t, k, c)) = Len(t) + 1
    BY <2>1, Inserted
  <2>4. \A i \in 1..k - 1 : Editor!InsertAt(t, k, c)[i] = t[i]
    BY <2>1, Inserted
  <2>5. \A i \in {k} : Editor!InsertAt(t, k, c)[i] = c
    BY <2>1, Inserted
  <2>6. \A i \in k + 1..Len(t) + 1 : Editor!InsertAt(t, k, c)[i] = t[i - 1]
    BY <2>1, Inserted
  <2> QED
    BY <2>1, <2>2, <2>3, <2>4, <2>5, <2>6 DEF s, t
<1> HIDE DEF s
<1>5. ASSUME NEW i \in 1..n + 1
      PROVE  s[i] = d[i - 1]
  <2>1. i - 1 \in Cells
    BY <1>1, ConsoleLineAssumption DEF Cells
  <2>2. CASE i < k
    <3>1. s[i] = b[i - 1] /\ d[i - 1] = b[i - 1]
      BY <1>1, <1>4, <2>1, <2>2
    <3> QED
      BY <3>1
  <2>3. CASE i = k
    BY <1>1, <1>4, <2>1, <2>3
  <2>4. CASE i > k
    <3>1. i - 1 \in 1..n /\ i - 1 \in k..n + 1 /\ i - 1 # k - 1
      BY <1>1, <2>4
    <3>2. s[i] = Text(b)[i - 1] /\ Text(b)[i - 1] = b[i - 1 - 1] /\ d[i - 1] = b[i - 1 - 1]
      BY <1>1, <1>4, <2>1, <2>4, <3>1
    <3> QED
      BY <3>2
  <2> QED
    BY <1>1, <2>2, <2>3, <2>4
<1>6. Text(d) = s
  BY <1>2, <1>3, <1>4, <1>5, TextSame
<1> QED
  BY <1>2, <1>3, <1>6 DEF s

LEMMA BlankIsEmpty == Blank \in Buffers /\ EndsAt(Blank, 0) /\ Text(Blank) = <<>>
<1>1. Blank \in Buffers /\ EndsAt(Blank, 0)
  BY ConsoleLineAssumption DEF Blank, Buffers, EndsAt, Cells
<1>2. Text(Blank) \in Seq(Chars) /\ Len(Text(Blank)) = 0
  BY <1>1, TextIs
<1> QED
  BY <1>1, <1>2

-----------------------------------------------------------------------------
(* The invariant *)

RingEntries == [buffer : Buffers, cursor : Nat]

(* The ring holds the lines that can still be called back, each with a     *)
(* cursor in it.                                                           *)
RingHolds ==
  /\ historyEditLines \in [RingSlots -> RingEntries]
  /\ \A i \in RingSlots :
       /\ EndsAt(historyEditLines[i].buffer, Length(historyEditLines[i].buffer))
       /\ historyEditLines[i].cursor <= Length(historyEditLines[i].buffer)
  /\ nextHistoryLine \in Nat /\ historyLine \in Nat
  /\ submitted \in Seq(Seq(Chars)) /\ Len(submitted) = nextHistoryLine
  /\ \A n \in 0..nextHistoryLine - 1 :
       nextHistoryLine - n <= console_history_count =>
         Text(historyEditLines[n % console_history_count].buffer) = submitted[n + 1]

LineInv ==
  /\ LineTypes /\ PageIsFull /\ RingHolds
  /\ conDisplayLineOffset \in Nat /\ conActiveLineCount \in Nat

LEMMA LineInvInit == LineInit => LineInv /\ Editor!Init
<1> SUFFICES ASSUME LineInit
             PROVE  LineInv /\ Editor!Init
  OBVIOUS
<1>1. Blank \in Buffers /\ EndsAt(Blank, 0) /\ Text(Blank) = <<>> /\ Length(Blank) = 0
  BY BlankIsEmpty, LengthIs
<1>2. LineTypes
  BY <1>1, ConsoleLineAssumption DEF LineInit, LineTypes, EndsAt, Buffers, len
<1>3. PageIsFull
  BY ConsoleLineAssumption DEF LineInit, PageIsFull, FirstFull
<1>4. submitted \in Seq(Seq(Chars)) /\ Len(submitted) = 0
  BY DEF LineInit
<1>5. RingHolds
  BY <1>1, <1>4, ConsoleLineAssumption DEF LineInit, RingHolds, RingEntries
<1>6. Editor!Init
  BY <1>1 DEF LineInit, Editor!Init
<1> QED
  BY <1>2, <1>3, <1>5, <1>6 DEF LineInv, LineInit

-----------------------------------------------------------------------------
(* Editing *)

(* A step that leaves the history alone and keeps a text with a cursor.     *)
LEMMA EditKeeps ==
  ASSUME LineInv, UNCHANGED <<historyVars, title, pageVars>>,
         buffer' \in Buffers, NEW n, EndsAt(buffer', n), cursor' \in 0..n
  PROVE  LineInv'
<1>1. Length(buffer') = n /\ n \in Cells
  BY LengthIs DEF EndsAt
<1>2. LineTypes'
  BY <1>1 DEF LineInv, LineTypes, historyVars, EndsAt, Buffers, len
<1>3. RingHolds'
  BY DEF LineInv, RingHolds, historyVars
<1>4. PageIsFull' /\ conDisplayLineOffset' \in Nat /\ conActiveLineCount' \in Nat
  BY DEF LineInv, PageIsFull, pageVars, FirstFull
<1> QED
  BY <1>2, <1>3, <1>4 DEF LineInv

LEMMA LineIs ==
  ASSUME LineInv
  PROVE  /\ buffer \in Buffers /\ EndsAt(buffer, len) /\ len \in Nat /\ len < BufferSize
         /\ Text(buffer) \in Seq(Chars) /\ Len(Text(buffer)) = len
         /\ (\A i \in 1..len : Text(buffer)[i] = buffer[i - 1])
         /\ cursor \in 0..len
<1>1. buffer \in Buffers /\ (\E n \in Cells : buffer[n] = NUL) /\ cursor \in 0..len
  BY DEF LineInv, LineTypes, Buffers
<1>2. EndsAt(buffer, len)
  BY <1>1, LengthFound DEF len
<1> QED
  BY <1>1, <1>2, TextIs

LEMMA BackspaceStep ==
  ASSUME LineInv, console_input_backspace, UNCHANGED <<title, pageVars>>
  PROVE  LineInv' /\ Editor!DeleteBefore
<1>1. /\ cursor \in 1..len /\ cursor' = cursor - 1 /\ UNCHANGED historyVars
      /\ buffer' = Moved(cursor - 1, cursor, len - cursor + 1)
  BY LineIs DEF console_input_backspace, BackspaceCount
<1>2. buffer' = [i \in Cells |-> IF i \in cursor - 1..len - 1 THEN buffer[i + 1] ELSE buffer[i]]
  <2>1. cursor - 1 + (len - cursor + 1) - 1 = len - 1 /\ \A i \in Cells : cursor + i - (cursor - 1) = i + 1
    BY <1>1, LineIs, ConsoleLineAssumption DEF Cells
  <2> QED
    BY <1>1, <2>1 DEF Moved
<1>3. buffer' \in Buffers /\ EndsAt(buffer', len - 1) /\ Text(buffer') = Editor!RemoveAt(Text(buffer), cursor)
  BY <1>1, <1>2, LineIs, Closed
<1>4. cursor' \in 0..len - 1
  BY <1>1, LineIs
<1>5. LineInv'
  BY <1>1, <1>3, <1>4, EditKeeps
<1> QED
  BY <1>1, <1>3, <1>5, LineIs DEF Editor!DeleteBefore, historyVars

LEMMA DeleteStep ==
  ASSUME LineInv, console_input_delete, UNCHANGED <<title, pageVars>>
  PROVE  LineInv' /\ Editor!DeleteAfter
<1> DEFINE k == cursor + 1
<1>1. /\ cursor < len /\ k \in 1..len /\ k - 1 = cursor /\ UNCHANGED <<cursor, historyVars>>
      /\ buffer' = Moved(cursor, cursor + 1, len - cursor)
  BY LineIs DEF console_input_delete
<1> HIDE DEF k
<1>2. buffer' = [i \in Cells |-> IF i \in k - 1..len - 1 THEN buffer[i + 1] ELSE buffer[i]]
  <2>1. cursor + (len - cursor) - 1 = len - 1 /\ \A i \in Cells : cursor + 1 + i - cursor = i + 1
    BY <1>1, LineIs, ConsoleLineAssumption DEF Cells
  <2> QED
    BY <1>1, <2>1 DEF Moved
<1>3. buffer' \in Buffers /\ EndsAt(buffer', len - 1) /\ Text(buffer') = Editor!RemoveAt(Text(buffer), k)
  BY <1>1, <1>2, LineIs, Closed
<1>4. cursor' \in 0..len - 1
  BY <1>1, LineIs
<1>5. LineInv'
  BY <1>1, <1>3, <1>4, EditKeeps
<1> QED
  BY <1>1, <1>3, <1>5, LineIs DEF Editor!DeleteAfter, historyVars, k

LEMMA CharStep ==
  ASSUME LineInv, NEW c \in Chars, console_input_char(c), UNCHANGED <<title, pageVars>>
  PROVE  LineInv' /\ Editor!Insert
<1> DEFINE k == cursor + 1
<1>1. /\ len < BufferSize - 1 /\ k \in 1..len + 1 /\ k - 1 = cursor
      /\ cursor' = cursor + 1 /\ UNCHANGED historyVars
      /\ buffer' = [Moved(cursor + 1, cursor, len - cursor + 1) EXCEPT ![cursor] = c]
  BY LineIs DEF console_input_char, HasRoom
<1> HIDE DEF k
<1>2. buffer' = [i \in Cells |-> IF i = k - 1 THEN c ELSE IF i \in k..len + 1 THEN buffer[i - 1] ELSE buffer[i]]
  <2> DEFINE m == Moved(cursor + 1, cursor, len - cursor + 1)
  <2>1. /\ cursor + 1 + (len - cursor + 1) - 1 = len + 1
        /\ \A i \in Cells : cursor + i - (cursor + 1) = i - 1
        /\ cursor + 1 = k /\ cursor \in Cells
    BY <1>1, LineIs, ConsoleLineAssumption DEF Cells, k
  <2>2. m = [i \in Cells |-> IF i \in k..len + 1 THEN buffer[i - 1] ELSE buffer[i]]
    BY <2>1 DEF Moved
  <2> HIDE DEF m
  <2>3. [m EXCEPT ![cursor] = c] = [i \in Cells |-> IF i = cursor THEN c ELSE m[i]]
    BY <2>1, <2>2
  <2> QED
    BY <1>1, <2>2, <2>3 DEF m
<1>3. buffer' \in Buffers /\ EndsAt(buffer', len + 1) /\ Text(buffer') = Editor!InsertAt(Text(buffer), k, c)
  BY <1>1, <1>2, LineIs, Opened
<1>4. cursor' \in 0..len + 1
  BY <1>1, LineIs
<1>5. LineInv'
  BY <1>1, <1>3, <1>4, EditKeeps
<1> QED
  BY <1>1, <1>3, <1>5, LineIs DEF Editor!Insert, historyVars, k

-----------------------------------------------------------------------------
(* The cursor *)

(* A key that moves the cursor, by a character, to an end or by a word.     *)
LEMMA CursorStep ==
  ASSUME LineInv, UNCHANGED <<buffer, historyVars, title, pageVars>>, cursor' \in 0..len
  PROVE  LineInv' /\ UNCHANGED <<Text(buffer), submitted, historyLine>>
<1>1. LineInv'
  BY LineIs, EditKeeps
<1> QED
  BY <1>1 DEF historyVars

LEMMA EndsStep ==
  ASSUME LineInv, console_input_home \/ console_input_end, UNCHANGED <<title, pageVars>>
  PROVE  LineInv' /\ Editor!Move
<1>1. UNCHANGED <<buffer, historyVars>> /\ cursor' \in {0, len}
  BY DEF console_input_home, console_input_end
<1>2. cursor' \in 0..len
  BY <1>1, LineIs
<1> QED
  BY <1>1, <1>2, CursorStep, LineIs DEF Editor!Move

LEMMA LeftStep ==
  ASSUME LineInv, NEW ctrl \in BOOLEAN, console_input_left(ctrl), UNCHANGED <<title, pageVars>>
  PROVE  LineInv' /\ Editor!Move
<1> DEFINE back == IF cursor > 0 THEN cursor - 1 ELSE cursor
           Stops(q) == q = 0 \/ ~IsAlnum(q - 1)
<1>1. UNCHANGED <<buffer, historyVars>> /\ cursor' = IF ctrl THEN LastTo(back, Stops) ELSE back
  BY DEF console_input_left
<1>2. back \in 0..cursor /\ back \in Nat
  BY LineIs
<1> HIDE DEF Stops
<1>3. CASE ~ctrl
  <2>1. cursor' = back
    BY <1>1, <1>3
  <2>2. cursor' \in 0..len
    BY <1>2, <2>1, LineIs
  <2>3. cursor' = 0 \/ (cursor > 0 /\ cursor' = cursor - 1)
    BY <2>1, LineIs
  <2> QED
    BY <1>1, <2>2, <2>3, CursorStep, LineIs DEF Editor!Move
<1>4. CASE ctrl
  <2> DEFINE S == {q \in 0..back : Stops(q)}
             F(q) == q \in 0..back /\ Stops(q) /\ \A r \in q + 1..back : ~Stops(r)
  <2>1. 0 \in S
    BY <1>2 DEF Stops
  <2>2. S \in SUBSET (0..back)
    OBVIOUS
  <2> HIDE DEF S, back
  <2>3. PICK m \in S : \A k \in S : k <= m
    BY <1>2, <2>1, <2>2, GreatestOf
  <2>4. m \in 0..back /\ Stops(m) /\ \A r \in m + 1..back : ~Stops(r)
    BY <1>2, <2>2, <2>3 DEF S
  <2>5. F(m)
    BY <2>4
  <2>6. LastTo(back, Stops) = CHOOSE q : F(q)
    BY DEF LastTo
  <2> HIDE DEF F
  <2>7. F(cursor')
    BY <1>1, <1>4, <2>5, <2>6
  <2>8. cursor' \in 0..back /\ Stops(cursor') /\ \A r \in cursor' + 1..back : ~Stops(r)
    BY <2>7 DEF F
  <2>9. cursor' \in 0..len
    BY <1>2, <2>8, LineIs
  <2>10. CASE cursor = 0
    <3>1. cursor' = 0
      BY <2>8, <2>10 DEF back
    <3> QED
      BY <1>1, <2>9, <3>1, CursorStep DEF Editor!Move
  <2>11. CASE cursor # 0
    <3>1. /\ back = cursor - 1 /\ cursor' \in 0..cursor - 1 /\ cursor' \in Nat
          /\ cursor \in Nat /\ cursor <= len /\ len \in Nat
      BY <2>8, <2>11, LineIs DEF back
    <3> DEFINE p == cursor'
               top == cursor - 1
    <3>2. p \in Nat /\ top \in Nat /\ p <= top /\ top < len /\ len \in Nat /\ back = top
      BY <3>1
    <3>3. Stops(p) /\ \A r \in p + 1..top : ~Stops(r)
      BY <2>8, <3>2
    <3> HIDE DEF p, top
    <3>4. \A i \in p + 1..top : i \in 1..len /\ ~Stops(i)
      BY <3>2, <3>3
    <3>5. \A i \in p + 1..top : Text(buffer)[i] \in Alnum
      BY <3>4, LineIs DEF Stops, IsAlnum
    <3>6. ASSUME p > 0
          PROVE  \A i \in p - 1 + 1..p : Text(buffer)[i] \notin Alnum
      <4>1. p \in 1..len /\ p # 0 /\ \A i \in p - 1 + 1..p : i = p
        BY <3>2, <3>6
      <4>2. Text(buffer)[p] = buffer[p - 1] /\ ~IsAlnum(p - 1)
        BY <3>3, <4>1, LineIs DEF Stops
      <4> QED
        BY <4>1, <4>2 DEF IsAlnum
    <3>7. Editor!Word(cursor', cursor - 1)
      BY <3>5 DEF Editor!Word, p, top
    <3>8. cursor' > 0 => Editor!NoWord(cursor' - 1, cursor')
      BY <3>6 DEF Editor!NoWord, p
    <3> QED
      BY <1>1, <2>9, <3>1, <3>7, <3>8, CursorStep DEF Editor!Move
  <2> QED
    BY <2>10, <2>11
<1> QED
  BY <1>3, <1>4

FirstIn(p, n, S) == CHOOSE k : k \in p..n /\ k \in S /\ \A r \in p..k - 1 : r \notin S

(* The loop from a position in the text stops, at the end if not before.   *)
LEMMA LoopStops ==
  ASSUME NEW n \in Nat, NEW p \in 0..n, NEW S \in SUBSET (0..n), n \in S
  PROVE  /\ FirstIn(p, n, S) \in p..n /\ FirstIn(p, n, S) \in S
         /\ \A r \in p..FirstIn(p, n, S) - 1 : r \notin S
<1> DEFINE q == FirstIn(p, n, S)
           T == {k \in p..n : k \in S}
           F(k) == k \in p..n /\ k \in S /\ \A r \in p..k - 1 : r \notin S
<1>1. T # {} /\ T \in SUBSET Nat
  OBVIOUS
<1> HIDE DEF T
<1>2. PICK m \in T : \A k \in T : m <= k
  BY <1>1, LeastOf
<1>3. F(m)
  BY <1>2 DEF T
<1> HIDE DEF F
<1>4. q = CHOOSE k : F(k)
  BY DEF F, FirstIn
<1> HIDE DEF q
<1>5. F(q)
  BY <1>3, <1>4
<1> QED
  BY <1>5 DEF F, q

LEMMA RightStep ==
  ASSUME LineInv, NEW ctrl \in BOOLEAN, console_input_right(ctrl), UNCHANGED <<title, pageVars>>
  PROVE  LineInv' /\ Editor!Move
<1> DEFINE step == IF cursor < len THEN cursor + 1 ELSE cursor
           WordEnd(q) == q = len \/ ~IsAlnum(q)
           NextWord(q) == q = len \/ IsAlnum(q)
           end == FirstFrom(step, WordEnd)
           word == FirstFrom(end, NextWord)
<1>1. UNCHANGED <<buffer, historyVars>> /\ cursor' = IF ctrl THEN word ELSE step
  BY DEF console_input_right
<1>2. step \in cursor..len /\ step \in 0..len
  BY LineIs
<1>3. CASE ~ctrl
  <2>1. cursor' = step
    BY <1>1, <1>3
  <2>2. cursor' \in 0..len
    BY <1>2, <2>1
  <2>3. cursor' = len \/ (cursor < len /\ cursor' = cursor + 1)
    BY <2>1, LineIs
  <2> QED
    BY <1>1, <2>2, <2>3, CursorStep, LineIs DEF Editor!Move
<1>4. CASE ctrl
  <2> DEFINE E == {q \in 0..len : WordEnd(q)}
             N == {q \in 0..len : NextWord(q)}
  <2>1. len \in E /\ len \in N
    BY LineIs
  <2>2. end = FirstIn(step, len, E)
    <3>1. \A k : (k \in step..len /\ k \in E /\ \A r \in step..k - 1 : r \notin E)
                 <=> (k \in step..len /\ WordEnd(k) /\ \A r \in step..k - 1 : ~WordEnd(r))
      BY <1>2, LineIs
    <3> HIDE DEF E, WordEnd, step
    <3>2. end = CHOOSE k : k \in step..len /\ WordEnd(k) /\ \A r \in step..k - 1 : ~WordEnd(r)
      BY DEF FirstFrom
    <3> QED
      BY <3>1, <3>2 DEF FirstIn
  <2>3. end \in step..len /\ end \in E /\ \A r \in step..end - 1 : r \notin E
    <3>1. E \in SUBSET (0..len)
      OBVIOUS
    <3> HIDE DEF E, end, step
    <3> QED
      BY <1>2, <2>1, <2>2, <3>1, LineIs, LoopStops
  <2>4. word = FirstIn(end, len, N)
    <3> HIDE DEF end
    <3>1. \A k : (k \in end..len /\ k \in N /\ \A r \in end..k - 1 : r \notin N)
                 <=> (k \in end..len /\ NextWord(k) /\ \A r \in end..k - 1 : ~NextWord(r))
      BY <1>2, <2>3, LineIs
    <3> HIDE DEF N, NextWord
    <3>2. word = CHOOSE k : k \in end..len /\ NextWord(k) /\ \A r \in end..k - 1 : ~NextWord(r)
      BY DEF FirstFrom
    <3> QED
      BY <3>1, <3>2 DEF FirstIn
  <2>5. word \in end..len /\ word \in N /\ \A r \in end..word - 1 : r \notin N
    <3>1. end \in 0..len
      BY <1>2, <2>3, LineIs
    <3>2. N \in SUBSET (0..len)
      OBVIOUS
    <3> HIDE DEF N, word, end
    <3> QED
      BY <2>1, <2>4, <3>1, <3>2, LineIs, LoopStops
  <2> HIDE DEF end, word
  <2>6. cursor' = word /\ cursor' \in 0..len
    BY <1>1, <1>2, <1>4, <2>3, <2>5, LineIs
  <2>7. CASE cursor = len
    <3>1. cursor' = len
      BY <1>2, <2>3, <2>5, <2>6, <2>7, LineIs
    <3> QED
      BY <1>1, <2>6, <3>1, CursorStep, LineIs DEF Editor!Move
  <2>8. CASE cursor # len
    <3>1. step = cursor + 1 /\ end \in cursor + 1..len /\ end \in Nat /\ cursor' \in end..len
      BY <2>3, <2>5, <2>6, <2>8, LineIs
    <3>2. Editor!Word(cursor + 1, end)
      <4> SUFFICES ASSUME NEW i \in cursor + 1 + 1..end
                   PROVE  Text(buffer)[i] \in Alnum
        BY DEF Editor!Word
      <4>1. i - 1 \in step..end - 1 /\ i - 1 \in 0..len /\ i \in 1..len
        BY <3>1, LineIs
      <4>2. ~WordEnd(i - 1)
        BY <2>3, <4>1
      <4> QED
        BY <4>1, <4>2, LineIs DEF IsAlnum
    <3>3. Editor!NoWord(end, cursor')
      <4> SUFFICES ASSUME NEW i \in end + 1..cursor'
                   PROVE  Text(buffer)[i] \notin Alnum
        BY DEF Editor!NoWord
      <4>1. i - 1 \in end..word - 1 /\ i - 1 \in 0..len /\ i \in 1..len
        BY <2>6, <3>1, LineIs
      <4>2. ~NextWord(i - 1)
        BY <2>5, <4>1
      <4> QED
        BY <4>1, <4>2, LineIs DEF IsAlnum
    <3>4. cursor' < len => Editor!Word(cursor', cursor' + 1)
      <4> SUFFICES ASSUME cursor' < len, NEW i \in cursor' + 1..cursor' + 1
                   PROVE  Text(buffer)[i] \in Alnum
        BY DEF Editor!Word
      <4>1. i = cursor' + 1 /\ i \in 1..len /\ i - 1 = cursor' /\ cursor' # len
        BY <2>6, LineIs
      <4> QED
        BY <2>5, <2>6, <4>1, LineIs DEF IsAlnum
    <3> QED
      BY <1>1, <2>6, <3>1, <3>2, <3>3, <3>4, CursorStep, LineIs DEF Editor!Move
  <2> QED
    BY <2>7, <2>8
<1> QED
  BY <1>3, <1>4

-----------------------------------------------------------------------------
(* The history *)

LEMMA Multiple ==
  ASSUME NEW n \in Nat \ {0}, NEW k \in Int, n * k < n
  PROVE  k <= 0
<1>1. CASE k >= 1
  <2>1. n * k >= n
    BY <1>1, SMT
  <2> QED BY <2>1
<1> QED BY <1>1

LEMMA Division ==
  ASSUME NEW n \in Nat \ {0}, NEW a \in Nat
  PROVE  a % n \in 0..n - 1 /\ \E q \in Int : a = n * q + (a % n)
<1>1. a % n \in 0..n - 1
  OBVIOUS
<1>2. a \div n \in Int /\ a = n * (a \div n) + (a % n)
  OBVIOUS
<1> QED BY <1>1, <1>2

LEMMA SlotsDiffer ==
  ASSUME NEW n \in Nat \ {0}, NEW a \in Nat, NEW b \in Nat, a < b, b - a < n
  PROVE  a % n # b % n
<1> SUFFICES ASSUME a % n = b % n PROVE FALSE
  OBVIOUS
<1>1. PICK q \in Int : a = n * q + (a % n)
  BY Division
<1>2. PICK r \in Int : b = n * r + (b % n)
  BY Division
<1>3. b - a = n * (r - q)
  <2>1. n * (r - q) = n * r - n * q
    OBVIOUS
  <2>2. a % n \in Int /\ n * r \in Int /\ n * q \in Int
    BY Division
  <2> QED
    BY <1>1, <1>2, <2>1, <2>2
<1>4. r - q <= 0
  BY <1>3, Multiple
<1>5. n * (r - q) <= 0
  BY <1>4
<1> QED BY <1>3, <1>5

LEMMA HistoryKeeps ==
  ASSUME LineInv, UNCHANGED <<nextHistoryLine, historyEditLines, submitted, title, pageVars>>,
         buffer' \in Buffers, NEW n, EndsAt(buffer', n), cursor' \in 0..n,
         historyLine' \in 0..nextHistoryLine, nextHistoryLine - historyLine' <= console_history_count
  PROVE  LineInv'
<1>1. Length(buffer') = n /\ n \in Cells
  BY LengthIs DEF EndsAt
<1>2. LineTypes'
  BY <1>1 DEF LineTypes, EndsAt, Buffers, len
<1>3. RingHolds'
  BY DEF LineInv, RingHolds
<1>4. PageIsFull' /\ conDisplayLineOffset' \in Nat /\ conActiveLineCount' \in Nat
  BY DEF LineInv, PageIsFull, pageVars, FirstFull
<1> QED
  BY <1>2, <1>3, <1>4 DEF LineInv

LEMMA HistoryIs ==
  ASSUME LineInv
  PROVE  /\ historyLine \in Nat /\ nextHistoryLine \in Nat /\ historyLine <= nextHistoryLine
         /\ nextHistoryLine - historyLine <= console_history_count
         /\ Len(submitted) = nextHistoryLine
BY DEF LineInv, LineTypes, RingHolds

(* A line is called back from the slot it was kept in.                      *)
LEMMA CalledBack ==
  ASSUME LineInv, NEW n \in Nat, n < nextHistoryLine, nextHistoryLine - n <= console_history_count,
         Con_CopyHistoryLine(n), historyLine' = n,
         UNCHANGED <<nextHistoryLine, historyEditLines, submitted, title, pageVars>>
  PROVE  LineInv' /\ Editor!CallBack(n)
<1> DEFINE slot == n % console_history_count
           e == historyEditLines[slot]
<1>1. slot \in RingSlots
  BY ConsoleLineAssumption, Division DEF RingSlots
<1>2. buffer' = e.buffer /\ cursor' = e.cursor
  BY DEF Con_CopyHistoryLine
<1>3. n \in 0..nextHistoryLine - 1
  BY HistoryIs
<1>4. Text(e.buffer) = submitted[n + 1]
  BY <1>3 DEF LineInv, RingHolds
<1> HIDE DEF slot
<1>5. e \in RingEntries /\ EndsAt(e.buffer, Length(e.buffer)) /\ e.cursor <= Length(e.buffer)
  BY <1>1 DEF LineInv, RingHolds
<1> HIDE DEF e
<1> DEFINE m == Length(e.buffer)
<1>6. e.buffer \in Buffers /\ EndsAt(e.buffer, m) /\ e.cursor \in Nat /\ e.cursor <= m
  BY <1>5 DEF RingEntries
<1> HIDE DEF m
<1>7. m \in Nat /\ Len(Text(e.buffer)) = m
  BY <1>6, TextIs
<1>8. buffer' \in Buffers /\ EndsAt(buffer', m) /\ cursor' \in 0..m
  BY <1>2, <1>6, <1>7
<1>9. historyLine' \in 0..nextHistoryLine /\ nextHistoryLine - historyLine' <= console_history_count
  BY HistoryIs
<1>10. LineInv'
  BY <1>8, <1>9, HistoryKeeps
<1>11. Text(buffer)' = submitted[n + 1] /\ cursor' \in 0..Len(Text(buffer)')
  <2>1. Text(buffer') = submitted[n + 1] /\ cursor' \in 0..Len(Text(buffer'))
    BY <1>2, <1>4, <1>7, <1>8
  <2> QED
    BY <2>1
<1> QED
  BY <1>10, <1>11, HistoryIs DEF Editor!CallBack

LEMMA PrevStep ==
  ASSUME LineInv, Console_HistoryPrev, UNCHANGED <<title, pageVars>>
  PROVE  LineInv' /\ Editor!Previous
<1> DEFINE n == IF OlderKept /\ historyLine > 0 THEN historyLine - 1 ELSE historyLine
<1>1. /\ nextHistoryLine # 0 /\ historyLine' = n /\ Con_CopyHistoryLine(n)
      /\ UNCHANGED <<nextHistoryLine, historyEditLines, submitted>>
  BY DEF Console_HistoryPrev
<1>2. n \in Nat /\ n < nextHistoryLine /\ nextHistoryLine - n <= console_history_count
  BY <1>1, HistoryIs, ConsoleLineAssumption DEF OlderKept
<1>3. n = historyLine \/ (historyLine > 0 /\ n = historyLine - 1)
  BY HistoryIs
<1> HIDE DEF n
<1>4. LineInv' /\ Editor!CallBack(n)
  BY <1>1, <1>2, CalledBack
<1> QED
  BY <1>3, <1>4 DEF Editor!Previous

LEMMA NextStep ==
  ASSUME LineInv, Console_HistoryNext, UNCHANGED <<title, pageVars>>
  PROVE  LineInv' /\ Editor!Following
<1> DEFINE n == historyLine + 1
<1>1. /\ historyLine < nextHistoryLine /\ historyLine' = n
      /\ n \in Nat /\ n <= nextHistoryLine /\ nextHistoryLine - n <= console_history_count
      /\ UNCHANGED <<nextHistoryLine, historyEditLines, submitted>>
  <2>1. /\ historyLine # nextHistoryLine /\ historyLine' = n
        /\ UNCHANGED <<nextHistoryLine, historyEditLines, submitted>>
    BY DEF Console_HistoryNext
  <2>2. /\ historyLine \in Nat /\ nextHistoryLine \in Nat /\ historyLine <= nextHistoryLine
        /\ nextHistoryLine - historyLine <= console_history_count /\ console_history_count \in Nat
    BY HistoryIs, ConsoleLineAssumption
  <2>3. historyLine < nextHistoryLine /\ n \in Nat /\ n <= nextHistoryLine
    BY <2>1, <2>2
  <2>4. nextHistoryLine - n <= console_history_count
    BY <2>1, <2>2
  <2> QED
    BY <2>1, <2>3, <2>4
<1>2. CASE n = nextHistoryLine
  <2>1. Con_ResetConsoleInputField
    BY <1>2 DEF Console_HistoryNext
  <2>2. buffer' \in Buffers /\ EndsAt(buffer', 0) /\ cursor' \in 0..0 /\ cursor' = 0 /\ Text(buffer)' = <<>>
    BY <2>1, BlankIsEmpty DEF Con_ResetConsoleInputField
  <2>3. historyLine' \in 0..nextHistoryLine /\ nextHistoryLine - historyLine' <= console_history_count
    BY <1>1
  <2>4. LineInv'
    BY <1>1, <2>2, <2>3, HistoryKeeps
  <2> QED
    BY <1>1, <1>2, <2>2, <2>4, HistoryIs DEF Editor!Following
<1>3. CASE n # nextHistoryLine
  <2>1. Con_CopyHistoryLine(n) /\ n < nextHistoryLine
    BY <1>1, <1>3, HistoryIs DEF Console_HistoryNext
  <2>2. LineInv' /\ Editor!CallBack(n)
    BY <1>1, <2>1, CalledBack
  <2> QED
    BY <2>1, <2>2, HistoryIs DEF Editor!Following
<1> QED
  BY <1>2, <1>3

LEMMA ClearStep ==
  ASSUME LineInv, Con_ResetConsoleInputField, UNCHANGED <<historyVars, title, pageVars>>
  PROVE  LineInv' /\ Editor!Clear
<1>1. buffer' \in Buffers /\ EndsAt(buffer', 0) /\ cursor' \in 0..0 /\ cursor' = 0 /\ Text(buffer)' = <<>>
  BY BlankIsEmpty DEF Con_ResetConsoleInputField
<1>2. LineInv'
  BY <1>1, EditKeeps
<1> QED
  BY <1>1, <1>2 DEF Editor!Clear, historyVars

(* The slot that is overwritten is of none of the lines that stay kept.     *)
LEMMA KeepStep ==
  ASSUME LineInv, len # 0, UNCHANGED <<title, pageVars>>,
         historyEditLines' = [historyEditLines EXCEPT ![SlotOfNext] = [buffer |-> buffer, cursor |-> cursor]],
         nextHistoryLine' = nextHistoryLine + 1, historyLine' = nextHistoryLine + 1,
         submitted' = Append(submitted, Text(buffer)), Con_ResetConsoleInputField
  PROVE  LineInv' /\ Editor!Submit
<1> DEFINE N == console_history_count
           t == Text(buffer)
           e == [buffer |-> buffer, cursor |-> cursor]
<1>1. N \in Nat \ {0} /\ nextHistoryLine \in Nat /\ SlotOfNext = nextHistoryLine % N
  BY HistoryIs, ConsoleLineAssumption DEF SlotOfNext
<1>2. t \in Seq(Chars) /\ Len(t) = len /\ len \in Nat
  BY LineIs
<1>3. buffer' \in Buffers /\ EndsAt(buffer', 0) /\ cursor' = 0 /\ Text(buffer)' = <<>> /\ Length(buffer') = 0
  BY BlankIsEmpty, LengthIs DEF Con_ResetConsoleInputField
<1>4. LineTypes'
  <2>1. 0 \in Cells /\ buffer'[0] = NUL
    BY <1>3 DEF EndsAt
  <2>2. nextHistoryLine' - historyLine' <= console_history_count /\ historyLine' \in 0..nextHistoryLine'
    BY <1>1
  <2> QED
    BY <1>3, <2>1, <2>2 DEF LineTypes, Buffers, len
<1>5. PageIsFull' /\ conDisplayLineOffset' \in Nat /\ conActiveLineCount' \in Nat
  BY DEF LineInv, PageIsFull, pageVars, FirstFull
<1>6. RingHolds'
  <2>1. e \in RingEntries /\ e.buffer = buffer /\ e.cursor = cursor
    BY LineIs DEF RingEntries
  <2> HIDE DEF e
  <2>2. SlotOfNext \in RingSlots
    BY <1>1, Division DEF RingSlots
  <2>3. historyEditLines \in [RingSlots -> RingEntries]
    BY DEF LineInv, RingHolds
  <2>4. /\ historyEditLines' \in [RingSlots -> RingEntries] /\ historyEditLines'[SlotOfNext] = e
        /\ \A i \in RingSlots : i # SlotOfNext => historyEditLines'[i] = historyEditLines[i]
    BY <2>1, <2>2, <2>3 DEF e
  <2>5. EndsAt(e.buffer, Length(e.buffer)) /\ e.cursor <= Length(e.buffer)
    BY <2>1, LineIs DEF len
  <2>6. \A i \in RingSlots :
          /\ EndsAt(historyEditLines'[i].buffer, Length(historyEditLines'[i].buffer))
          /\ historyEditLines'[i].cursor <= Length(historyEditLines'[i].buffer)
    BY <2>4, <2>5 DEF LineInv, RingHolds
  <2>7. submitted \in Seq(Seq(Chars)) /\ Len(submitted) = nextHistoryLine
    BY DEF LineInv, RingHolds
  <2> HIDE DEF t
  <2>8. /\ submitted' \in Seq(Seq(Chars)) /\ Len(submitted') = nextHistoryLine + 1
        /\ submitted'[nextHistoryLine + 1] = t
        /\ \A i \in 1..nextHistoryLine : submitted'[i] = submitted[i]
    BY <1>1, <1>2, <2>7 DEF t
  <2>9. ASSUME NEW n \in 0..nextHistoryLine, nextHistoryLine + 1 - n <= N
        PROVE  Text(historyEditLines'[n % N].buffer) = submitted'[n + 1]
    <3>1. CASE n = nextHistoryLine
      <4>1. historyEditLines'[n % N] = e
        BY <1>1, <2>4, <3>1
      <4> QED
        BY <2>1, <2>8, <3>1, <4>1 DEF t
    <3>2. CASE n # nextHistoryLine
      <4>1. n \in Nat /\ n < nextHistoryLine /\ nextHistoryLine - n < N /\ n \in 0..nextHistoryLine - 1
        BY <1>1, <2>9, <3>2
      <4>2. n % N \in RingSlots /\ n % N # SlotOfNext
        <5>1. n % N \in 0..N - 1
          BY <1>1, <4>1, Division
        <5>2. n % N # nextHistoryLine % N
          BY <1>1, <4>1, SlotsDiffer
        <5> QED
          BY <1>1, <5>1, <5>2 DEF RingSlots
      <4>3. historyEditLines'[n % N] = historyEditLines[n % N]
        BY <2>4, <4>2
      <4>4. Text(historyEditLines[n % N].buffer) = submitted[n + 1]
        <5>1. nextHistoryLine - n <= N
          BY <1>1, <4>1
        <5> QED
          BY <4>1, <5>1 DEF LineInv, RingHolds
      <4>5. submitted'[n + 1] = submitted[n + 1]
        BY <1>1, <2>8, <4>1
      <4> QED
        BY <4>3, <4>4, <4>5
    <3> QED
      BY <3>1, <3>2
  <2>10. nextHistoryLine' \in Nat /\ historyLine' \in Nat /\ nextHistoryLine' - 1 = nextHistoryLine
    BY <1>1
  <2>11. \A n \in 0..nextHistoryLine' - 1 : nextHistoryLine' - n <= N =>
           Text(historyEditLines'[n % N].buffer) = submitted'[n + 1]
    <3> SUFFICES ASSUME NEW n \in 0..nextHistoryLine' - 1, nextHistoryLine' - n <= N
                 PROVE  Text(historyEditLines'[n % N].buffer) = submitted'[n + 1]
      OBVIOUS
    <3>1. n \in 0..nextHistoryLine /\ nextHistoryLine + 1 - n <= N
      BY <1>1, <2>10
    <3> QED
      BY <2>9, <3>1
  <2> QED
    BY <1>1, <2>4, <2>6, <2>8, <2>10, <2>11 DEF RingHolds
<1>7. Editor!Submit
  <2>1. Text(buffer) # <<>>
    BY <1>2
  <2>2. historyLine' = Len(submitted')
    <3>1. submitted \in Seq(Seq(Chars)) /\ Len(submitted) = nextHistoryLine
      BY DEF LineInv, RingHolds
    <3> QED
      BY <3>1, <1>2
  <2> QED
    BY <1>3, <2>1, <2>2 DEF Editor!Submit
<1> QED
  BY <1>4, <1>5, <1>6, <1>7 DEF LineInv

LEMMA SubmitStep ==
  ASSUME LineInv, Console_SubmitInput, UNCHANGED <<title, pageVars>>
  PROVE  LineInv' /\ (Editor!Submit \/ Editor!Clear)
<1>1. CASE len = 0
  BY <1>1, ClearStep DEF Console_SubmitInput
<1>2. CASE len # 0
  BY <1>2, KeepStep DEF Console_SubmitInput
<1> QED
  BY <1>1, <1>2

-----------------------------------------------------------------------------
(* The pages *)

LEMMA PageStep ==
  ASSUME LineInv, PageNext, UNCHANGED <<title, lineVars>>
  PROVE  LineInv' /\ UNCHANGED Editor!vars
<1>1. LineTypes'
  BY DEF LineInv, LineTypes, lineVars, len
<1>2. RingHolds'
  BY DEF LineInv, RingHolds, lineVars
<1>3. /\ conDisplayLineOffset \in Nat /\ conActiveLineCount \in Nat /\ conVisibleLineCount \in Nat
      /\ conDisplayLineOffset \in FirstFull..conActiveLineCount
  BY ConsoleLineAssumption DEF LineInv, PageIsFull
<1>4. PageIsFull' /\ conDisplayLineOffset' \in Nat /\ conActiveLineCount' \in Nat
  <2>1. CASE CL_ConsolePrint
    BY <1>3, <2>1 DEF LineInv, PageIsFull, CL_ConsolePrint, FirstFull
  <2>2. ASSUME NEW s \in Strokes, PageKey(s)
        PROVE  PageIsFull' /\ conDisplayLineOffset' \in Nat /\ conActiveLineCount' \in Nat
    <3>1. UNCHANGED conActiveLineCount /\ title = "t4_sp"
          /\ (Con_PageUp \/ Con_PageDown \/ Con_Top \/ Con_Bottom)
      BY <2>2 DEF PageKey
    <3>2. conDisplayLineOffset' \in FirstFull..conActiveLineCount
      BY <1>3, <3>1 DEF Con_PageUp, Con_PageDown, Con_Top, Con_Bottom, FirstFull
    <3>3. FirstFull' = FirstFull /\ FirstFull \in Nat
      BY <1>3, <3>1 DEF FirstFull
    <3> QED
      BY <1>3, <3>1, <3>2, <3>3 DEF PageIsFull
  <2> QED
    BY <2>1, <2>2 DEF PageNext
<1>5. UNCHANGED Editor!vars
  BY DEF lineVars, Editor!vars
<1> QED
  BY <1>1, <1>2, <1>4, <1>5 DEF LineInv

-----------------------------------------------------------------------------
(* Every step *)

LEMMA EditKeyStep ==
  ASSUME LineInv, NEW s \in Strokes, EditKey(s) \/ TypeKey(s), UNCHANGED <<title, pageVars>>
  PROVE  LineInv' /\ Editor!Next
<1> s.ctrl \in BOOLEAN
  BY StrokesAssumption
<1>1. CASE console_input_home \/ console_input_end
  BY <1>1, EndsStep DEF Editor!Next
<1>2. CASE console_input_left(s.ctrl)
  BY <1>2, LeftStep DEF Editor!Next
<1>3. CASE console_input_right(s.ctrl)
  BY <1>3, RightStep DEF Editor!Next
<1>4. CASE console_input_delete
  BY <1>4, DeleteStep DEF Editor!Next
<1>5. CASE console_input_backspace
  BY <1>5, BackspaceStep DEF Editor!Next
<1>6. CASE s.char \in Chars /\ console_input_char(s.char)
  BY <1>6, CharStep DEF Editor!Next
<1> QED
  BY <1>1, <1>2, <1>3, <1>4, <1>5, <1>6 DEF EditKey, TypeKey

LEMMA LineStep ==
  ASSUME LineInv, LineNext, UNCHANGED <<title, pageVars>>
  PROVE  LineInv' /\ Editor!Next
<1>1. CASE ToggleClearsLine \/ EngineSubmit
  BY <1>1, ClearStep DEF ToggleClearsLine, EngineSubmit, Editor!Next
<1>2. CASE Console_SubmitInput
  BY <1>2, SubmitStep DEF Editor!Next
<1>3. CASE Console_HistoryPrev
  BY <1>3, PrevStep DEF Editor!Next
<1>4. CASE Console_HistoryNext
  BY <1>4, NextStep DEF Editor!Next
<1>5. CASE \E s \in Strokes : EditKey(s) \/ TypeKey(s)
  BY <1>5, EditKeyStep
<1> QED
  BY <1>1, <1>2, <1>3, <1>4, <1>5
  DEF LineNext, LineKey, T4SPKey, T4MPKey, T4MPEdits, IW3Key, IW3Edits, CL_CharEvent

LEMMA LineInvStep == LineInv /\ [ConsoleLineNext]_consoleLineVars => LineInv' /\ [Editor!Next]_Editor!vars
<1> SUFFICES ASSUME LineInv, [ConsoleLineNext]_consoleLineVars
             PROVE  LineInv' /\ [Editor!Next]_Editor!vars
  OBVIOUS
<1>1. CASE LineNext /\ UNCHANGED <<title, pageVars>>
  BY <1>1, LineStep
<1>2. CASE PageNext /\ UNCHANGED <<title, lineVars>>
  BY <1>2, PageStep
<1>3. CASE UNCHANGED consoleLineVars
  BY <1>3 DEF consoleLineVars, lineVars, pageVars, LineInv, LineTypes, PageIsFull, RingHolds, FirstFull, len,
              Editor!vars
<1> QED
  BY <1>1, <1>2, <1>3 DEF ConsoleLineNext

(* The line, its cursor and the ring stay within their buffers; memmove    *)
(* and the loops over words edit the text as LineEditor does, and the ring *)
(* calls back the lines that were submitted, whatever its size.            *)
THEOREM TheLineIsEdited == LineSpec => LineIsEdited
<1>1. LineInit => LineInv /\ Editor!Init
  BY LineInvInit
<1>2. LineInv /\ [ConsoleLineNext]_consoleLineVars => LineInv' /\ [Editor!Next]_Editor!vars
  BY LineInvStep
<1>3. LineInv => LineTypes /\ PageIsFull
  BY DEF LineInv
<1> QED
  BY <1>1, <1>2, <1>3, PTL DEF LineSpec, LineIsEdited, EditsLines, Editor!Spec
=============================================================================
