---------------------------- MODULE StartupNotice ----------------------------
(***************************************************************************)
(* The popup that says the plugin is loaded, and the one that says it is   *)
(* gone (notifications.cpp).  A system thread polls which title runs; once *)
(* a title has been up for STARTUP_DELAY_MS it starts a dispatcher thread  *)
(* inside that title and waits for it.  Titles terminate, relaunch and     *)
(* kill their threads at any point of this; DLL_PROCESS_DETACH stops the   *)
(* worker and dispatches the popup for unloading.  Popups of the features  *)
(* go through slots, which the end of the module models.                   *)
(*                                                                         *)
(* instance counts launches: two runs of one game have one title ID but    *)
(* different instances, which the code cannot see.                         *)
(***************************************************************************)
EXTENDS Integers, FiniteSets

CONSTANTS
  Title,        \* title IDs
  NoTitle,      \* title ID 0
  DelayPolls,   \* STARTUP_DELAY_MS / POLL_INTERVAL_MS
  Registered,   \* OnTitleTerminate is called: FALSE where DllMain stays inactive
  MaxInstances  \* bound: launches of a behaviour

ASSUME StartupNoticeAssumption ==
  /\ NoTitle \notin Title
  /\ DelayPolls \in Nat \ {0}
  /\ Registered \in BOOLEAN
  /\ MaxInstances \in Nat

VARIABLES
  titleId,     \* XamGetCurrentTitleId
  titleState,  \* "off", "loading", "running" or "dying"
  instance,    \* launches so far
  generation,  \* g_title_generation
  stopping,    \* g_stopping
  stopEvent,   \* g_stop_event
  delay,       \* StartupDelay of the worker
  worker,      \* StartupThread: where it is and its locals
  disp,        \* the dispatcher thread, QueueNotification
  shut,        \* Shutdown, called by DLL_PROCESS_DETACH
  seenOff,     \* the worker has polled since the last title ended
  dyingPolls,  \* polls since the title began to terminate
  upPolls,     \* polls that found this instance running
  unseen,      \* the worker has missed the time between two titles
  shown        \* popups queued: [kind, to, of] with the instances involved

titleVars  == <<titleId, titleState, instance, generation>>
timeVars   == <<seenOff, dyingPolls, upPolls, unseen>>
stopVars   == <<stopping, stopEvent>>
vars == <<titleVars, stopVars, delay, worker, disp, shut, timeVars, shown>>

IsTitleRunning == titleState \in {"running", "dying"}

-----------------------------------------------------------------------------
(* The console *)

(* Loading an executable takes the loader lock, which a detach holds. *)
Launch(t) ==
  /\ titleState = "off" /\ instance < MaxInstances
  /\ shut.pc \in {"idle", "done"}
  /\ titleId' = t
  /\ titleState' = "loading"
  /\ instance' = instance + 1
  /\ upPolls' = 0
  /\ UNCHANGED <<generation, stopVars, delay, worker, disp, shut, seenOff, dyingPolls, unseen,
                 shown>>

TitleRuns ==
  /\ titleState = "loading"
  /\ titleState' = "running"
  /\ unseen' = (unseen \/ (~seenOff /\ worker.pc # "exit"))
  /\ UNCHANGED <<titleId, instance, generation, stopVars, delay, worker, disp, shut,
                 seenOff, dyingPolls, upPolls, shown>>

(* OnTitleTerminate runs before the title is torn down. *)
Terminate ==
  /\ titleState = "running"
  /\ titleState' = "dying"
  /\ generation' = IF Registered THEN generation + 1 ELSE generation
  /\ dyingPolls' = 0
  /\ UNCHANGED <<titleId, instance, stopVars, delay, worker, disp, shut, seenOff, upPolls, unseen,
                 shown>>

(* The title goes, and with it the threads created inside it. *)
TearDown ==
  /\ titleState = "dying"
  /\ titleState' = "off"
  /\ titleId' = NoTitle
  /\ disp' = IF disp.pc \in {"none", "ended"} THEN disp ELSE [disp EXCEPT !.pc = "ended"]
  /\ seenOff' = FALSE
  /\ UNCHANGED <<instance, generation, stopVars, delay, worker, shut, dyingPolls, upPolls, unseen,
                 shown>>

-----------------------------------------------------------------------------
(* The dispatcher: QueueNotification, one step per value it reads *)

NoDispatcher == [pc |-> "none", kind |-> "startup", id |-> NoTitle, gen |-> 0, of |-> 0,
                 queued |-> FALSE]

(* ExCreateThread with EX_CREATE_FLAG_TITLE_EXEC: needs a title, may fail. *)
CreateDispatcher(kind, id, gen, of) ==
  /\ titleState # "off"
  /\ disp' = [pc |-> "checkStopping", kind |-> kind, id |-> id, gen |-> gen, of |-> of,
              queued |-> FALSE]

Goto(pc) == disp' = [disp EXCEPT !.pc = pc]

CheckStopping ==
  /\ disp.pc = "checkStopping"
  /\ Goto(IF disp.kind = "unloaded" \/ ~stopping THEN "checkGeneration" ELSE "ended")
  /\ UNCHANGED <<titleVars, stopVars, delay, worker, shut, timeVars, shown>>

(* Mutant: the title ID alone identifies the title.                        *)
CheckGenerationNever ==
  /\ disp.pc = "checkGeneration"
  /\ Goto("checkTitle")
  /\ UNCHANGED <<titleVars, stopVars, delay, worker, shut, timeVars, shown>>

CheckGeneration ==
  /\ disp.pc = "checkGeneration"
  /\ Goto(IF disp.gen = generation THEN "checkTitle" ELSE "ended")
  /\ UNCHANGED <<titleVars, stopVars, delay, worker, shut, timeVars, shown>>

CheckTitle ==
  /\ disp.pc = "checkTitle"
  /\ Goto(IF titleId = disp.id /\ IsTitleRunning THEN "queue" ELSE "ended")
  /\ UNCHANGED <<titleVars, stopVars, delay, worker, shut, timeVars, shown>>

QueuePopup ==
  /\ disp.pc = "queue"
  /\ shown' = shown \cup {[kind |-> disp.kind, to |-> instance, of |-> disp.of,
                           polls |-> upPolls,
                           again |-> \E p \in shown : p.kind = disp.kind /\ p.to = instance]}
  /\ Goto("markQueued")
  /\ UNCHANGED <<titleVars, stopVars, delay, worker, shut, timeVars>>

MarkQueued ==
  /\ disp.pc = "markQueued"
  /\ disp' = [disp EXCEPT !.pc = "ended", !.queued = TRUE]
  /\ UNCHANGED <<titleVars, stopVars, delay, worker, shut, timeVars, shown>>

-----------------------------------------------------------------------------
(* The worker: StartupThread *)

(* StartupDelay::Begin: a title that already runs needs no boot delay. *)
Begin(id, gen, running) ==
  [id |-> IF running THEN id ELSE NoTitle, gen |-> gen, elapsed |-> 0,
   immediate |-> running /\ id # NoTitle]

(* StartupDelay::Observe: the delay it leaves behind. *)
Observe(id, gen, running) ==
  IF ~running \/ id = NoTitle
  THEN [delay EXCEPT !.id = NoTitle, !.elapsed = 0, !.immediate = FALSE]
  ELSE IF delay.id # id \/ delay.gen # gen
  THEN [id |-> id, gen |-> gen, elapsed |-> 0, immediate |-> FALSE]
  ELSE IF delay.immediate
  THEN [delay EXCEPT !.immediate = FALSE]
  ELSE [delay EXCEPT !.elapsed = @ + 1]

(* StartupDelay::Observe: what it returns. *)
Due(id, gen, running) ==
  /\ running /\ id # NoTitle
  /\ delay.id = id /\ delay.gen = gen
  /\ delay.immediate \/ delay.elapsed + 1 >= DelayPolls

WorkerAt(pc) == worker' = [worker EXCEPT !.pc = pc]

WorkerLoop ==
  /\ worker.pc = "loop"
  /\ WorkerAt(IF stopEvent THEN "exit" ELSE "readTitle")
  /\ UNCHANGED <<titleVars, stopVars, delay, disp, shut, timeVars, shown>>

ReadTitle ==
  /\ worker.pc = "readTitle"
  /\ worker' = [worker EXCEPT !.pc = "readGeneration", !.id = titleId]
  /\ UNCHANGED <<titleVars, stopVars, delay, disp, shut, timeVars, shown>>

ReadGeneration ==
  /\ worker.pc = "readGeneration"
  /\ worker' = [worker EXCEPT !.pc = "observe", !.gen = generation]
  /\ UNCHANGED <<titleVars, stopVars, delay, disp, shut, timeVars, shown>>

(* A title is torn down sooner than the startup delay passes. *)
ObserveTitle ==
  /\ worker.pc = "observe"
  /\ titleState = "dying" => dyingPolls < DelayPolls
  /\ delay' = Observe(worker.id, worker.gen, IsTitleRunning)
  /\ worker' = [worker EXCEPT !.of = instance,
                  !.pc = IF Due(worker.id, worker.gen, IsTitleRunning) THEN "create" ELSE "sleep"]
  /\ seenOff' = (seenOff \/ ~IsTitleRunning)
  /\ dyingPolls' = IF titleState = "dying" THEN dyingPolls + 1 ELSE dyingPolls
  /\ upPolls' = IF titleState = "running" /\ upPolls < DelayPolls + 1 THEN upPolls + 1 ELSE upPolls
  /\ UNCHANGED <<titleVars, stopVars, disp, shut, unseen, shown>>

(* Mutant: the worker does not wait for the thread that uses its stack.    *)
DispatchNoWait ==
  /\ worker.pc = "create"
  /\ CreateDispatcher("startup", worker.id, worker.gen, worker.of)
  /\ WorkerAt("exit")
  /\ UNCHANGED <<titleVars, stopVars, delay, shut, timeVars, shown>>

Dispatch ==
  /\ worker.pc = "create"
  /\ CreateDispatcher("startup", worker.id, worker.gen, worker.of)
  /\ WorkerAt("wait")
  /\ UNCHANGED <<titleVars, stopVars, delay, shut, timeVars, shown>>

DispatchFails ==
  /\ worker.pc = "create"
  /\ delay' = [delay EXCEPT !.elapsed = 0]
  /\ WorkerAt("sleep")
  /\ UNCHANGED <<titleVars, stopVars, disp, shut, timeVars, shown>>

(* The dispatcher has ended or was killed; without a popup the delay starts *)
(* again, since a transition may have killed it before it queued one.      *)
DispatchReturns ==
  /\ worker.pc = "wait" /\ disp.pc = "ended"
  /\ disp' = NoDispatcher
  /\ IF disp.queued
     THEN WorkerAt("exit") /\ UNCHANGED delay
     ELSE WorkerAt("sleep") /\ delay' = [delay EXCEPT !.elapsed = 0]
  /\ UNCHANGED <<titleVars, stopVars, shut, timeVars, shown>>

WorkerSleep ==
  /\ worker.pc = "sleep"
  /\ WorkerAt(IF stopEvent THEN "exit" ELSE "loop")
  /\ UNCHANGED <<titleVars, stopVars, delay, disp, shut, timeVars, shown>>

-----------------------------------------------------------------------------
(* Shutdown *)

ShutAt(pc) == shut' = [shut EXCEPT !.pc = pc]

(* DLL_PROCESS_DETACH, which waits for a title that is being loaded. *)
SetStopping ==
  /\ shut.pc = "idle" /\ titleState # "loading"
  /\ stopping' = TRUE
  /\ ShutAt("setEvent")
  /\ UNCHANGED <<titleVars, stopEvent, delay, worker, disp, timeVars, shown>>

(* Mutant: the worker is told to stop but its event is never set.          *)
SetStopEventNever ==
  /\ shut.pc = "setEvent"
  /\ ShutAt("join")
  /\ UNCHANGED <<titleVars, stopVars, delay, worker, disp, timeVars, shown>>

SetStopEvent ==
  /\ shut.pc = "setEvent"
  /\ stopEvent' = TRUE
  /\ ShutAt("join")
  /\ UNCHANGED <<titleVars, stopping, delay, worker, disp, timeVars, shown>>

JoinWorker ==
  /\ shut.pc = "join" /\ worker.pc = "exit"
  /\ ShutAt("readTitle")
  /\ UNCHANGED <<titleVars, stopVars, delay, worker, disp, timeVars, shown>>

ShutReadTitle ==
  /\ shut.pc = "readTitle"
  /\ shut' = IF titleId # NoTitle /\ IsTitleRunning
             THEN [pc |-> "create", id |-> titleId, gen |-> shut.gen, of |-> instance]
             ELSE [shut EXCEPT !.pc = "done"]
  /\ UNCHANGED <<titleVars, stopVars, delay, worker, disp, timeVars, shown>>

(* The generation is read only now, after the title ID. *)
ShutDispatch ==
  /\ shut.pc = "create"
  /\ \/ /\ CreateDispatcher("unloaded", shut.id, generation, shut.of)
        /\ ShutAt("wait")
     \/ /\ ShutAt("done")
        /\ UNCHANGED disp
  /\ UNCHANGED <<titleVars, stopVars, delay, worker, timeVars, shown>>

ShutReturns ==
  /\ shut.pc = "wait" /\ disp.pc = "ended"
  /\ disp' = NoDispatcher
  /\ ShutAt("done")
  /\ UNCHANGED <<titleVars, stopVars, delay, worker, timeVars, shown>>

-----------------------------------------------------------------------------
(* After Initialize: attached at boot, or into a title that runs; the      *)
(* loader lock keeps DllMain apart from a title that is being loaded.      *)
Init ==
  /\ \/ titleId = NoTitle /\ titleState = "off" /\ instance = 0
     \/ titleId \in Title /\ titleState = "running" /\ instance = 1
  /\ generation = 0
  /\ stopping = FALSE
  /\ stopEvent = FALSE
  /\ delay = Begin(titleId, generation, titleState # "off")
  /\ worker = [pc |-> "loop", id |-> NoTitle, gen |-> 0, of |-> 0]
  /\ disp = NoDispatcher
  /\ shut = [pc |-> "idle", id |-> NoTitle, gen |-> 0, of |-> 0]
  /\ seenOff = FALSE
  /\ dyingPolls = 0
  /\ upPolls = IF titleState # "off" THEN DelayPolls + 1 ELSE 0
  /\ unseen = FALSE
  /\ shown = {}

Console == (\E t \in Title : Launch(t)) \/ TitleRuns \/ Terminate \/ TearDown

Dispatcher == CheckStopping \/ CheckGeneration \/ CheckTitle \/ QueuePopup \/ MarkQueued

WorkerStep ==
  \/ WorkerLoop \/ ReadTitle \/ ReadGeneration \/ ObserveTitle
  \/ DispatchReturns \/ WorkerSleep

Worker == WorkerStep \/ Dispatch \/ DispatchFails

Shutdown ==
  \/ SetStopping \/ SetStopEvent \/ JoinWorker \/ ShutReadTitle \/ ShutDispatch \/ ShutReturns

Next == Console \/ Dispatcher \/ Worker \/ Shutdown

(* Kernel threads are scheduled; a terminating title is torn down and a    *)
(* loading one runs; thread creation does not fail for ever.  Nobody has   *)
(* to launch or terminate titles, or to unload the plugin.                 *)
Fairness ==
  /\ WF_vars(WorkerStep) /\ WF_vars(Dispatch \/ DispatchFails) /\ SF_vars(Dispatch)
  /\ WF_vars(Dispatcher)
  /\ WF_vars(TearDown) /\ WF_vars(TitleRuns)
  /\ WF_vars(shut.pc # "idle" /\ Shutdown)

Spec == Init /\ [][Next]_vars /\ Fairness

-----------------------------------------------------------------------------
(* Properties *)

TypeOK ==
  /\ unseen \in BOOLEAN
  /\ titleId \in Title \cup {NoTitle}
  /\ titleState \in {"off", "loading", "running", "dying"}
  /\ instance \in Nat /\ generation \in Nat
  /\ stopping \in BOOLEAN /\ stopEvent \in BOOLEAN
  /\ delay \in [id : Title \cup {NoTitle}, gen : Nat, elapsed : 0..DelayPolls,
               immediate : BOOLEAN]
  /\ worker.pc \in {"loop", "readTitle", "readGeneration", "observe", "create", "wait",
                    "sleep", "exit"}
  /\ disp.pc \in {"none", "checkStopping", "checkGeneration", "checkTitle", "queue",
                  "markQueued", "ended"}
  /\ shut.pc \in {"idle", "setEvent", "join", "readTitle", "create", "wait", "done"}

(* A popup appears in the very run of the title it was meant for, not in a *)
(* relaunch that has the same title ID (notifications.cpp:222), and only   *)
(* once, even when a transition kills the dispatcher between queueing it   *)
(* and saying so (notifications.cpp:131).                                  *)
PopupReachesItsInstance == \A p \in shown : p.to = p.of /\ ~p.again

(* The startup popup waits until the title has been polled running for the *)
(* whole delay, unless the plugin was attached to a running title, or some *)
(* title was replaced between two polls of the worker.                     *)
DelayRespected ==
  ~unseen => \A p \in shown : p.kind = "startup" => p.polls >= DelayPolls

(* A popup appears once, in the run of the title that asked for it, and    *)
(* the startup popup not before its delay.                                 *)
PopupInItsTime == PopupReachesItsInstance /\ DelayRespected

(* A dispatcher thread lives only while the caller whose stack and DLL it  *)
(* uses waits for it (notifications.cpp:110).                              *)
DispatcherHasWaiter ==
  /\ TypeOK
  /\ disp.pc # "none" => worker.pc = "wait" \/ shut.pc = "wait"

(* Detach returns: the worker and the dispatcher end, whatever the titles  *)
(* do meanwhile.                                                           *)
ShutdownReturns == (shut.pc = "setEvent") ~> (shut.pc = "done")

(* A title that stays up gets the startup popup, if the plugin stays       *)
(* loaded, or the popup was already queued once.                           *)
StartupPopupAppears ==
  <>[](titleState = "running" /\ shut.pc = "idle") =>
     <>(\E p \in shown : p.kind = "startup")

(* Nobody waits for ever: neither detach nor the player who is to see the  *)
(* popup (notifications.cpp:200, 222).                                     *)
NoticeComesToAnEnd == ShutdownReturns /\ StartupPopupAppears

-----------------------------------------------------------------------------
(* Slots (xbox360.cpp): the two in which Notify keeps the text of a popup  *)
(* until the thread that it creates has shown it.  Callers and threads     *)
(* share the slots and nothing else, and nothing with the notice, which is *)
(* queued by XAM itself.  The threads are title threads: they end with the *)
(* title, wherever they are.                                               *)

CONSTANTS
  Callers,     \* threads that call Notify
  Slots,       \* g_notifications
  Messages     \* texts of popups, none of which is NoMessage

NoMessage == "no message"

VARIABLES
  inUse,        \* per slot
  displayText,  \* per slot
  caller,       \* per caller: where it is, its message, its slot
  thread,       \* per slot: the threads created for it, where they are and
                \* what they were asked to show
  told,         \* messages the user was shown, each with the one that was meant
  ended         \* a title has ended

slotVars == <<inUse, displayText, caller, thread, told, ended>>

Idle == [pc |-> "idle"]
NoThread == [pc |-> "none"]

SlotsInit ==
  /\ inUse = [s \in Slots |-> 0]
  /\ displayText = [s \in Slots |-> NoMessage]
  /\ caller = [c \in Callers |-> Idle]
  /\ thread = [s \in Slots |-> NoThread]
  /\ told = {}
  /\ ended = FALSE

Call(c, m) ==
  /\ caller[c] = Idle
  /\ caller' = [caller EXCEPT ![c] = [pc |-> "claim", message |-> m, tried |-> {}]]
  /\ UNCHANGED <<inUse, displayText, thread, told, ended>>

(* The search goes through the slots in order; a slot that was in use when *)
(* it was tried is not tried again.                                        *)
Claim(c) ==
  /\ caller[c].pc = "claim"
  /\ \E s \in Slots \ caller[c].tried :
       IF inUse[s] = 0
       THEN /\ inUse' = [inUse EXCEPT ![s] = 1]
            /\ caller' = [caller EXCEPT ![c] =
                  [pc |-> "write", message |-> @.message, slot |-> s]]
       ELSE /\ caller' = [caller EXCEPT ![c].tried = @ \union {s}]
            /\ UNCHANGED inUse
  /\ UNCHANGED <<displayText, thread, told, ended>>

(* "Notification queue is full."                                           *)
QueueFull(c) ==
  /\ caller[c].pc = "claim" /\ caller[c].tried = Slots
  /\ caller' = [caller EXCEPT ![c] = Idle]
  /\ UNCHANGED <<inUse, displayText, thread, told, ended>>

WriteText(c) ==
  /\ caller[c].pc = "write"
  /\ displayText' = [displayText EXCEPT ![caller[c].slot] = caller[c].message]
  /\ caller' = [caller EXCEPT ![c].pc = "create"]
  /\ UNCHANGED <<inUse, thread, told, ended>>

CreateThread(c) ==
  /\ caller[c].pc = "create"
  /\ thread' = [thread EXCEPT ![caller[c].slot] = [pc |-> "sleep", message |-> caller[c].message]]
  /\ caller' = [caller EXCEPT ![c] = Idle]
  /\ UNCHANGED <<inUse, displayText, told, ended>>

(* Mutant: the slot of a thread that could not be created is kept.         *)
UsedAfterFailureKeep(s) == inUse[s]
UsedAfterFailure(s) == 0

CreateThreadFails(c) ==
  /\ caller[c].pc = "create"
  /\ inUse' = [inUse EXCEPT ![caller[c].slot] = UsedAfterFailure(caller[c].slot)]
  /\ caller' = [caller EXCEPT ![c] = Idle]
  /\ UNCHANGED <<displayText, thread, told, ended>>

(* Mutant: the slot is given back before its text is shown.                *)
UsedWhileShowingEarly(s) == 0
UsedWhileShowing(s) == inUse[s]

Awake(s) ==
  /\ thread[s].pc = "sleep"
  /\ thread' = [thread EXCEPT ![s].pc = "queue"]
  /\ inUse' = [inUse EXCEPT ![s] = UsedWhileShowing(s)]
  /\ UNCHANGED <<displayText, caller, told, ended>>

QueueUI(s) ==
  /\ thread[s].pc = "queue"
  /\ told' = told \union {<<thread[s].message, displayText[s]>>}
  /\ thread' = [thread EXCEPT ![s].pc = "release"]
  /\ UNCHANGED <<inUse, displayText, caller, ended>>

Release(s) ==
  /\ thread[s].pc = "release"
  /\ inUse' = [inUse EXCEPT ![s] = 0]
  /\ thread' = [thread EXCEPT ![s] = NoThread]
  /\ UNCHANGED <<displayText, caller, told, ended>>

(* The title ends: its threads are gone, the DLL and its slots stay.       *)
EndTitle ==
  /\ ended' = TRUE
  /\ thread' = [s \in Slots |-> NoThread]
  /\ caller' = [c \in Callers |-> Idle]
  /\ UNCHANGED <<inUse, displayText, told>>

CallerStep(c) ==
  Claim(c) \/ QueueFull(c) \/ WriteText(c) \/ CreateThread(c) \/ CreateThreadFails(c)
ThreadStep(s) == Awake(s) \/ QueueUI(s) \/ Release(s)

SlotsNext ==
  \/ \E c \in Callers : CallerStep(c) \/ \E m \in Messages : Call(c, m)
  \/ \E s \in Slots : ThreadStep(s)
  \/ EndTitle

(* Threads run.                                                            *)
SlotsFairness ==
  /\ \A c \in Callers : WF_slotVars(CallerStep(c))
  /\ \A s \in Slots : WF_slotVars(ThreadStep(s))

SlotsSpec == SlotsInit /\ [][SlotsNext]_slotVars /\ SlotsFairness

-----------------------------------------------------------------------------
Working == {"write", "create"}

(* Types; a slot that somebody writes or that a thread is to show is in    *)
(* use.                                                                    *)
SlotsTypeOK ==
  /\ ended \in BOOLEAN
  /\ inUse \in [Slots -> {0, 1}]
  /\ displayText \in [Slots -> Messages \union {NoMessage}]
  /\ \A c \in Callers : caller[c].pc \in {"idle", "claim"} \union Working
  /\ \A s \in Slots : thread[s].pc \in {"none", "sleep", "queue", "release"}
  /\ \A c \in Callers : caller[c].pc \in Working => inUse[caller[c].slot] = 1

(* While the title lives, a slot that is in use has exactly one owner: a   *)
(* caller on its way or a thread.                                          *)
SlotHasOneOwner ==
  ~ended => \A s \in Slots :
    Cardinality({c \in Callers : caller[c].pc \in Working /\ caller[c].slot = s})
      + (IF thread[s].pc = "none" THEN 0 ELSE 1) = inUse[s]

(* A popup shows the message it was made for: between the claim and the    *)
(* release a slot has one owner and nobody else writes it (the             *)
(* compare-exchange, and the release after XNotifyQueueUI).                *)
PopupsShowTheirMessage ==
  /\ SlotsTypeOK
  /\ SlotHasOneOwner
  /\ \A pair \in told : pair[1] = pair[2]

(* A slot in use is given back, unless the title ends under its owner:     *)
(* popups are not refused for good.                                        *)
SlotsComeBack == \A s \in Slots : inUse[s] = 1 ~> inUse[s] = 0 \/ ended
=============================================================================
