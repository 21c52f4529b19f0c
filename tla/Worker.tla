------------------------------- MODULE Worker -------------------------------
(***************************************************************************)
(* The worker thread: crates/symbian/src/work.rs over shim/src/            *)
(* shim_work.cpp, the event ring, and the pump of shim/src/shim_app.cpp    *)
(* that carries a completion back to the application.                      *)
(*                                                                         *)
(* A Job owns two buffers and lends them to one platform thread at a time. *)
(* The thread completes the request of one active object, whose RunL puts  *)
(* WORK_DONE in the ring; the pump runs rust_step, which drains the ring   *)
(* into the application, which hands each event to its Jobs. The GUI       *)
(* thread runs one of these at a time; the worker runs beside it.          *)
(*                                                                         *)
(* Bounds: MaxRuns threads are created and MaxInputs events of other       *)
(* origin are pushed.                                                      *)
(***************************************************************************)
EXTENDS Integers, Sequences, FiniteSets, EventRing

CONSTANTS Jobs,         \* the Job objects of the application
          NoJob,
          MaxRuns, MaxInputs

ASSUME NoJobAssumption == NoJob \notin Jobs
ASSUME MaxRunsAssumption == MaxRuns \in Nat
ASSUME MaxInputsAssumption == MaxInputs \in Nat

Runs == 1..MaxRuns

VARIABLES
    job,        \* [Jobs -> [busy, run]]: Job.busy, and the submission it waits for
    thread,     \* [Runs -> [state, owner, out]]: the thread of each submission, the
                \* Job that submitted it and the Job whose buffers it writes
    seq,        \* iSeq: submissions so far
    handle,     \* the thread iThread is open on, 0 when iThreadOpen is false
    gJob,       \* the Job whose buffers the static TJob points to
    ao,         \* CShimWorker as an active object: [active, status]
    signals,    \* the GUI thread's request semaphore, these active objects' share
    pump,       \* the pump is active: asked to run, and completed at once
    ring,       \* the event ring
    gui,        \* where the GUI thread is
    inputs,     \* events of other origin pushed so far
    lost,       \* history: the submissions whose completion a full ring dropped
    overtaken   \* history: the submissions accepted while the completion of an
                \* earlier one was still in the ring

shim == <<seq, handle, gJob, ao>>
history == <<lost, overtaken>>
vars == <<job, thread, shim, signals, pump, ring, gui, inputs, history>>

ThreadStates == {"none", "resumed", "running", "posted", "exited", "dead"}
GuiStates == {"scheduler", "drain", "handler", "draw", "stopping", "closed", "panicked"}
Statuses == {"pending", "ok", "failed"}
Input == [kind |-> "input", run |-> 0, ok |-> TRUE]
WorkDone(t, status) == [kind |-> "work", run |-> t, ok |-> status = "ok"]
Event == {Input} \cup [kind : {"work"}, run : 0..MaxRuns, ok : BOOLEAN]

\* rust_step has called the application, with an event or to draw; it may call back
Stepping == gui \in {"handler", "draw"}
Ended == gui \in {"stopping", "closed", "panicked"}

\* the threads that still hold their Job's buffers
Working == {t \in Runs : thread[t].state \in {"resumed", "running"}}

\* the active object has a completion for the scheduler to dispatch
Ready == ao.active /\ ao.status # "pending"

Init ==
    /\ job = [j \in Jobs |-> [busy |-> FALSE, run |-> 0]]
    /\ thread = [t \in Runs |-> [state |-> "none", owner |-> NoJob, out |-> NoJob]]
    /\ seq = 0 /\ handle = 0 /\ gJob = NoJob
    /\ ao = [active |-> FALSE, status |-> "ok"]
    /\ pump = TRUE /\ signals = 1
    /\ ring = <<>> /\ gui = "scheduler" /\ inputs = 0
    /\ lost = {} /\ overtaken = {}

-----------------------------------------------------------------------------
(* Pushing an event, and the pump it wakes *)

\* ShimPushEvent calls PumpKick for an event that fits; PumpKick starts a pump that
\* is not active
KicksMutant == FALSE
Kicks == Fits(ring) /\ ~pump

\* CIdle::Start completes its own request: one signal on top of `base`
Push(e, base) ==
    /\ ring' = Pushed(ring, e)
    /\ pump' = (pump \/ Kicks)
    /\ signals' = base + (IF Kicks THEN 1 ELSE 0)

-----------------------------------------------------------------------------
(* The Job, called by the application from inside rust_step *)

\* shim_work_busy
PlatformBusyMutant == FALSE
PlatformBusyMutant2 == ao.active /\ ao.status = "pending"
PlatformBusy == ao.active

\* a completion is in the ring
CompletionWaits == \E i \in DOMAIN ring : ring[i].kind = "work"

Started(t, j) == [thread EXCEPT ![t] = [state |-> "resumed", owner |-> j, out |-> NoJob]]

\* submit, submit_kdf, submit_bytes and submit_raw: the Job is free, the platform is free, the
\* thread is created and resumed
Submit(j) ==
    /\ Stepping /\ ~job[j].busy /\ ~PlatformBusy /\ seq < MaxRuns
    /\ seq' = seq + 1
    /\ handle' = seq + 1
    /\ gJob' = j
    /\ ao' = [active |-> TRUE, status |-> "pending"]
    /\ thread' = Started(seq + 1, j)
    /\ job' = [job EXCEPT ![j] = [busy |-> TRUE, run |-> seq + 1]]
    /\ overtaken' = IF CompletionWaits THEN overtaken \cup {seq + 1} ELSE overtaken
    /\ UNCHANGED <<signals, pump, ring, gui, inputs, lost>>

\* RThread::Create fails: the request just made is completed by hand and
\* cancelled, which takes its signal back
SubmitFails(j) ==
    /\ Stepping /\ ~job[j].busy /\ ~PlatformBusy /\ seq < MaxRuns
    /\ seq' = seq + 1
    /\ handle' = 0
    /\ gJob' = j
    /\ ao' = [active |-> FALSE, status |-> "failed"]
    /\ UNCHANGED <<job, thread, signals, pump, ring, gui, inputs, history>>

AbandonMutant(j) ==
    /\ Stepping /\ job[j].busy
    /\ job' = [job EXCEPT ![j].busy = FALSE]
    /\ UNCHANGED <<thread, shim, signals, pump, ring, gui, inputs, history>>

\* abandon: refused while the platform says a worker is there
Abandon(j) ==
    /\ Stepping /\ job[j].busy /\ ~PlatformBusy
    /\ job' = [job EXCEPT ![j].busy = FALSE]
    /\ UNCHANGED <<thread, shim, signals, pump, ring, gui, inputs, history>>

\* on_event, in every Job of the application: WORK_DONE names no job, and a busy
\* Job takes it for its own
OnEventMutant(e) == [j \in Jobs |-> IF e.kind = "work" /\ e.ok
                                    THEN [job[j] EXCEPT !.busy = FALSE] ELSE job[j]]
OnEvent(e) == [j \in Jobs |-> IF e.kind = "work"
                              THEN [job[j] EXCEPT !.busy = FALSE] ELSE job[j]]

-----------------------------------------------------------------------------
(* The GUI thread: one active object at a time, the pump after all others *)

\* the event carries a status and no name: `run` is in it for the properties only
WorkerRunL ==
    /\ gui = "scheduler" /\ Ready
    /\ ao' = [ao EXCEPT !.active = FALSE]
    /\ Push(WorkDone(seq, ao.status), signals - 1)
    /\ lost' = IF Fits(ring) THEN lost ELSE lost \cup {seq}
    /\ UNCHANGED <<job, thread, seq, handle, gJob, gui, inputs, overtaken>>

\* any other active object pushes an event: a key, a timer, a socket
OtherRunL ==
    /\ gui = "scheduler" /\ inputs < MaxInputs
    /\ inputs' = inputs + 1
    /\ Push(Input, signals)
    /\ UNCHANGED <<job, thread, shim, gui, history>>

\* the pump's RunL enters rust_step; its priority is below everything else's
PumpRunL ==
    /\ gui = "scheduler" /\ pump /\ ~Ready
    /\ pump' = FALSE /\ signals' = signals - 1
    /\ gui' = "drain"
    /\ UNCHANGED <<job, thread, shim, ring, inputs, history>>

\* one turn of the drain loop: the application is handed the oldest event
Poll ==
    /\ gui \in {"drain", "handler"} /\ ring # <<>>
    /\ gui' = "handler"
    /\ ring' = Tail(ring)
    /\ job' = OnEvent(Head(ring))
    /\ UNCHANGED <<thread, shim, signals, pump, inputs, history>>

\* the ring is empty: the application draws
DrainEnds ==
    /\ gui \in {"drain", "handler"} /\ ring = <<>>
    /\ gui' = "draw"
    /\ UNCHANGED <<job, thread, shim, signals, pump, ring, inputs, history>>

\* the application makes a call that pushes an event at once (CShimPlayer::Stop)
FollowUp ==
    /\ Stepping /\ inputs < MaxInputs
    /\ inputs' = inputs + 1
    /\ Push(Input, signals)
    /\ UNCHANGED <<job, thread, shim, gui, history>>

\* Pump returns: with events left it asks to be started again, and an active object
\* that a follow-up has already started panics
StepEnds ==
    /\ gui = "draw"
    /\ IF ring = <<>> THEN gui' = "scheduler" /\ UNCHANGED <<pump, signals>>
       ELSE IF pump THEN gui' = "panicked" /\ UNCHANGED <<pump, signals>>
       ELSE gui' = "scheduler" /\ pump' = TRUE /\ signals' = signals + 1
    /\ UNCHANGED <<job, thread, shim, ring, inputs, history>>

\* QUIT in the ring, or should_exit: the application interface is torn down. The kick
\* is unhooked, the pump cancelled, and rust_app_stop frees the Jobs, buffers and all
Quit ==
    /\ Stepping
    /\ gui' = "stopping"
    /\ pump' = FALSE
    /\ signals' = signals - (IF pump THEN 1 ELSE 0)
    /\ UNCHANGED <<job, thread, shim, ring, inputs, history>>

\* the thread iThread is open on is still alive
HandlePending == handle # 0 /\ thread[handle].state \in {"resumed", "running", "posted"}

Closed ==
    /\ gui' = "closed" /\ handle' = 0
    /\ UNCHANGED <<job, thread, seq, gJob, pump, ring, inputs, history>>

\* DoCancel without its wait
CleanupMutant ==
    /\ gui = "stopping"
    /\ signals' = signals - (IF Ready THEN 1 ELSE 0)
    /\ ao' = [active |-> FALSE, status |-> IF Ready THEN ao.status ELSE "failed"]
    /\ Closed
\* DoCancel without the completion by hand: WaitForRequest never returns
CleanupMutant2 ==
    /\ gui = "stopping" /\ ~(ao.active /\ HandlePending)
    /\ ao.active => Ready
    /\ signals' = signals - (IF Ready THEN 1 ELSE 0)
    /\ ao' = [ao EXCEPT !.active = FALSE]
    /\ Closed

\* ShimWorkCleanup: an active worker is cancelled. DoCancel waits for the thread to
\* end and completes the request of one that died by hand; Cancel takes the signal
Cleanup ==
    /\ gui = "stopping" /\ ~(ao.active /\ HandlePending)
    /\ signals' = signals - (IF Ready THEN 1 ELSE 0)
    /\ ao' = [active |-> FALSE,
              status |-> IF ao.status = "pending" THEN "failed" ELSE ao.status]
    /\ Closed

-----------------------------------------------------------------------------
(* The thread *)

Moved(t, s) == [thread EXCEPT ![t] = [@ EXCEPT !.state = s]]
Alone == UNCHANGED <<job, seq, handle, gJob, pump, ring, gui, inputs, history>>

\* rust_work is entered with the buffers the static TJob names
Enter(t) ==
    /\ thread[t].state = "resumed"
    /\ thread' = [thread EXCEPT ![t] = [@ EXCEPT !.state = "running", !.out = gJob]]
    /\ Alone /\ UNCHANGED <<ao, signals>>

\* RequestComplete on the GUI thread
Complete(status) ==
    /\ ao' = [ao EXCEPT !.status = status]
    /\ signals' = signals + 1

\* rust_work returned, or left
Post(t, status) ==
    /\ thread[t].state = "running"
    /\ thread' = Moved(t, "posted")
    /\ Complete(status) /\ Alone

\* no cleanup stack: the job is not run
NoCleanupStack(t) ==
    /\ thread[t].state = "resumed"
    /\ thread' = Moved(t, "posted")
    /\ Complete("failed") /\ Alone

\* a panic, or no handle on the GUI thread to complete with: nothing is completed
Die(t) ==
    /\ thread[t].state \in {"resumed", "running"}
    /\ thread' = Moved(t, "dead")
    /\ Alone /\ UNCHANGED <<ao, signals>>

\* WorkerMain returns
Return(t) ==
    /\ thread[t].state = "posted"
    /\ thread' = Moved(t, "exited")
    /\ Alone /\ UNCHANGED <<ao, signals>>

-----------------------------------------------------------------------------
Gui == WorkerRunL \/ PumpRunL \/ Poll \/ DrainEnds \/ StepEnds \/ Cleanup

App(j) == Submit(j) \/ SubmitFails(j) \/ Abandon(j)

\* the process and its threads are gone once the interface is
Work(t) ==
    /\ gui \notin {"closed", "panicked"}
    /\ \/ Enter(t)
       \/ \E s \in {"ok", "failed"} : Post(t, s)
       \/ NoCleanupStack(t)
       \/ Die(t)
       \/ Return(t)

Next ==
    \/ Gui
    \/ OtherRunL
    \/ FollowUp
    \/ Quit
    \/ \E j \in Jobs : App(j)
    \/ \E t \in Runs : Work(t)

Spec == Init /\ [][Next]_vars

\* the scheduler dispatches what is ready and a drain loop goes on; a thread runs,
\* and its computation ends
FairSpec == Spec /\ WF_vars(Gui) /\ \A t \in Runs : WF_vars(Work(t))
-----------------------------------------------------------------------------
(* Properties *)

\* The ring is never over its capacity, and everything has its type.
TypeOK ==
    /\ job \in [Jobs -> [busy : BOOLEAN, run : 0..MaxRuns]]
    /\ thread \in [Runs -> [state : ThreadStates, owner : Jobs \cup {NoJob},
                            out : Jobs \cup {NoJob}]]
    /\ seq \in 0..MaxRuns /\ handle \in 0..MaxRuns /\ gJob \in Jobs \cup {NoJob}
    /\ ao \in [active : BOOLEAN, status : Statuses]
    /\ signals \in Nat /\ pump \in BOOLEAN
    /\ ring \in Seq(Event) /\ Len(ring) <= Capacity
    /\ gui \in GuiStates /\ inputs \in 0..MaxInputs
    /\ lost \subseteq Runs /\ overtaken \subseteq Runs

\* One job at a time (shim_work.cpp, "falling out of the design"): a thread that holds
\* buffers is the newest one, the one iThread is open on and gJob still describes, and
\* its request is outstanding. So no second thread ever runs, and no thread writes to
\* the buffers of a Job that did not submit it.
OneWorker ==
    \A t \in Working :
        /\ t = seq /\ t = handle /\ gJob = thread[t].owner
        /\ ao.active /\ ao.status = "pending"
        /\ thread[t].state = "running" => thread[t].out = thread[t].owner

\* The request semaphore counts exactly the completions the scheduler will find an
\* active object for: a stray signal is a panic, a missing one an object never run.
SignalsMatch ==
    signals = (IF Ready THEN 1 ELSE 0) + (IF pump THEN 1 ELSE 0)

\* ShimWorkCleanup returns with no thread in a job ("completing iStatus without waiting
\* would let the app tear down the job struct", shim_work.cpp).
CleanupWaits == gui = "closed" => Working = {}

\* With events in the ring and the GUI thread back in the scheduler, the pump is on its
\* way (CShimAppUi::Pump).
RingServed == gui = "scheduler" /\ ring # <<>> => pump

\* the answer to a submission is with its thread, with the active object or in the ring
OnItsWay(t) == \/ t \in Working
               \/ t = seq /\ Ready
               \/ \E i \in DOMAIN ring : ring[i].kind = "work" /\ ring[i].run = t

\* Nothing is stranded: no event in the ring, and no Job that waits for an answer. What a
\* busy Job waits for is on its way, unless a full ring dropped it or its thread died.
NothingStranded ==
    /\ RingServed
    /\ \A j \in Jobs : job[j].busy => \/ OnItsWay(job[j].run) \/ job[j].run \in lost
                                     \/ thread[job[j].run].state = "dead"
                                     \/ Ended

\* While the application is there, the Job whose buffers a thread holds is busy, with
\* that very submission, so nobody reads or refills them (Job::abandon) -- unless the
\* submission was accepted while an earlier completion was still in the ring.
BuffersHeld ==
    ~Ended => \A t \in Working \ overtaken :
                 job[thread[t].owner] = [busy |-> TRUE, run |-> t]

\* The same without the exception: Job::abandon refuses so that nothing can "let the
\* buffers be reused underneath" a running worker (work.rs).
BusyWhileWritten == ~Ended => \A t \in Working : job[thread[t].owner].busy

\* A submission is answered, or given up by the application, as long as its thread
\* lives, the ring had room for its completion and the application goes on.
AnswerArrives ==
    \A j \in Jobs : \A t \in Runs :
        (job[j] = [busy |-> TRUE, run |-> t])
            ~> \/ job[j] # [busy |-> TRUE, run |-> t]
               \/ t \in lost \/ thread[t].state = "dead" \/ Ended

\* Leaving never hangs on the worker, dead or alive: what DoCancel waits for happens.
ExitEnds == gui = "stopping" ~> gui = "closed"
=============================================================================
