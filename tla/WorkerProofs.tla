---------------------------- MODULE WorkerProofs ----------------------------
(***************************************************************************)
(* Proofs about Worker, for any number of Jobs, submissions, other events  *)
(* and any capacity of the ring.                                           *)
(*                                                                         *)
(* IInv is inductive. SignalsMatch is what makes the semaphore a natural   *)
(* number, so the type invariant cannot be proved without it; OneWorker is *)
(* what makes a completion find its object waiting; BuffersHeld needs      *)
(* StaleIsOvertaken: while a completion is in the ring, the only thread    *)
(* that may run is in the history variable `overtaken`.                    *)
(*                                                                         *)
(* Where the answer of a busy Job is (Answering) is kept by a second       *)
(* invariant, which rests on IInv: the answer moves from the thread to the *)
(* active object and from there to the ring, and whoever takes it from     *)
(* there is the Job.                                                       *)
(***************************************************************************)
EXTENDS Worker, TLAPS, SequenceTheorems

\* the answer to a running thread's submission is not in the ring yet, and anything
\* else that is there has been overtaken by it
StaleIsOvertaken == CompletionWaits => Working \subseteq overtaken

\* BuffersHeld, also of what is left when the application has gone
OwnerIsBusy ==
    \A t \in Working \ overtaken : job[thread[t].owner] = [busy |-> TRUE, run |-> t]

\* an active request belongs to a submission
ActiveIsSubmitted == ao.active => seq \in Runs

IInv ==
    /\ TypeOK
    /\ ActiveIsSubmitted
    /\ OneWorker
    /\ SignalsMatch
    /\ CleanupWaits
    /\ RingServed
    /\ StaleIsOvertaken
    /\ OwnerIsBusy

Threads == [Runs -> [state : ThreadStates, owner : Jobs \cup {NoJob},
                     out : Jobs \cup {NoJob}]]
-----------------------------------------------------------------------------
\* Without an outstanding request no thread holds buffers.
LEMMA FreeMeansIdle ==
    ASSUME OneWorker, ~ao.active \/ ao.status # "pending"
    PROVE  Working = {}
  BY DEF OneWorker

\* A thread that holds buffers is the only one.
LEMMA WorkerIsAlone ==
    ASSUME OneWorker, NEW t \in Working
    PROVE  Working = {t}
  BY DEF OneWorker

\* Moving a thread changes its state alone.
LEMMA MovedDoes ==
    ASSUME thread \in Threads, NEW t \in Runs, NEW s \in ThreadStates
    PROVE  /\ Moved(t, s) \in Threads
           /\ Moved(t, s)[t].state = s
           /\ Moved(t, s)[t].owner = thread[t].owner
           /\ Moved(t, s)[t].out = thread[t].out
           /\ \A u \in Runs \ {t} : Moved(t, s)[u] = thread[u]
  BY DEF Moved, Threads

\* A push keeps the ring a ring, and adds no completion that was not pushed.
LEMMA PushedDoes ==
    ASSUME ring \in Seq(Event), Len(ring) <= Capacity, NEW e \in Event
    PROVE  /\ Pushed(ring, e) \in Seq(Event)
           /\ Len(Pushed(ring, e)) <= Capacity
           /\ Pushed(ring, e) = <<>> => ring = <<>>
           /\ \A i \in DOMAIN Pushed(ring, e) :
                 \/ Pushed(ring, e)[i] = e
                 \/ i \in DOMAIN ring /\ Pushed(ring, e)[i] = ring[i]
  <1>1. CASE Fits(ring)
    BY <1>1, CapacityAssumption DEF Fits, Pushed
  <1>2. CASE ~Fits(ring)
    BY <1>2 DEF Fits, Pushed
  <1> QED BY <1>1, <1>2

\* What a push does to the pump and the semaphore.
LEMMA PushDoes ==
    ASSUME pump \in BOOLEAN, NEW e, NEW base, Push(e, base)
    PROVE  /\ pump' \in BOOLEAN
           /\ pump' <=> pump \/ Fits(ring)
           /\ signals' = base + (IF Fits(ring) /\ ~pump THEN 1 ELSE 0)
           /\ ring' = Pushed(ring, e)
  <1>1. pump' = (pump \/ Kicks) /\ ring' = Pushed(ring, e)
    BY DEF Push
  <1>2. pump' \in BOOLEAN /\ (pump' <=> pump \/ Fits(ring))
    BY <1>1, Zenon DEF Kicks
  <1> QED BY <1>1, <1>2 DEF Push, Kicks

\* A push leaves the pump on its way: it is started, or the ring is full of events it
\* was already on its way for.
LEMMA PushWakes ==
    ASSUME TypeOK, gui = "scheduler", RingServed, NEW e, NEW base, Push(e, base)
    PROVE  RingServed'
  <1>1. pump' <=> pump \/ Fits(ring)
    BY PushDoes DEF TypeOK
  <1>2. CASE Fits(ring)
    BY <1>1, <1>2 DEF RingServed
  <1>3. CASE ~Fits(ring)
    <2>1. ring # <<>>
      BY <1>3, CapacityAssumption DEF Fits
    <2> QED BY <1>1, <2>1 DEF RingServed
  <1> QED BY <1>2, <1>3

\* With nothing running, all that is said of a running thread holds.
LEMMA IdleHolds ==
    ASSUME Working' = {}
    PROVE  OneWorker' /\ CleanupWaits' /\ StaleIsOvertaken' /\ OwnerIsBusy'
  BY DEF OneWorker, CleanupWaits, StaleIsOvertaken, OwnerIsBusy

\* A step of the GUI thread that touches neither the worker nor the Jobs, and puts no
\* completion in the ring.
LEMMA ApartHolds ==
    ASSUME IInv, UNCHANGED <<job, thread, shim, history>>,
           CompletionWaits' => CompletionWaits, gui' # "closed" \/ gui = "closed"
    PROVE  OneWorker' /\ CleanupWaits' /\ StaleIsOvertaken' /\ OwnerIsBusy'
           /\ ActiveIsSubmitted'
  <1>1. Working' = Working
    BY DEF Working
  <1>2. OneWorker'
    BY <1>1 DEF IInv, OneWorker, shim
  <1>3. CleanupWaits'
    BY <1>1 DEF IInv, CleanupWaits
  <1>4. StaleIsOvertaken'
    BY <1>1 DEF IInv, StaleIsOvertaken, history
  <1>5. OwnerIsBusy'
    BY <1>1 DEF IInv, OwnerIsBusy, history
  <1>6. ActiveIsSubmitted'
    BY DEF IInv, ActiveIsSubmitted, shim
  <1> QED BY <1>2, <1>3, <1>4, <1>5, <1>6

\* Pushing an event that is no completion adds none.
LEMMA InputIsNoCompletion ==
    ASSUME TypeOK, ring' = Pushed(ring, Input)
    PROVE  /\ CompletionWaits' => CompletionWaits
           /\ ring' \in Seq(Event) /\ Len(ring') <= Capacity
  <1>1. Input \in Event /\ Input.kind # "work"
    BY DEF Input, Event
  <1> QED BY <1>1, PushedDoes DEF TypeOK, CompletionWaits

\* A thread that leaves its job leaves the set of those that hold buffers.
LEMMA LeavesWork ==
    ASSUME thread \in Threads, NEW t \in Runs, NEW s \in {"posted", "exited", "dead"},
           thread' = Moved(t, s)
    PROVE  /\ thread' \in Threads
           /\ Working' = Working \ {t}
           /\ \A u \in Runs : u # t => thread'[u] = thread[u]
  <1>1. s \in ThreadStates
    BY DEF ThreadStates
  <1>2. thread'[t].state = s /\ thread' \in Threads
    BY <1>1, MovedDoes
  <1>3. \A u \in Runs : u # t => thread'[u] = thread[u]
    BY <1>1, MovedDoes
  <1> QED BY <1>2, <1>3 DEF Working

\* A completion posted by the running thread is one the scheduler will dispatch.
LEMMA PostSignals ==
    ASSUME IInv, NEW t \in Working, NEW status \in {"ok", "failed"}, Complete(status),
           UNCHANGED pump
    PROVE  SignalsMatch' /\ ao' \in [active : BOOLEAN, status : Statuses]
  <1>1. ao.active /\ ao.status = "pending"
    BY DEF IInv, OneWorker
  <1>2. ao \in [active : BOOLEAN, status : Statuses]
    BY DEF IInv, TypeOK
  <1>3. ao' \in [active : BOOLEAN, status : Statuses] /\ ao'.active = ao.active
        /\ ao'.status = status
    BY <1>2 DEF Complete, Statuses
  <1>4. Ready' /\ ~Ready
    BY <1>1, <1>3 DEF Ready
  <1> QED BY <1>3, <1>4 DEF IInv, SignalsMatch, Complete
-----------------------------------------------------------------------------
LEMMA InitHolds == Init => IInv
  <1> SUFFICES ASSUME Init PROVE IInv
    OBVIOUS
  <1>1. TypeOK
    BY NoJobAssumption, MaxRunsAssumption, MaxInputsAssumption, CapacityAssumption
       DEF Init, TypeOK, ThreadStates, Statuses, GuiStates, Runs
  <1>2. Working = {}
    BY DEF Init, Working
  <1>3. OneWorker /\ CleanupWaits /\ StaleIsOvertaken /\ OwnerIsBusy
    BY <1>2 DEF OneWorker, CleanupWaits, StaleIsOvertaken, OwnerIsBusy
  <1>4. SignalsMatch /\ RingServed /\ ActiveIsSubmitted
    BY DEF Init, SignalsMatch, RingServed, Ready, ActiveIsSubmitted
  <1> QED BY <1>1, <1>3, <1>4 DEF IInv

\* The steps of the GUI thread.
LEMMA WorkerRunLStep == ASSUME IInv, WorkerRunL PROVE IInv'
  <1> DEFINE e == WorkDone(seq, ao.status)
  <1>1. TypeOK /\ SignalsMatch /\ RingServed /\ OneWorker
    BY DEF IInv
  <1>2. Push(e, signals - 1) /\ gui = "scheduler" /\ Ready
    BY DEF WorkerRunL
  <1>3. Working = {} /\ Working' = {}
    <2>1. Working = {}
      BY <1>1, <1>2, FreeMeansIdle DEF Ready
    <2> QED BY <2>1 DEF Working, WorkerRunL
  <1>4. e \in Event
    BY <1>1 DEF WorkDone, Event, TypeOK
  <1>5. /\ pump' \in BOOLEAN /\ (pump' <=> pump \/ Fits(ring))
        /\ signals' = signals - 1 + (IF Fits(ring) /\ ~pump THEN 1 ELSE 0)
        /\ ring' = Pushed(ring, e)
    BY <1>1, <1>2, PushDoes DEF TypeOK
  <1>6. ao' \in [active : BOOLEAN, status : Statuses] /\ ~Ready'
    BY <1>1 DEF TypeOK, WorkerRunL, Ready
  <1>7. SignalsMatch'
    BY <1>1, <1>2, <1>5, <1>6 DEF SignalsMatch, TypeOK
  <1>8. ring' \in Seq(Event) /\ Len(ring') <= Capacity
    BY <1>1, <1>4, <1>5, PushedDoes DEF TypeOK
  <1>9. lost' \subseteq Runs
    <2>1. seq \in Runs
      BY <1>2 DEF IInv, ActiveIsSubmitted, Ready
    <2> QED BY <1>1, <2>1 DEF WorkerRunL, TypeOK
  <1>10. TypeOK'
    BY <1>1, <1>5, <1>6, <1>7, <1>8, <1>9 DEF TypeOK, SignalsMatch, WorkerRunL
  <1>11. ActiveIsSubmitted'
    BY <1>6, <1>1 DEF ActiveIsSubmitted, WorkerRunL, TypeOK
  <1> QED
    BY <1>1, <1>2, <1>3, <1>7, <1>10, <1>11, IdleHolds, PushWakes DEF IInv

\* OtherRunL and FollowUp push an Input and do nothing else.
LEMMA InputStep ==
    ASSUME IInv, inputs < MaxInputs, inputs' = inputs + 1, Push(Input, signals),
           UNCHANGED <<job, thread, shim, gui, history>>, gui # "closed"
    PROVE  IInv'
  <1>1. TypeOK /\ SignalsMatch /\ RingServed
    BY DEF IInv
  <1>2. /\ pump' \in BOOLEAN /\ (pump' <=> pump \/ Fits(ring))
        /\ signals' = signals + (IF Fits(ring) /\ ~pump THEN 1 ELSE 0)
        /\ ring' = Pushed(ring, Input)
    BY <1>1, PushDoes DEF TypeOK
  <1>3. /\ CompletionWaits' => CompletionWaits
        /\ ring' \in Seq(Event) /\ Len(ring') <= Capacity
    BY <1>1, <1>2, InputIsNoCompletion
  <1>4. SignalsMatch'
    BY <1>1, <1>2 DEF SignalsMatch, TypeOK, Ready, shim
  <1>5. TypeOK'
    BY <1>1, <1>2, <1>3, <1>4, MaxInputsAssumption
       DEF TypeOK, SignalsMatch, shim, history
  <1>6. RingServed'
    <2>1. CASE gui = "scheduler"
      BY <1>1, <2>1, PushWakes
    <2>2. CASE gui # "scheduler"
      BY <2>2 DEF RingServed
    <2> QED BY <2>1, <2>2
  <1> QED
    BY <1>3, <1>4, <1>5, <1>6, ApartHolds DEF IInv

\* The steps that move the GUI thread on, with the ring as it is or less.
LEMMA PumpRunLStep == ASSUME IInv, PumpRunL PROVE IInv'
  <1>1. TypeOK /\ SignalsMatch
    BY DEF IInv
  <1>2. UNCHANGED <<job, thread, shim, ring, inputs, history>> /\ gui' = "drain"
    BY DEF PumpRunL
  <1>3. SignalsMatch' /\ pump' = FALSE
    BY <1>1, <1>2 DEF PumpRunL, SignalsMatch, TypeOK, Ready, shim
  <1>4. TypeOK'
    <2>1. signals' \in Nat
      BY <1>3, SMT DEF SignalsMatch
    <2>2. pump' \in BOOLEAN
      BY <1>3, Zenon
    <2> QED BY <1>1, <1>2, <2>1, <2>2 DEF TypeOK, GuiStates, shim, history
  <1>5. RingServed'
    BY <1>2 DEF RingServed
  <1>6. CompletionWaits' => CompletionWaits
    BY <1>2 DEF CompletionWaits
  <1> QED BY <1>2, <1>3, <1>4, <1>5, <1>6, ApartHolds DEF IInv

LEMMA DrainEndsStep == ASSUME IInv, DrainEnds PROVE IInv'
  <1>1. TypeOK /\ SignalsMatch
    BY DEF IInv
  <1>2. UNCHANGED <<job, thread, shim, signals, pump, ring, inputs, history>>
        /\ gui' = "draw"
    BY DEF DrainEnds
  <1>3. SignalsMatch'
    BY <1>1, <1>2 DEF SignalsMatch, Ready, shim
  <1>4. TypeOK'
    BY <1>1, <1>2 DEF TypeOK, GuiStates, shim, history
  <1>5. RingServed'
    BY <1>2 DEF RingServed
  <1>6. CompletionWaits' => CompletionWaits
    BY <1>2 DEF CompletionWaits
  <1> QED BY <1>2, <1>3, <1>4, <1>5, <1>6, ApartHolds DEF IInv

LEMMA StepEndsStep == ASSUME IInv, StepEnds PROVE IInv'
  <1>1. TypeOK /\ SignalsMatch
    BY DEF IInv
  <1>2. UNCHANGED <<job, thread, shim, ring, inputs, history>>
        /\ gui' \in {"scheduler", "panicked"}
    BY DEF StepEnds
  <1>3. pump' \in BOOLEAN /\ SignalsMatch'
    <2>1. CASE UNCHANGED <<pump, signals>>
      BY <1>1, <1>2, <2>1 DEF SignalsMatch, Ready, shim, TypeOK
    <2>2. CASE pump = FALSE /\ pump' = TRUE /\ signals' = signals + 1
      BY <1>1, <1>2, <2>2 DEF SignalsMatch, Ready, shim, TypeOK
    <2>3. pump \in BOOLEAN
      BY <1>1 DEF TypeOK
    <2> QED BY <2>1, <2>2, <2>3, Zenon DEF StepEnds
  <1>4. TypeOK'
    BY <1>1, <1>2, <1>3 DEF TypeOK, SignalsMatch, GuiStates, shim, history
  <1>5. RingServed'
    <2>1. ring' = <<>> \/ gui' = "panicked" \/ pump' = TRUE
      BY <1>2 DEF StepEnds
    <2> QED BY <2>1 DEF RingServed
  <1>6. CompletionWaits' => CompletionWaits
    BY <1>2 DEF CompletionWaits
  <1> QED BY <1>2, <1>3, <1>4, <1>5, <1>6, ApartHolds DEF IInv

LEMMA QuitStep == ASSUME IInv, Quit PROVE IInv'
  <1>1. TypeOK /\ SignalsMatch
    BY DEF IInv
  <1>2. UNCHANGED <<job, thread, shim, ring, inputs, history>> /\ gui' = "stopping"
    BY DEF Quit
  <1>3. SignalsMatch' /\ pump' = FALSE
    BY <1>1, <1>2 DEF Quit, SignalsMatch, TypeOK, Ready, shim
  <1>4. TypeOK'
    <2>1. signals' \in Nat
      BY <1>3, SMT DEF SignalsMatch
    <2>2. pump' \in BOOLEAN
      BY <1>3, Zenon
    <2> QED BY <1>1, <1>2, <2>1, <2>2 DEF TypeOK, GuiStates, shim, history
  <1>5. RingServed'
    BY <1>2 DEF RingServed
  <1>6. CompletionWaits' => CompletionWaits
    BY <1>2 DEF CompletionWaits
  <1> QED BY <1>2, <1>3, <1>4, <1>5, <1>6, ApartHolds DEF IInv

\* A completion that is taken from the ring frees every Job; the only thread that may
\* be running then has been overtaken.
LEMMA PollStep == ASSUME IInv, Poll PROVE IInv'
  <1>1. TypeOK /\ SignalsMatch /\ OneWorker /\ CleanupWaits /\ StaleIsOvertaken /\ OwnerIsBusy
    BY DEF IInv
  <1>2. UNCHANGED <<thread, shim, signals, pump, inputs, history>> /\ gui' = "handler"
        /\ ring # <<>> /\ ring' = Tail(ring) /\ job' = OnEvent(Head(ring))
    BY DEF Poll
  <1>3. Working' = Working
    BY <1>2 DEF Working
  <1>4. CompletionWaits' => CompletionWaits
    BY <1>1, <1>2 DEF CompletionWaits, TypeOK
  <1>5. Head(ring).kind = "work" => CompletionWaits
    BY <1>1, <1>2 DEF CompletionWaits, TypeOK
  <1>6. job' \in [Jobs -> [busy : BOOLEAN, run : 0..MaxRuns]]
    <2>1. job \in [Jobs -> [busy : BOOLEAN, run : 0..MaxRuns]]
      BY <1>1 DEF TypeOK
    <2> QED BY <1>2, <2>1 DEF OnEvent
  <1>7. TypeOK'
    <2>1. ring' \in Seq(Event) /\ Len(ring') <= Capacity
      BY <1>1, <1>2, CapacityAssumption DEF TypeOK
    <2> QED BY <1>1, <1>2, <1>6, <2>1 DEF TypeOK, GuiStates, shim, history
  <1>8. OneWorker' /\ StaleIsOvertaken' /\ CleanupWaits' /\ ActiveIsSubmitted'
    BY <1>1, <1>2, <1>3, <1>4
       DEF OneWorker, StaleIsOvertaken, CleanupWaits, shim, history, IInv, ActiveIsSubmitted
  <1>9. OwnerIsBusy'
    <2>1. CASE Head(ring).kind = "work"
      BY <1>1, <1>2, <1>3, <1>5, <2>1 DEF OwnerIsBusy, StaleIsOvertaken, history
    <2>2. CASE Head(ring).kind # "work"
      <3>1. job \in [Jobs -> [busy : BOOLEAN, run : 0..MaxRuns]]
        BY <1>1 DEF TypeOK
      <3>2. job' = job
        BY <1>2, <2>2, <3>1 DEF OnEvent
      <3> QED BY <1>1, <1>2, <1>3, <3>2 DEF OwnerIsBusy, history
    <2> QED BY <2>1, <2>2
  <1>10. SignalsMatch' /\ RingServed'
    BY <1>1, <1>2 DEF SignalsMatch, RingServed, Ready, shim
  <1> QED BY <1>7, <1>8, <1>9, <1>10 DEF IInv

\* DoCancel has waited for the thread iThread is open on, the only one there can be.
LEMMA CleanupStep == ASSUME IInv, Cleanup PROVE IInv'
  <1>1. TypeOK /\ SignalsMatch /\ OneWorker
    BY DEF IInv
  <1>2. UNCHANGED <<job, thread, seq, gJob, pump, ring, inputs, history>>
        /\ gui' = "closed" /\ handle' = 0
    BY DEF Cleanup, Closed
  <1>3. Working = {} /\ Working' = {}
    <2>1. ASSUME NEW t \in Working PROVE FALSE
      <3>1. t \in Runs /\ t = handle /\ ao.active /\ thread[t].state \in {"resumed", "running"}
        BY <1>1 DEF OneWorker, Working
      <3>2. HandlePending
        BY <3>1 DEF HandlePending, Runs
      <3> QED BY <3>1, <3>2 DEF Cleanup
    <2> QED BY <1>2, <2>1 DEF Working
  <1>4. ao' \in [active : BOOLEAN, status : Statuses] /\ ao'.active = FALSE
    BY <1>1 DEF Cleanup, TypeOK, Statuses
  <1>5. SignalsMatch'
    BY <1>1, <1>2, <1>4 DEF Cleanup, SignalsMatch, TypeOK, Ready
  <1>6. TypeOK'
    <2>1. signals' \in Nat
      BY <1>5 DEF SignalsMatch
    <2> QED BY <1>1, <1>2, <1>4, <2>1, MaxRunsAssumption DEF TypeOK, GuiStates, history
  <1>7. RingServed' /\ ActiveIsSubmitted'
    BY <1>2, <1>4 DEF RingServed, ActiveIsSubmitted
  <1> QED BY <1>3, <1>5, <1>6, <1>7, IdleHolds DEF IInv

-----------------------------------------------------------------------------
\* The steps of the application.
LEMMA SubmitStep == ASSUME IInv, NEW j \in Jobs, Submit(j) PROVE IInv'
  <1> DEFINE n == seq + 1
  <1>1. TypeOK /\ SignalsMatch /\ OneWorker /\ RingServed /\ CleanupWaits
    BY DEF IInv
  <1>2. /\ UNCHANGED <<signals, pump, ring, gui, inputs, lost>>
        /\ ~ao.active /\ seq < MaxRuns /\ Stepping
        /\ seq' = n /\ handle' = n /\ gJob' = j
        /\ ao' = [active |-> TRUE, status |-> "pending"]
        /\ thread' = Started(n, j)
        /\ job' = [job EXCEPT ![j] = [busy |-> TRUE, run |-> n]]
        /\ overtaken' = IF CompletionWaits THEN overtaken \cup {n} ELSE overtaken
    BY DEF Submit, PlatformBusy
  <1>3. n \in Runs
    BY <1>1, <1>2, MaxRunsAssumption DEF TypeOK, Runs
  <1>4. Working = {}
    BY <1>1, <1>2, FreeMeansIdle
  <1>5. /\ thread' \in Threads
        /\ thread'[n] = [state |-> "resumed", owner |-> j, out |-> NoJob]
        /\ \A u \in Runs : u # n => thread'[u] = thread[u]
    <2>1. thread \in Threads
      BY <1>1 DEF TypeOK, Threads
    <2> QED BY <1>2, <1>3, <2>1 DEF Started, Threads, ThreadStates
  <1>6. Working' = {n}
    BY <1>3, <1>4, <1>5 DEF Working
  <1>7. job' \in [Jobs -> [busy : BOOLEAN, run : 0..MaxRuns]]
        /\ job'[j] = [busy |-> TRUE, run |-> n]
    <2>1. job \in [Jobs -> [busy : BOOLEAN, run : 0..MaxRuns]] /\ n \in 0..MaxRuns
      BY <1>1, <1>3 DEF TypeOK, Runs
    <2> QED BY <1>2, <2>1
  <1>8. TypeOK'
    <2>1. ao' \in [active : BOOLEAN, status : Statuses]
      BY <1>2 DEF Statuses
    <2>2. overtaken' \subseteq Runs
      BY <1>1, <1>2, <1>3 DEF TypeOK
    <2> QED BY <1>1, <1>2, <1>3, <1>5, <1>7, <2>1, <2>2 DEF TypeOK, Threads, Runs
  <1>9. SignalsMatch' /\ ActiveIsSubmitted'
    BY <1>1, <1>2, <1>3 DEF SignalsMatch, ActiveIsSubmitted, Ready
  <1>10. OneWorker'
    BY <1>2, <1>5, <1>6 DEF OneWorker
  <1>11. RingServed' /\ CleanupWaits'
    BY <1>2 DEF RingServed, CleanupWaits, Stepping
  <1>12. StaleIsOvertaken'
    BY <1>2, <1>6 DEF StaleIsOvertaken, CompletionWaits
  <1>13. OwnerIsBusy'
    <2>1. thread'[n].owner = j
      BY <1>5
    <2> QED BY <1>6, <1>7, <2>1 DEF OwnerIsBusy
  <1> QED BY <1>8, <1>9, <1>10, <1>11, <1>12, <1>13 DEF IInv

LEMMA SubmitFailsStep == ASSUME IInv, NEW j \in Jobs, SubmitFails(j) PROVE IInv'
  <1>1. TypeOK /\ SignalsMatch /\ OneWorker /\ RingServed
    BY DEF IInv
  <1>2. /\ UNCHANGED <<job, thread, signals, pump, ring, gui, inputs, history>>
        /\ ~ao.active /\ seq < MaxRuns
        /\ seq' = seq + 1 /\ handle' = 0 /\ gJob' = j
        /\ ao' = [active |-> FALSE, status |-> "failed"]
    BY DEF SubmitFails, PlatformBusy
  <1>3. Working' = {}
    BY <1>1, <1>2, FreeMeansIdle DEF Working
  <1>4. ao' \in [active : BOOLEAN, status : Statuses]
    BY <1>2 DEF Statuses
  <1>5. TypeOK'
    BY <1>1, <1>2, <1>4, MaxRunsAssumption DEF TypeOK, history
  <1>6. SignalsMatch' /\ RingServed' /\ ActiveIsSubmitted'
    BY <1>1, <1>2 DEF SignalsMatch, RingServed, Ready, ActiveIsSubmitted
  <1> QED BY <1>3, <1>5, <1>6, IdleHolds DEF IInv

LEMMA AbandonStep == ASSUME IInv, NEW j \in Jobs, Abandon(j) PROVE IInv'
  <1>1. TypeOK /\ SignalsMatch /\ OneWorker /\ RingServed /\ ActiveIsSubmitted
    BY DEF IInv
  <1>2. /\ UNCHANGED <<thread, shim, signals, pump, ring, gui, inputs, history>>
        /\ ~ao.active
        /\ job' = [job EXCEPT ![j].busy = FALSE]
    BY DEF Abandon, PlatformBusy
  <1>3. Working' = {}
    BY <1>1, <1>2, FreeMeansIdle DEF Working
  <1>4. job' \in [Jobs -> [busy : BOOLEAN, run : 0..MaxRuns]]
    <2>1. job \in [Jobs -> [busy : BOOLEAN, run : 0..MaxRuns]]
      BY <1>1 DEF TypeOK
    <2> QED BY <1>2, <2>1
  <1>5. TypeOK'
    BY <1>1, <1>2, <1>4 DEF TypeOK, shim, history
  <1>6. SignalsMatch' /\ RingServed' /\ ActiveIsSubmitted'
    BY <1>1, <1>2 DEF SignalsMatch, RingServed, Ready, ActiveIsSubmitted, shim
  <1> QED BY <1>3, <1>5, <1>6, IdleHolds DEF IInv

-----------------------------------------------------------------------------
\* The steps of a thread.
LEMMA EnterStep == ASSUME IInv, NEW t \in Runs, Enter(t) PROVE IInv'
  <1>1. /\ TypeOK /\ SignalsMatch /\ OneWorker /\ RingServed /\ CleanupWaits
        /\ StaleIsOvertaken /\ OwnerIsBusy /\ ActiveIsSubmitted
    BY DEF IInv
  <1>2. /\ UNCHANGED <<job, seq, handle, gJob, pump, ring, gui, inputs, history>>
        /\ UNCHANGED <<ao, signals>>
        /\ thread[t].state = "resumed"
        /\ thread' = [thread EXCEPT ![t] = [@ EXCEPT !.state = "running", !.out = gJob]]
    BY DEF Enter, Alone
  <1>3. /\ thread' \in Threads
        /\ thread'[t].state = "running" /\ thread'[t].owner = thread[t].owner
        /\ thread'[t].out = gJob
        /\ \A u \in Runs : u # t => thread'[u] = thread[u]
    <2>1. thread \in Threads /\ gJob \in Jobs \cup {NoJob}
      BY <1>1 DEF TypeOK, Threads
    <2> QED BY <1>2, <2>1 DEF Threads, ThreadStates
  <1>4. Working' = Working /\ t \in Working
    BY <1>2, <1>3 DEF Working
  <1>5. OneWorker'
    BY <1>1, <1>2, <1>3, <1>4, WorkerIsAlone DEF OneWorker
  <1>6. TypeOK' /\ SignalsMatch' /\ RingServed' /\ ActiveIsSubmitted'
    BY <1>1, <1>2, <1>3
       DEF TypeOK, Threads, SignalsMatch, RingServed, Ready, ActiveIsSubmitted, history
  <1>7. CleanupWaits' /\ StaleIsOvertaken'
    BY <1>1, <1>2, <1>4 DEF CleanupWaits, StaleIsOvertaken, CompletionWaits, history
  <1>8. OwnerIsBusy'
    <2>1. Working = {t}
      BY <1>1, <1>4, WorkerIsAlone
    <2>2. t \notin overtaken => job[thread[t].owner] = [busy |-> TRUE, run |-> t]
      BY <1>1, <1>4 DEF OwnerIsBusy
    <2> QED BY <1>2, <1>3, <1>4, <2>1, <2>2 DEF OwnerIsBusy, history
  <1> QED BY <1>5, <1>6, <1>7, <1>8 DEF IInv

\* Post and NoCleanupStack: the thread has done with the buffers, and completes.
LEMMA PostStep ==
    ASSUME IInv, NEW t \in Working, NEW status \in {"ok", "failed"},
           thread' = Moved(t, "posted"), Complete(status), Alone
    PROVE  IInv'
  <1>1. TypeOK /\ OneWorker /\ RingServed /\ ActiveIsSubmitted /\ thread \in Threads
        /\ t \in Runs
    BY DEF IInv, TypeOK, Threads, Working
  <1>2. Working' = {} /\ thread' \in Threads
    BY <1>1, LeavesWork, WorkerIsAlone
  <1>3. SignalsMatch' /\ ao' \in [active : BOOLEAN, status : Statuses]
    BY PostSignals DEF Alone
  <1>4. signals' \in Nat
    BY <1>1 DEF TypeOK, Complete
  <1>5. TypeOK'
    BY <1>1, <1>2, <1>3, <1>4 DEF TypeOK, Threads, Alone, history
  <1>6. RingServed'
    BY <1>1 DEF RingServed, Alone
  <1>7. ActiveIsSubmitted'
    BY <1>1, <1>3 DEF ActiveIsSubmitted, Alone, Complete, TypeOK
  <1> QED BY <1>2, <1>3, <1>5, <1>6, <1>7, IdleHolds DEF IInv

LEMMA DieStep == ASSUME IInv, NEW t \in Runs, Die(t) PROVE IInv'
  <1>1. /\ TypeOK /\ OneWorker /\ RingServed /\ ActiveIsSubmitted /\ SignalsMatch
        /\ thread \in Threads
    BY DEF IInv, TypeOK, Threads
  <1>2. t \in Working
    BY DEF Die, Working
  <1>3. Working' = {} /\ thread' \in Threads
    BY <1>1, <1>2, LeavesWork, WorkerIsAlone DEF Die
  <1>4. TypeOK' /\ SignalsMatch' /\ RingServed' /\ ActiveIsSubmitted'
    BY <1>1, <1>3 DEF Die, Alone, TypeOK, Threads, SignalsMatch, RingServed,
                      ActiveIsSubmitted, Ready, history
  <1> QED BY <1>3, <1>4, IdleHolds DEF IInv

LEMMA ReturnStep == ASSUME IInv, NEW t \in Runs, Return(t) PROVE IInv'
  <1>1. /\ TypeOK /\ SignalsMatch /\ OneWorker /\ RingServed /\ CleanupWaits
        /\ StaleIsOvertaken /\ OwnerIsBusy /\ ActiveIsSubmitted /\ thread \in Threads
    BY DEF IInv, TypeOK, Threads
  <1>2. /\ Working' = Working \ {t} /\ thread' \in Threads
        /\ \A u \in Runs : u # t => thread'[u] = thread[u]
    BY <1>1, LeavesWork DEF Return
  <1>3. t \notin Working /\ Working' = Working /\ Working \subseteq Runs
    BY <1>2 DEF Return, Working
  <1>4. OneWorker'
    BY <1>1, <1>2, <1>3 DEF OneWorker, Return, Alone
  <1>5. TypeOK' /\ SignalsMatch' /\ RingServed' /\ ActiveIsSubmitted'
    BY <1>1, <1>2 DEF Return, Alone, TypeOK, Threads, SignalsMatch, RingServed,
                      ActiveIsSubmitted, Ready, history
  <1>6. CleanupWaits' /\ StaleIsOvertaken'
    BY <1>1, <1>3 DEF Return, Alone, CleanupWaits, StaleIsOvertaken, CompletionWaits, history
  <1>7. OwnerIsBusy'
    BY <1>1, <1>2, <1>3 DEF OwnerIsBusy, Return, Alone, history
  <1> QED BY <1>4, <1>5, <1>6, <1>7 DEF IInv

LEMMA WorkStep == ASSUME IInv, NEW t \in Runs, Work(t) PROVE IInv'
  <1>1. CASE Enter(t)
    BY <1>1, EnterStep
  <1>2. ASSUME NEW s \in {"ok", "failed"}, Post(t, s) PROVE IInv'
    <2>1. t \in Working
      BY <1>2 DEF Post, Working
    <2> QED BY <1>2, <2>1, PostStep DEF Post
  <1>3. CASE NoCleanupStack(t)
    <2>1. t \in Working
      BY <1>3 DEF NoCleanupStack, Working
    <2> QED BY <1>3, <2>1, PostStep DEF NoCleanupStack
  <1>4. CASE Die(t)
    BY <1>4, DieStep
  <1>5. CASE Return(t)
    BY <1>5, ReturnStep
  <1> QED BY <1>1, <1>2, <1>3, <1>4, <1>5 DEF Work

LEMMA StutterStep == ASSUME IInv, UNCHANGED vars PROVE IInv'
  <1>1. /\ UNCHANGED <<job, thread, shim, history>>
        /\ UNCHANGED <<signals, pump, ring, gui, inputs>>
    BY DEF vars
  <1>2. CompletionWaits' => CompletionWaits
    BY <1>1 DEF CompletionWaits
  <1>3. TypeOK' /\ SignalsMatch' /\ RingServed'
    BY <1>1 DEF IInv, TypeOK, SignalsMatch, RingServed, Ready, shim, history
  <1> QED BY <1>1, <1>2, <1>3, ApartHolds DEF IInv

LEMMA Inductive == IInv /\ [Next]_vars => IInv'
  <1> SUFFICES ASSUME IInv, [Next]_vars PROVE IInv'
    OBVIOUS
  <1>1. CASE Gui
    BY <1>1, WorkerRunLStep, PumpRunLStep, PollStep, DrainEndsStep, StepEndsStep, CleanupStep
       DEF Gui
  <1>2. CASE OtherRunL
    BY <1>2, InputStep DEF OtherRunL
  <1>3. CASE FollowUp
    BY <1>3, InputStep DEF FollowUp, Stepping
  <1>4. ASSUME NEW j \in Jobs, App(j) PROVE IInv'
    BY <1>4, SubmitStep, SubmitFailsStep, AbandonStep DEF App
  <1> QED
    BY <1>1, <1>2, <1>3, <1>4, QuitStep, WorkStep, StutterStep DEF Next

LEMMA Invariance == Spec => []IInv
  BY InitHolds, Inductive, PTL DEF Spec

-----------------------------------------------------------------------------
\* No answer is mislaid

Accounted(t) == OnItsWay(t) \/ t \in lost \/ thread[t].state = "dead" \/ Ended
Answering == \A j \in Jobs : job[j].busy => job[j].run \in Runs /\ Accounted(job[j].run)

\* What is in the ring stays there when an event is pushed.
LEMMA PushKeeps ==
    ASSUME ring \in Seq(Event), NEW e \in Event, ring' = Pushed(ring, e)
    PROVE  /\ \A i \in DOMAIN ring : i \in DOMAIN ring' /\ ring'[i] = ring[i]
           /\ Fits(ring) => \E i \in DOMAIN ring' : ring'[i] = e
  <1>1. PICK n \in Nat : n = Len(ring) /\ DOMAIN ring = 1..n
    BY LenProperties
  <1>2. CASE Fits(ring)
    <2>1. ring' = Append(ring, e)
      BY <1>2 DEF Pushed
    <2>2. /\ ring' \in Seq(Event) /\ Len(ring') = n + 1
          /\ \A i \in 1..n : ring'[i] = ring[i]
          /\ ring'[n + 1] = e
      BY <1>1, <2>1, AppendProperties
    <2>3. DOMAIN ring' = 1..(n + 1)
      BY <2>2, LenProperties
    <2>4. n + 1 \in 1..(n + 1) /\ \A i \in 1..n : i \in 1..(n + 1)
      OBVIOUS
    <2> QED BY <1>1, <2>2, <2>3, <2>4
  <1>3. CASE ~Fits(ring)
    BY <1>3 DEF Pushed
  <1> QED BY <1>2, <1>3

\* A step that starts no thread and takes nothing from the ring leaves what was on its way.
LEMMA GoesOn ==
    ASSUME NEW t, Accounted(t), ~Ended, UNCHANGED <<thread, shim>>,
           lost \subseteq lost',
           \A i \in DOMAIN ring : i \in DOMAIN ring' /\ ring'[i] = ring[i]
    PROVE  Accounted(t)'
  <1>1. Working' = Working
    BY DEF Working
  <1>2. t = seq /\ Ready => (t = seq /\ Ready)'
    BY DEF Ready, shim
  <1>3. thread'[t].state = thread[t].state
    OBVIOUS
  <1> QED BY <1>1, <1>2, <1>3 DEF Accounted, OnItsWay

LEMMA AnswersStay == IInv /\ Answering /\ [Next]_vars => Answering'
  <1> SUFFICES ASSUME IInv, Answering, [Next]_vars,
                      NEW k \in Jobs, NEW t, job'[k].busy, t = job'[k].run
               PROVE  t \in Runs /\ Accounted(t)'
    BY DEF Answering, Accounted, OnItsWay, Working, Ready, Ended
  <1>1. /\ TypeOK /\ OneWorker /\ ActiveIsSubmitted /\ thread \in Threads
        /\ ring \in Seq(Event) /\ job \in [Jobs -> [busy : BOOLEAN, run : 0..MaxRuns]]
    BY DEF IInv, TypeOK, Threads
  <1>2. ASSUME job'[k] = job[k] PROVE t \in Runs /\ Accounted(t)
    BY <1>2 DEF Answering
  \* Once the application has ended nothing is asked.
  <1>3. ASSUME job' = job, Ended' PROVE t \in Runs /\ Accounted(t)'
    BY <1>2, <1>3 DEF Accounted
  <1>4. ASSUME job' = job, ~Ended, UNCHANGED <<thread, shim>>, lost \subseteq lost',
               \A i \in DOMAIN ring : i \in DOMAIN ring' /\ ring'[i] = ring[i]
        PROVE  t \in Runs /\ Accounted(t)'
    BY <1>2, <1>4, GoesOn
  <1>5. CASE WorkerRunL
    <2> DEFINE e == WorkDone(seq, ao.status)
    <2>1. /\ job' = job /\ thread' = thread /\ seq' = seq /\ gui' = gui /\ gui = "scheduler"
          /\ Ready /\ ring' = Pushed(ring, e)
          /\ lost' = IF Fits(ring) THEN lost ELSE lost \cup {seq}
      BY <1>5 DEF WorkerRunL, Push
    <2>2. e \in Event /\ e.kind = "work" /\ e.run = seq
      BY <1>1 DEF WorkDone, Event, TypeOK
    <2> HIDE DEF e
    <2>3. /\ \A i \in DOMAIN ring : i \in DOMAIN ring' /\ ring'[i] = ring[i]
          /\ Fits(ring) => \E i \in DOMAIN ring' : ring'[i] = e
      BY <1>1, <2>1, <2>2, PushKeeps
    <2>4. t \in Runs /\ Accounted(t) /\ Working = {} /\ ~Ended
      BY <1>1, <1>2, <2>1, FreeMeansIdle DEF Ready, Ended
    <2>5. CASE t = seq
      BY <2>1, <2>2, <2>3, <2>4, <2>5 DEF Accounted, OnItsWay
    <2>6. CASE t # seq
      BY <2>1, <2>3, <2>4, <2>6 DEF Accounted, OnItsWay
    <2> QED BY <2>5, <2>6
  <1>6. CASE OtherRunL \/ FollowUp
    <2>1. /\ job' = job /\ UNCHANGED <<thread, shim>> /\ lost' = lost /\ ~Ended
          /\ ring' = Pushed(ring, Input)
      BY <1>6 DEF OtherRunL, FollowUp, Push, Ended, Stepping, history
    <2>2. Input \in Event
      BY DEF Input, Event
    <2> QED BY <1>1, <1>4, <2>1, <2>2, PushKeeps
  <1>7. CASE PumpRunL \/ DrainEnds \/ StepEnds
    BY <1>4, <1>7 DEF PumpRunL, DrainEnds, StepEnds, Ended, history
  <1>8. CASE Quit \/ Cleanup
    BY <1>3, <1>8 DEF Quit, Cleanup, Closed, Ended
  <1>9. CASE Poll
    <2>1. /\ UNCHANGED <<thread, shim, history>> /\ ~Ended /\ ring # <<>> /\ ring' = Tail(ring)
          /\ job' = [j \in Jobs |-> IF Head(ring).kind = "work"
                                     THEN [job[j] EXCEPT !.busy = FALSE] ELSE job[j]]
      BY <1>9 DEF Poll, OnEvent, Ended
    <2>2. Head(ring).kind # "work" /\ job'[k] = job[k]
      BY <1>1, <2>1
    <2>3. t \in Runs /\ Accounted(t)
      BY <1>2, <2>2
    <2>4. ASSUME NEW i \in DOMAIN ring, ring[i].kind = "work"
          PROVE  \E j \in DOMAIN ring' : ring'[j] = ring[i]
      <3>1. PICK n \in Nat : n = Len(ring) /\ DOMAIN ring = 1..n
        BY <1>1, LenProperties
      <3>2. /\ ring' \in Seq(Event) /\ Len(ring') = n - 1
            /\ \A j \in 1..(n - 1) : ring'[j] = ring[j + 1]
        BY <1>1, <2>1, <3>1, HeadTailProperties
      <3>3. DOMAIN ring' = 1..(n - 1)
        BY <3>2, LenProperties
      <3>4. i # 1
        <4>1. Head(ring) = ring[1]
          OBVIOUS
        <4> QED BY <2>2, <2>4, <4>1
      <3>5. i - 1 \in 1..(n - 1) /\ (i - 1) + 1 = i
        BY <3>1, <3>4
      <3> QED BY <3>2, <3>3, <3>5
    <2> QED BY <2>1, <2>3, <2>4 DEF Accounted, OnItsWay, Working, Ready, shim, history
  <1>10. ASSUME NEW j \in Jobs, App(j) PROVE t \in Runs /\ Accounted(t)'
    <2>1. ~ao.active /\ ~Ended /\ ~Ready /\ Working = {}
      BY <1>1, <1>10, FreeMeansIdle
         DEF App, Submit, SubmitFails, Abandon, PlatformBusy, Ended, Stepping, Ready
    <2>2. ring' = ring /\ lost' = lost
      BY <1>10 DEF App, Submit, SubmitFails, Abandon, history
    <2>3. ASSUME job'[k] = job[k], thread'[t] = thread[t] \/ t \in Working'
          PROVE  t \in Runs /\ Accounted(t)'
      BY <1>2, <2>1, <2>2, <2>3 DEF Accounted, OnItsWay
    <2>4. CASE Submit(j)
      <3> DEFINE n == seq + 1
      <3>1. /\ job' = [job EXCEPT ![j] = [busy |-> TRUE, run |-> n]] /\ thread' = Started(n, j)
            /\ seq < MaxRuns
        BY <2>4 DEF Submit
      <3>2. n \in Runs
        BY <1>1, <3>1, MaxRunsAssumption DEF TypeOK, Runs
      <3>3. n \in Working' /\ \A u \in Runs : u # n => thread'[u] = thread[u]
        BY <1>1, <3>1, <3>2 DEF Started, Threads, Working
      <3> HIDE DEF n
      <3>4. CASE k = j
        <4>1. t = n
          BY <1>1, <3>1, <3>4
        <4> QED BY <3>2, <3>3, <4>1 DEF Accounted, OnItsWay
      <3>5. CASE k # j
        <4>1. job'[k] = job[k]
          BY <1>1, <3>1, <3>5
        <4>2. t \in Runs
          BY <1>2, <4>1
        <4> QED BY <2>3, <3>3, <4>1, <4>2
      <3> QED BY <3>4, <3>5
    <2>5. CASE SubmitFails(j)
      BY <2>3, <2>5 DEF SubmitFails
    <2>6. CASE Abandon(j)
      <3>1. job' = [job EXCEPT ![j].busy = FALSE] /\ thread' = thread
        BY <2>6 DEF Abandon
      <3>2. job'[k] = job[k]
        BY <1>1, <3>1
      <3> QED BY <2>3, <3>1, <3>2
    <2> QED BY <1>10, <2>4, <2>5, <2>6 DEF App
  <1>11. ASSUME NEW u \in Runs, Work(u) PROVE t \in Runs /\ Accounted(t)'
    <2>1. /\ job' = job /\ ring' = ring /\ lost' = lost /\ seq' = seq /\ gui' = gui
      BY <1>11 DEF Work, Enter, Post, NoCleanupStack, Die, Return, Alone, history
    <2>2. t \in Runs /\ Accounted(t)
      BY <1>2, <2>1
    <2>3. \A v \in Runs : v # u => thread'[v] = thread[v]
      BY <1>1, <1>11 DEF Work, Enter, Post, NoCleanupStack, Die, Return, Moved, Threads
    <2>4. CASE Enter(u)
      <3>1. ao' = ao /\ thread[u].state = "resumed" /\ thread'[u].state = "running"
        BY <1>1, <2>4 DEF Enter, Threads
      <3>2. \A v \in Runs : /\ v \in Working => v \in Working'
                            /\ thread[v].state = "dead" => thread'[v].state = "dead"
        BY <2>3, <3>1 DEF Working
      <3> QED BY <2>1, <2>2, <3>1, <3>2 DEF Accounted, OnItsWay, Ready, Ended, Working
    <2>5. CASE (\E s \in {"ok", "failed"} : Post(u, s)) \/ NoCleanupStack(u)
      <3>1. u \in Working /\ \E s \in {"ok", "failed"} : Complete(s)
        BY <2>5 DEF Post, NoCleanupStack, Working
      <3>2. Working = {u} /\ u = seq /\ ao.active /\ ao.status = "pending"
        BY <1>1, <3>1, WorkerIsAlone DEF OneWorker
      <3>3. Ready' /\ ~Ready
        BY <1>1, <3>1, <3>2 DEF Ready, Complete, TypeOK
      <3>4. CASE t = u
        BY <2>1, <2>2, <3>2, <3>3, <3>4 DEF Accounted, OnItsWay
      <3>5. CASE t # u
        BY <2>1, <2>2, <2>3, <3>2, <3>3, <3>5 DEF Accounted, OnItsWay, Ended
      <3> QED BY <3>4, <3>5
    <2>6. CASE Die(u) \/ Return(u)
      <3>1. /\ ao' = ao
            /\ \/ thread[u].state # "dead" /\ thread'[u].state = "dead"
               \/ thread[u].state = "posted"
        BY <1>1, <2>6 DEF Die, Return, Moved, Threads
      <3>2. ASSUME t # u PROVE Accounted(t)'
        BY <2>1, <2>2, <2>3, <3>1, <3>2 DEF Accounted, OnItsWay, Ready, Ended, Working
      <3>3. ASSUME t = u PROVE Accounted(t)'
        BY <2>1, <2>2, <3>1, <3>3 DEF Accounted, OnItsWay, Ready, Ended, Working
      <3> QED BY <2>2, <3>2, <3>3
    <2> QED BY <1>11, <2>4, <2>5, <2>6 DEF Work
  <1>12. CASE UNCHANGED vars
    BY <1>2, <1>12 DEF vars, shim, history, Accounted, OnItsWay, Working, Ready, Ended
  <1> QED BY <1>5, <1>6, <1>7, <1>8, <1>9, <1>10, <1>11, <1>12 DEF Next, Gui

-----------------------------------------------------------------------------
\* Every reachable state is well typed; in particular the ring never exceeds its
\* capacity (ShimPushEvent) and the semaphore is never taken below zero.
THEOREM TypeCorrect == Spec => []TypeOK
  <1>1. IInv => TypeOK
    BY DEF IInv
  <1> QED BY <1>1, Invariance, PTL

\* At most one thread runs a job, with the buffers of the Job that submitted it and its
\* request outstanding (CShimWorker::Submit, WorkerMain).
THEOREM AtMostOneWorker == Spec => []OneWorker
  <1>1. IInv => OneWorker
    BY DEF IInv
  <1> QED BY <1>1, Invariance, PTL

\* The scheduler never meets a stray signal and never misses a completion
\* (CShimWorker::Submit, RunL, DoCancel; CShimAppUi::PumpKick, Pump).
THEOREM NoStraySignal == Spec => []SignalsMatch
  <1>1. IInv => SignalsMatch
    BY DEF IInv
  <1> QED BY <1>1, Invariance, PTL

\* When ShimWorkCleanup returns no thread is in a job (CShimWorker::DoCancel).
THEOREM TeardownWaits == Spec => []CleanupWaits
  <1>1. IInv => CleanupWaits
    BY DEF IInv
  <1> QED BY <1>1, Invariance, PTL

\* No event waits in the ring with the pump asleep (CShimAppUi::Pump, PumpKick), and no
\* Job waits for an answer that nobody has: the answer is with the thread, with the active
\* object or in the ring, unless the thread died or a full ring dropped it.
THEOREM RingIsServed == Spec => []NothingStranded
  <1>1. Init => Answering
    BY DEF Init, Answering
  <1>2. IInv /\ Answering => NothingStranded
    BY DEF IInv, Answering, Accounted, NothingStranded
  <1> QED BY <1>1, <1>2, AnswersStay, Invariance, PTL DEF Spec

\* A Job is busy as long as a thread holds its buffers, but for submissions accepted over
\* a completion still in the ring: that is the one way to lose them (Job::on_event,
\* Job::abandon).
THEOREM BuffersAreHeld == Spec => []BuffersHeld
  <1>1. IInv => BuffersHeld
    BY DEF IInv, OwnerIsBusy, BuffersHeld
  <1> QED BY <1>1, Invariance, PTL
=============================================================================
