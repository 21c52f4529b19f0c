------------------------------- MODULE Timers -------------------------------
(***************************************************************************)
(* The timer slots of shim/src/shim_time.cpp and the two kinds of owner    *)
(* they have: the BackoffPoller of crates/symbian/src/backoff.rs, which    *)
(* cancels and re-arms, and the other users of timer_after and             *)
(* timer_every in the process.                                             *)
(*                                                                         *)
(* A handle is the number of a slot. A timer that has fired stays in its   *)
(* slot until it is cancelled or the slot is wanted. RunL puts an event    *)
(* that names the slot in the ring; a later step of the application takes  *)
(* it out.                                                                 *)
(*                                                                         *)
(* Time is the timers': it passes for all that run, and they may expire    *)
(* long before the GUI thread gets to them. The clamp of 2000 s is beyond  *)
(* the delays used here.                                                   *)
(***************************************************************************)
EXTENDS Integers, FiniteSets, EventRing

CONSTANTS MaxTimers,            \* KMaxTimers: 8 in the code
          Others,               \* the owners beside the poller
          BaseMs, MaxMs,        \* the poller's backoff
          JitterMs,             \* jitter() is below it; none if it is 0
          Caps                  \* what cap_next is called with

ASSUME SlotsAssumption == MaxTimers \in Nat \ {0} /\ Caps \subseteq Int
ASSUME BackoffAssumption == /\ BaseMs \in Nat \ {0} /\ MaxMs \in Nat /\ BaseMs <= MaxMs
                            /\ JitterMs \in Nat
Slots == 0..(MaxTimers - 1)
NoHandle == -1
Poller == "poller"
ASSUME OthersAssumption == Poller \notin Others /\ IsFiniteSet(Others)
Owners == {Poller} \cup Others
LongestMs == MaxMs + JitterMs

INSTANCE Backoff

VARIABLES
    timers,     \* [Slots -> gTimers[slot]]
    ring,       \* the event ring
    gui,        \* the GUI thread: "scheduler", or "step" inside rust_step
    poller,     \* BackoffPoller: current, ticker, armed
    handle,     \* [Others -> the handle each has kept]
    held,       \* the hold property: the keypad is locked
    answer,     \* what the last event was to the poller
    missed,     \* history: a full ring dropped the event of the poller's timer
    robbed      \* history: that timer was cancelled by another owner's old handle

vars == <<timers, ring, gui, poller, handle, held, answer, missed, robbed>>

\* CShimTimer: running with so long to go, expired and about to run, or done
Empty == [owner |-> "none", st |-> "empty", left |-> 0, every |-> 0]
Timer(owner, ms, every) == [owner |-> owner, st |-> "running", left |-> ms, every |-> every]

Init ==
    /\ timers = [h \in Slots |-> Empty]
    /\ ring = <<>> /\ gui = "scheduler"
    /\ poller = [current |-> BaseMs, ticker |-> NoHandle, armed |-> 0]
    /\ handle = [o \in Others |-> NoHandle]
    /\ held \in BOOLEAN
    /\ answer = "none"
    /\ missed = FALSE /\ robbed = FALSE
-----------------------------------------------------------------------------
(* shim_timer_after, shim_timer_every, shim_timer_cancel on the slots ts *)

Lowest(S) == CHOOSE h \in S : \A g \in S : h <= g
In(ts, st) == {h \in Slots : ts[h].st = st}

\* AllocSlot: an empty slot, or else that of a timer that has fired
AllocSlotMutant(ts) == IF In(ts, "empty") # {} THEN Lowest(In(ts, "empty")) ELSE NoHandle
AllocSlot(ts) ==
    IF In(ts, "empty") # {} THEN Lowest(In(ts, "empty"))
    ELSE IF In(ts, "done") # {} THEN Lowest(In(ts, "done"))
    ELSE NoHandle

\* StartTimer, which does not look who keeps the handle of the slot it gives away:
\* NO_MEMORY when every slot is in use
Started(ts, timer) ==
    LET h == AllocSlot(ts)
    IN  [slots |-> IF h = NoHandle THEN ts ELSE [ts EXCEPT ![h] = timer], handle |-> h]

CancelledMutant(ts, h) == ts
Cancelled(ts, h) == IF h = NoHandle THEN ts ELSE [ts EXCEPT ![h] = Empty]
-----------------------------------------------------------------------------
(* BackoffPoller *)

\* arm: cancel whatever the handle names, start a one-shot, forget a failure
Arm(delay, current) ==
    LET s == Started(Cancelled(timers, poller.ticker), Timer(Poller, delay, 0)) IN
    /\ timers' = s.slots
    /\ poller' = [current |-> current, ticker |-> s.handle, armed |-> delay]
    /\ missed' = FALSE /\ robbed' = FALSE

Start ==
    /\ gui = "step" /\ poller.armed = 0
    /\ Arm(poller.current, AfterTick(poller.current, BaseMs, MaxMs))
    /\ UNCHANGED <<ring, gui, handle, held, answer>>

\* cap_next, where it does anything
CapNext(ms) ==
    LET wait == IF ms < 1 THEN 1 ELSE ms IN
    /\ gui = "step"
    /\ poller.armed # 0 /\ wait < poller.armed
    /\ Arm(wait, poller.current)
    /\ UNCHANGED <<ring, gui, handle, held, answer>>

OursMutant(e) == e.kind = "timer" /\ e.handle = poller.ticker /\ timers[e.handle].st # "done"
Ours(e) == e.kind = "timer" /\ e.handle = poller.ticker

\* poll: the hold comes first, then the tick, then the change of a property; of the
\* properties the activity key only resets the cadence
Jitter == IF JitterMs = 0 THEN 0 ELSE JitterMs - 1
Polled(e, jitter) ==
    IF held
    THEN /\ answer' = "quiet"
         /\ Arm(MaxMs, AfterHold(MaxMs))
    ELSE IF Ours(e)
    THEN /\ answer' = "tick"
         /\ Arm(poller.current, AfterTick(poller.current, BaseMs, MaxMs))
    ELSE /\ answer' = IF e.kind = "key" THEN "later" ELSE "message"
         /\ Arm(ResetDelay(BaseMs, jitter), AfterReset(BaseMs, MaxMs))

Poll ==
    /\ gui = "step" /\ ring # <<>>
    /\ LET e == Head(ring) IN
       IF Ours(e) \/ e.kind # "timer"
       THEN \E jitter \in 0..Jitter : Polled(e, jitter)
       ELSE answer' = "none" /\ UNCHANGED <<timers, poller, missed, robbed>>
    /\ ring' = Tail(ring)
    /\ UNCHANGED <<gui, handle, held>>
-----------------------------------------------------------------------------
(* The other owners: they start timers, may cancel them, and may forget a handle *)

Live(h) == timers[h].st \in {"running", "expired"}

OtherStarts(o, ms, every) ==
    LET s == Started(timers, Timer(o, ms, every)) IN
    /\ gui = "step" /\ handle[o] = NoHandle
    /\ timers' = s.slots
    /\ handle' = [handle EXCEPT ![o] = s.handle]
    /\ UNCHANGED <<ring, gui, poller, held, answer, missed, robbed>>

\* timer_cancel, also on a handle whose timer has fired and whose slot has another now
OtherCancels(o) ==
    /\ gui = "step" /\ handle[o] # NoHandle
    /\ timers' = Cancelled(timers, handle[o])
    /\ handle' = [handle EXCEPT ![o] = NoHandle]
    /\ robbed' = (robbed \/ (Live(handle[o]) /\ timers[handle[o]].owner = Poller))
    /\ UNCHANGED <<ring, gui, poller, held, answer, missed>>

\* a one-shot that has fired may simply be left where it is
OtherForgets(o) ==
    /\ gui = "step" /\ handle[o] # NoHandle /\ timers[handle[o]].st = "done"
    /\ handle' = [handle EXCEPT ![o] = NoHandle]
    /\ UNCHANGED <<timers, ring, gui, poller, held, answer, missed, robbed>>
-----------------------------------------------------------------------------
(* The GUI thread *)

StepBegins ==
    /\ gui = "scheduler" /\ In(timers, "expired") = {}
    /\ gui' = "step" /\ answer' = "none"
    /\ UNCHANGED <<timers, ring, poller, handle, held, missed, robbed>>

StepEnds ==
    /\ gui = "step" /\ ring = <<>>
    /\ gui' = "scheduler"
    /\ UNCHANGED <<timers, ring, poller, handle, held, answer, missed, robbed>>

\* CShimTimer::RunL: a repeating timer goes on from now
RunL(h) ==
    LET t == timers[h] IN
    /\ gui = "scheduler" /\ t.st = "expired"
    /\ ring' = Pushed(ring, [kind |-> "timer", handle |-> h])
    /\ timers' = [timers EXCEPT ![h] = IF t.every > 0 THEN Timer(t.owner, t.every, t.every)
                                       ELSE [t EXCEPT !.st = "done"]]
    /\ missed' = (missed \/ (t.owner = Poller /\ ~Fits(ring)))
    /\ UNCHANGED <<gui, poller, handle, held, answer, robbed>>

\* a property the process subscribes to has changed
PropRunL(kind) ==
    /\ gui = "scheduler" /\ poller.armed > 0
    /\ ring' = Pushed(ring, [kind |-> kind, handle |-> NoHandle])
    /\ held' = IF kind = "hold" THEN ~held ELSE held
    /\ UNCHANGED <<timers, gui, poller, handle, answer, missed, robbed>>

Gui == (\E h \in Slots : RunL(h)) \/ StepBegins \/ Poll \/ StepEnds

\* time passes
Elapses ==
    /\ timers' = [h \in Slots |->
          LET t == timers[h] IN
          IF t.st # "running" THEN t
          ELSE IF t.left > 1 THEN [t EXCEPT !.left = @ - 1]
          ELSE [t EXCEPT !.st = "expired", !.left = 0]]
    /\ UNCHANGED <<ring, gui, poller, handle, held, answer, missed, robbed>>

Next ==
    \/ Gui
    \/ Start
    \/ \E ms \in Caps : CapNext(ms)
    \/ \E o \in Others :
          \/ \E every \in {0, BaseMs} : OtherStarts(o, BaseMs, every)
          \/ OtherCancels(o) \/ OtherForgets(o)
    \/ \E kind \in {"key", "message", "hold"} : PropRunL(kind)
    \/ Elapses

Spec == Init /\ [][Next]_vars

\* time passes, the scheduler dispatches what is ready, and the timers leave the pump,
\* whose priority is lower, the time to run
FairSpec ==
    /\ Spec /\ WF_vars(Elapses)
    /\ \A h \in Slots : WF_vars(RunL(h))
    /\ SF_vars(StepBegins) /\ WF_vars(Poll) /\ WF_vars(StepEnds)
-----------------------------------------------------------------------------
(* Properties *)

\* Types; what is armed stays within the cadence, jitter included.
TypeOK ==
    /\ timers \in [Slots -> [owner : Owners \cup {"none"}, left : 0..LongestMs,
                             st : {"empty", "running", "expired", "done"}, every : {0, BaseMs}]]
    /\ ring \in Seq([kind : {"timer", "key", "message", "hold"}, handle : Slots \cup {NoHandle}])
    /\ Len(ring) <= Capacity
    /\ gui \in {"scheduler", "step"}
    /\ poller \in [current : Intervals(BaseMs, MaxMs), ticker : Slots \cup {NoHandle},
                   armed : 0..LongestMs]
    /\ handle \in [Others -> Slots \cup {NoHandle}]
    /\ held \in BOOLEAN /\ missed \in BOOLEAN /\ robbed \in BOOLEAN
    /\ answer \in {"none", "quiet", "tick", "later", "message"}

\* A poller that has started is never left without a wake-up: its timer runs, or its event
\* is in the ring. It re-arms on every path through poll, and the pool always has a slot for
\* it, empty or left by a timer that has fired, while fewer owners than slots keep one. Two
\* things can take the wake-up away: a full ring, which drops its event (missed), and an
\* owner that cancels a one-shot which fired long ago, in a slot that AllocSlot has since
\* given to the poller (robbed); the code has such a cancel for a safe no-op.
Asleep ==
    poller.armed > 0 /\ ~missed /\ ~robbed /\ Cardinality(Others) < MaxTimers =>
        /\ poller.ticker # NoHandle
        /\ \/ Live(poller.ticker) /\ timers[poller.ticker].owner = Poller
           \/ \E i \in DOMAIN ring : Ours(ring[i])

\* However often it cancels and re-arms, one timer of the poller runs at most, so it does
\* not fill the pool, nor wake twice for one sleep.
OneSleep == \A h \in Slots : timers[h].owner = Poller /\ Live(h) => h = poller.ticker

\* A poller that has started hears of time again and again, whatever is armed and cancelled
\* beside it, until a full ring drops its event or the cancel of another owner's old handle
\* hits its timer.
WakesAgain == poller.armed > 0 ~> answer # "none" \/ missed \/ robbed
=============================================================================
