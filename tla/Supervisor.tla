----------------------------- MODULE Supervisor -----------------------------
(***************************************************************************)
(* The boot supervisor, crates/symbian-bootcfg/src/supervise.rs, together  *)
(* with the caller's loop its module comment prescribes (lines 9-24).      *)
(*                                                                         *)
(* step() is pure: it returns one Action, and the caller performs it and   *)
(* asks again, until the Action is a Wait.  `action` is what step()        *)
(* returned last and the caller has not performed yet; [kind |-> "Ask"]    *)
(* is a caller about to call step().  The loop over the slots inside       *)
(* supervise() is taken one slot per step, `cursor` being the slot whose   *)
(* turn it is: 0 outside the loop, NSlots + 1 after the last slot.  No     *)
(* other action is enabled while cursor # 0, as nothing else runs then.    *)
(*                                                                         *)
(* Time.  The code compares now_ms with a few saved instants.  Here an     *)
(* instant is kept as its distance from now: `age` (since launched_at),    *)
(* `hold` (until next_restart_ms) and `quiet` (since last_change_ms), each *)
(* capped where the code stops telling values apart, so time needs no      *)
(* bound.  It passes only while the caller waits for its timer, which may  *)
(* be late by up to Lateness units.                                        *)
(*                                                                         *)
(* A definition whose name ends in Mutant is the one that follows it with  *)
(* a plausible slip in it.  No action uses one; each shows that a property *)
(* would notice the slip.                                                  *)
(***************************************************************************)
EXTENDS Integers, Sequences, FiniteSets, Backoff

CONSTANTS
    NSlots,             \* entries in the boot list, in launch order
    Configs,            \* the boot.cfg contents the boot may start from
    LaunchGrace,        \* LAUNCH_GRACE_MS
    DeadStrikes,        \* DEAD_STRIKES
    PollBase, PollMax,  \* POLL_BASE_MS, POLL_MAX_MS
    PollCriticalBase, PollCriticalMax,
    EntryBackoffBase, EntryBackoffMax,
    SettleTime,         \* SETTLE_MS
    NeverUpTries,       \* NEVER_UP_TRIES
    LaunchTries,        \* LAUNCH_TRIES
    LaunchRetry,        \* LAUNCH_RETRY_MS
    Heartbeat,          \* HEARTBEAT_MS
    MaxWait,            \* MAX_WAIT_MS
    CountMax,           \* where the counters saturate (u8::MAX, u16::MAX)
    Lateness            \* how late the timer may fire

Slots == 1..NSlots
None == 0               \* Option::None for a slot index
NotLaunched == -1       \* launched_at == None

\* config.rs Policy.  Times(0) is normalised to Never when the file is read.
Never == [kind |-> "Never", n |-> 0]
Always == [kind |-> "Always", n |-> 0]
Times(n) == [kind |-> "Times", n |-> n]
Policies == {Never, Always} \cup {Times(n) : n \in 1..CountMax}

\* Policy::budget().is_some_and(|n| restarts >= n), negated as in the code
WithinBudgetMutant(policy, restarts) == policy.kind = "Always" \/ restarts + 1 < policy.n
WithinBudget(policy, restarts) == policy.kind = "Always" \/ restarts < policy.n

\* config.rs BootConfig, with bootd's and bootctl's own entries as `refused`
BootConfig ==
    [policy: [Slots -> Policies], enabled: SUBSET Slots, refused: SUBSET Slots,
     critical: SUBSET Slots, maxRestarts: 0..CountMax,
     firstDelay: Nat, delay: [Slots -> Nat]]

ASSUME NSlotsAssumption == NSlots \in Nat
ASSUME ConfigsAssumption == Configs \subseteq BootConfig
ASSUME CountsAssumption ==
    /\ DeadStrikes \in Nat \ {0}
    /\ NeverUpTries \in Nat
    /\ LaunchTries \in Nat \ {0}
    /\ CountMax \in Nat
    /\ {DeadStrikes, NeverUpTries, LaunchTries} \subseteq 1..CountMax
ASSUME TimesAssumption ==
    /\ {LaunchGrace, LaunchRetry, Lateness} \subseteq Nat
    /\ {PollBase, PollMax, PollCriticalBase, PollCriticalMax} \subseteq Nat \ {0}
    /\ {EntryBackoffBase, EntryBackoffMax, SettleTime, Heartbeat, MaxWait} \subseteq Nat \ {0}
    /\ PollBase <= PollMax
    /\ PollCriticalBase <= PollCriticalMax
    /\ EntryBackoffBase <= EntryBackoffMax

VARIABLES
    cfg,             \* the decoded boot.cfg this boot was planned from
    enabled,         \* the enabled entries of boot.cfg as it is on disk now
    slot,            \* Slot, one per entry
    phase,           \* Phase, with the slot it concerns
    restartsUsed, launchedAny, pollCurrent, queue, quiet,
    settledReported, resetCadence, installing, updating,
    cursor,          \* progress of the loop in supervise()
    action,          \* what step() returned last
    alive            \* the caller's answer, this round, to who is running

vars == <<cfg, enabled, slot, phase, restartsUsed, launchedAny, pollCurrent,
          queue, quiet, settledReported, resetCadence, installing, updating,
          cursor, action, alive>>

-----------------------------------------------------------------------------
\* Actions and phases

Act(kind, i) == [kind |-> kind, slot |-> i, ms |-> 0]
Ask == Act("Ask", None)
Wait(ms) == [kind |-> "Wait", slot |-> None, ms |-> IF ms < MaxWait THEN ms ELSE MaxWait]
Queueable ==
    {Act(k, i) : k \in {"Restart", "Disarm"}, i \in Slots} \cup {Act("GaveUp", None)}
Actions ==
    Queueable \cup {Act("Launch", i) : i \in Slots}
              \cup {Act(k, None) : k \in {"Ask", "Settled", "Done"}}
              \cup [kind: {"Wait"}, slot: {None}, ms: 0..MaxWait]

At(where, i) == [at |-> where, slot |-> i]
Phases ==
    {At(w, i) : w \in {"Delay", "Launch"}, i \in Slots}
      \cup {At(w, None) : w \in {"Supervise", "GaveUp", "Done"}}
Sequencing == phase.at \in {"Delay", "Launch"}

States == {"Pending", "Launched", "LaunchFailed", "Alive", "Dead", "Disarmed",
           "Skipped", "RefusedSelf"}

SlotType ==
    [supervised: BOOLEAN, age: -1..LaunchGrace, everAlive: BOOLEAN,
     strikes: 0..DeadStrikes, neverUpTries: 0..CountMax,
     launchTries: 0..CountMax, restarts: 0..CountMax, terminal: BOOLEAN,
     hold: 0..EntryBackoffMax, backoff: Intervals(EntryBackoffBase, EntryBackoffMax),
     state: States]

-----------------------------------------------------------------------------
\* Helpers

SatIncMutant(n) == n + 1
SatInc(n) == IF n < CountMax THEN n + 1 ELSE n
CapAt(n, cap) == IF n < cap THEN n ELSE cap

Supervised(i) == slot[i].supervised
Critical(i) == i \in cfg.critical

\* Where the sequence goes: the first supervised slot at or after `from`, if any
ActiveFrom(s, from) == {i \in Slots : i >= from /\ s[i].supervised}
FirstOf(S) == {i \in S : \A j \in S : i <= j}
PhaseFrom(s, from) ==
    IF ActiveFrom(s, from) = {} THEN {At("Supervise", None)}
                                ELSE {At("Delay", i) : i \in FirstOf(ActiveFrom(s, from))}

WatchesCritical(c) == \E i \in c.enabled \ c.refused : i \in c.critical
CadenceBase == IF WatchesCritical(cfg) THEN PollCriticalBase ELSE PollBase
CadenceMax == IF WatchesCritical(cfg) THEN PollCriticalMax ELSE PollMax

\* Supervisor::probes; an entry an update owns is not probed
ProbesMutant(i) == Supervised(i) /\ slot[i].age # NotLaunched
Probes(i) == Supervised(i) /\ slot[i].age # NotLaunched /\ updating # i

\* Supervisor::has_future_work
HasFutureWorkMutant ==
    \E i \in Slots : Supervised(i) /\ cfg.policy[i] # Never /\ ~slot[i].terminal
HasFutureWork ==
    \E i \in Slots : /\ Supervised(i)
                     /\ \/ updating = i
                        \/ cfg.policy[i] # Never /\ ~slot[i].terminal

-----------------------------------------------------------------------------
\* Supervisor::new

NewSlot(c, i) ==
    [supervised |-> i \in c.enabled \ c.refused, age |-> NotLaunched,
     everAlive |-> FALSE, strikes |-> 0, neverUpTries |-> 0, launchTries |-> 0,
     restarts |-> 0, terminal |-> FALSE, hold |-> 0, backoff |-> EntryBackoffBase,
     state |-> IF i \in c.refused THEN "RefusedSelf"
               ELSE IF i \notin c.enabled THEN "Skipped" ELSE "Pending"]

Init ==
    /\ cfg \in Configs
    /\ enabled = cfg.enabled
    /\ slot = [i \in Slots |-> NewSlot(cfg, i)]
    /\ phase \in PhaseFrom(slot, 1)
    /\ restartsUsed = 0
    /\ launchedAny = FALSE
    /\ pollCurrent = CadenceBase
    /\ queue = <<>>
    /\ quiet = 0
    /\ settledReported = FALSE
    /\ resetCadence = FALSE
    /\ installing = FALSE
    /\ updating = None
    /\ cursor = 0
    /\ action = Ask
    /\ alive = {}

-----------------------------------------------------------------------------
\* Supervisor::step

Asked == action.kind = "Ask" /\ cursor = 0
PhaseTurnMutant(where) == Asked /\ phase.at = where
PhaseTurn(where) == Asked /\ queue = <<>> /\ phase.at = where

\* What was queued by the last round goes out first, one instruction a call.
PopQueue ==
    /\ Asked
    /\ queue # <<>>
    /\ action' = Head(queue)
    /\ queue' = Tail(queue)
    /\ UNCHANGED <<cfg, enabled, slot, phase, restartsUsed, launchedAny, pollCurrent,
                   quiet, settledReported, resetCadence, installing, updating,
                   cursor, alive>>

\* Phase::Delay(i): wait before the launch, longer or shorter by its history.
StepDelay ==
    /\ PhaseTurn("Delay")
    /\ phase' = At("Launch", phase.slot)
    /\ action' = Wait(IF slot[phase.slot].launchTries > 0 THEN LaunchRetry
                      ELSE IF launchedAny THEN cfg.delay[phase.slot]
                      ELSE cfg.firstDelay)
    /\ UNCHANGED <<cfg, enabled, slot, restartsUsed, launchedAny, pollCurrent, queue,
                   quiet, settledReported, resetCadence, installing, updating,
                   cursor, alive>>

\* Phase::Launch(i): hand out the launch and move to the next supervised slot.
StepLaunch ==
    /\ PhaseTurn("Launch")
    /\ launchedAny' = TRUE
    /\ phase' \in PhaseFrom(slot, phase.slot + 1)
    /\ action' = Act(IF slot[phase.slot].age # NotLaunched THEN "Restart" ELSE "Launch",
                     phase.slot)
    /\ UNCHANGED <<cfg, enabled, slot, restartsUsed, pollCurrent, queue, quiet,
                   settledReported, resetCadence, installing, updating, cursor, alive>>

\* Phase::Supervise: start the round at the first slot.
BeginRound ==
    /\ PhaseTurn("Supervise")
    /\ cursor' = 1
    /\ UNCHANGED <<cfg, enabled, slot, phase, restartsUsed, launchedAny, pollCurrent,
                   queue, quiet, settledReported, resetCadence, installing, updating,
                   action, alive>>

StepGaveUp ==
    /\ PhaseTurn("GaveUp")
    /\ action' = Wait(Heartbeat)
    /\ UNCHANGED <<cfg, enabled, slot, phase, restartsUsed, launchedAny, pollCurrent,
                   queue, quiet, settledReported, resetCadence, installing, updating,
                   cursor, alive>>

StepDone ==
    /\ PhaseTurn("Done")
    /\ action' = Act("Done", None)
    /\ UNCHANGED <<cfg, enabled, slot, phase, restartsUsed, launchedAny, pollCurrent,
                   queue, quiet, settledReported, resetCadence, installing, updating,
                   cursor, alive>>

-----------------------------------------------------------------------------
\* Supervisor::supervise, the loop: one action per way the body can go

Visiting(i) == cursor = i /\ i \in Slots
NextSlot == cursor' = cursor + 1
RoundFrame ==
    UNCHANGED <<cfg, enabled, launchedAny, pollCurrent, installing, updating, action, alive>>
NothingHappened ==
    /\ RoundFrame
    /\ UNCHANGED <<phase, restartsUsed, queue, quiet, settledReported, resetCadence>>

\* last_change_ms = now_ms; settled_reported = false; reset_cadence = true
SomethingHappened ==
    /\ RoundFrame
    /\ quiet' = 0
    /\ settledReported' = FALSE
    /\ resetCadence' = TRUE

MissingMutant(i) == /\ Visiting(i) /\ Probes(i)
                    /\ i \notin alive /\ slot[i].age >= LaunchGrace
Missing(i) == /\ Visiting(i) /\ Probes(i) /\ ~slot[i].terminal
              /\ i \notin alive /\ slot[i].age >= LaunchGrace

\* Not probed, terminal, or not running but still inside its grace
PassOver(i) ==
    /\ Visiting(i)
    /\ \/ ~Probes(i)
       \/ slot[i].terminal
       \/ i \notin alive /\ slot[i].age < LaunchGrace
    /\ NextSlot
    /\ NothingHappened
    /\ UNCHANGED slot

SeenAlive(i) ==
    /\ Visiting(i)
    /\ Probes(i)
    /\ ~slot[i].terminal
    /\ i \in alive
    /\ slot' = [slot EXCEPT ![i].everAlive = TRUE, ![i].strikes = 0, ![i].state = "Alive"]
    /\ quiet' = IF slot[i].state = "Alive" THEN quiet ELSE 0
    /\ NextSlot
    /\ RoundFrame
    /\ UNCHANGED <<phase, restartsUsed, queue, settledReported, resetCadence>>

\* Never once seen running, and its separate budget is spent
NeverUpSpent(i) ==
    /\ Missing(i)
    /\ ~slot[i].everAlive
    /\ slot[i].neverUpTries >= NeverUpTries
    /\ slot' = [slot EXCEPT ![i].terminal = TRUE, ![i].state = "Dead"]
    /\ quiet' = 0
    /\ NextSlot
    /\ RoundFrame
    /\ UNCHANGED <<phase, restartsUsed, queue, settledReported, resetCadence>>

NeverUpHeld(i) ==
    /\ Missing(i)
    /\ ~slot[i].everAlive
    /\ slot[i].neverUpTries < NeverUpTries
    /\ slot[i].hold > 0
    /\ NextSlot
    /\ NothingHappened
    /\ UNCHANGED slot

NeverUpRetry(i) ==
    /\ Missing(i)
    /\ ~slot[i].everAlive
    /\ slot[i].neverUpTries < NeverUpTries
    /\ slot[i].hold = 0
    /\ slot' = [slot EXCEPT ![i].neverUpTries = SatInc(@),
                            ![i].hold = slot[i].backoff,
                            ![i].backoff = AfterTick(@, EntryBackoffBase, EntryBackoffMax),
                            ![i].age = 0]
    /\ queue' = Append(queue, Act("Restart", i))
    /\ NextSlot
    /\ SomethingHappened
    /\ UNCHANGED <<phase, restartsUsed>>

\* Seen running before and missing now, but not often enough in a row
Strike(i) ==
    /\ Missing(i)
    /\ slot[i].everAlive
    /\ slot[i].strikes + 1 < DeadStrikes
    /\ slot' = [slot EXCEPT ![i].strikes = @ + 1]
    /\ NextSlot
    /\ NothingHappened

ConfirmedDead(i) == Missing(i) /\ slot[i].everAlive /\ slot[i].strikes + 1 >= DeadStrikes

\* Supervisor::consider_restart, one action per outcome

OutOfBudget(i) ==
    /\ ConfirmedDead(i)
    /\ ~WithinBudget(cfg.policy[i], slot[i].restarts)
    /\ slot' = [slot EXCEPT ![i].strikes = DeadStrikes, ![i].terminal = TRUE,
                            ![i].state = IF cfg.policy[i] = Never THEN "Dead" ELSE "Disarmed"]
    /\ queue' = IF cfg.policy[i] = Never THEN queue ELSE Append(queue, Act("Disarm", i))
    /\ NextSlot
    /\ SomethingHappened
    /\ UNCHANGED <<phase, restartsUsed>>

CeilingAppliesMutant(i) == restartsUsed > cfg.maxRestarts /\ ~Critical(i)
CeilingApplies(i) == restartsUsed >= cfg.maxRestarts /\ ~Critical(i)

CeilingReached(i) ==
    /\ ConfirmedDead(i)
    /\ WithinBudget(cfg.policy[i], slot[i].restarts)
    /\ CeilingApplies(i)
    /\ slot' = [slot EXCEPT ![i].strikes = DeadStrikes, ![i].terminal = TRUE, ![i].state = "Dead"]
    /\ phase' = At("GaveUp", None)
    /\ queue' = Append(queue, Act("GaveUp", None))
    /\ NextSlot
    /\ SomethingHappened
    /\ UNCHANGED restartsUsed

\* An install in progress, or its own backoff: recorded, reconsidered next poll
MustWaitMutant(i) == installing \/ slot[i].hold = 0
MustWait(i) == installing \/ slot[i].hold > 0

Defer(i) ==
    /\ ConfirmedDead(i)
    /\ WithinBudget(cfg.policy[i], slot[i].restarts)
    /\ ~CeilingApplies(i)
    /\ MustWait(i)
    /\ slot' = [slot EXCEPT ![i].strikes = DeadStrikes, ![i].state = "Dead"]
    /\ NextSlot
    /\ SomethingHappened
    /\ UNCHANGED <<phase, restartsUsed, queue>>

GrantRestart(i) ==
    /\ ConfirmedDead(i)
    /\ WithinBudget(cfg.policy[i], slot[i].restarts)
    /\ ~CeilingApplies(i)
    /\ ~MustWait(i)
    /\ slot' = [slot EXCEPT ![i].restarts = SatInc(@), ![i].strikes = 0,
                            ![i].hold = slot[i].backoff,
                            ![i].backoff = AfterTick(@, EntryBackoffBase, EntryBackoffMax)]
    /\ restartsUsed' = SatInc(restartsUsed)
    /\ queue' = Append(queue, Act("Restart", i))
    /\ NextSlot
    /\ SomethingHappened
    /\ UNCHANGED phase

Visit(i) ==
    \/ PassOver(i) \/ SeenAlive(i)
    \/ NeverUpSpent(i) \/ NeverUpHeld(i) \/ NeverUpRetry(i)
    \/ Strike(i) \/ OutOfBudget(i) \/ CeilingReached(i) \/ Defer(i) \/ GrantRestart(i)

-----------------------------------------------------------------------------
\* Supervisor::supervise, after the loop

LoopDone == cursor = NSlots + 1
NowQuietMutant == ~settledReported
NowQuiet == quiet >= SettleTime /\ ~settledReported

RoundAnswers ==
    /\ LoopDone
    /\ queue # <<>>
    /\ action' = Head(queue)
    /\ queue' = Tail(queue)
    /\ cursor' = 0
    /\ UNCHANGED <<cfg, enabled, slot, phase, restartsUsed, launchedAny, pollCurrent,
                   quiet, settledReported, resetCadence, installing, updating, alive>>

RoundSettles ==
    /\ LoopDone
    /\ queue = <<>>
    /\ NowQuiet
    /\ settledReported' = TRUE
    /\ phase' = IF HasFutureWork THEN phase ELSE At("Done", None)
    /\ action' = Act("Settled", None)
    /\ cursor' = 0
    /\ UNCHANGED <<cfg, enabled, slot, restartsUsed, launchedAny, pollCurrent, queue,
                   quiet, resetCadence, installing, updating, alive>>

RoundFinishes ==
    /\ LoopDone
    /\ queue = <<>>
    /\ settledReported
    /\ ~HasFutureWork
    /\ phase' = At("Done", None)
    /\ action' = Act("Done", None)
    /\ cursor' = 0
    /\ UNCHANGED <<cfg, enabled, slot, restartsUsed, launchedAny, pollCurrent, queue,
                   quiet, settledReported, resetCadence, installing, updating, alive>>

RoundWaits ==
    /\ LoopDone
    /\ queue = <<>>
    /\ ~NowQuiet
    /\ ~(settledReported /\ ~HasFutureWork)
    /\ resetCadence' = FALSE
    /\ IF resetCadence
       THEN /\ action' = Wait(ResetDelay(CadenceBase, 0))
            /\ pollCurrent' = AfterReset(CadenceBase, CadenceMax)
       ELSE /\ action' = Wait(pollCurrent)
            /\ pollCurrent' = AfterTick(pollCurrent, CadenceBase, CadenceMax)
    /\ cursor' = 0
    /\ UNCHANGED <<cfg, enabled, slot, phase, restartsUsed, launchedAny, queue, quiet,
                   settledReported, installing, updating, alive>>

-----------------------------------------------------------------------------
\* The caller (apps/bootd), from the loop in the module comment

\* launch_tries after one more failure
FailuresMutant(i) == slot[i].launchTries
Failures(i) == SatInc(slot[i].launchTries)

\* The launch is made and its return code goes back through note_launch.
NoteLaunch(ok) ==
    /\ action.kind \in {"Launch", "Restart"}
    /\ LET i == action.slot
       IN  IF ok
           THEN /\ slot' = [slot EXCEPT ![i].age = 0, ![i].everAlive = FALSE,
                                        ![i].strikes = 0, ![i].launchTries = 0,
                                        ![i].state = "Launched"]
                /\ UNCHANGED phase
           ELSE /\ slot' = [slot EXCEPT ![i].launchTries = Failures(i),
                                        ![i].state = "LaunchFailed"]
                /\ phase' = IF Failures(i) < LaunchTries THEN At("Delay", i) ELSE phase
    /\ quiet' = 0
    /\ action' = Ask
    /\ UNCHANGED <<cfg, enabled, restartsUsed, launchedAny, pollCurrent, queue,
                   settledReported, resetCadence, installing, updating, cursor, alive>>

\* boot.cfg is written back with the entry disabled.
PersistDisarm ==
    /\ action.kind = "Disarm"
    /\ enabled' = enabled \ {action.slot}
    /\ action' = Ask
    /\ UNCHANGED <<cfg, slot, phase, restartsUsed, launchedAny, pollCurrent, queue,
                   quiet, settledReported, resetCadence, installing, updating, cursor, alive>>

\* Settled and GaveUp only make the caller write the status report.
WriteStatus ==
    /\ action.kind \in {"Settled", "GaveUp"}
    /\ action' = Ask
    /\ UNCHANGED <<cfg, enabled, slot, phase, restartsUsed, launchedAny, pollCurrent,
                   queue, quiet, settledReported, resetCadence, installing, updating,
                   cursor, alive>>

\* d units later the timer fires: set_installing, set_updating, who is running.
Elapse(s, d) ==
    [s EXCEPT !.age = IF @ = NotLaunched THEN @ ELSE CapAt(@ + d, LaunchGrace),
              !.hold = IF @ > d THEN @ - d ELSE 0]

TimerFires(d) ==
    /\ action.kind = "Wait"
    /\ d >= action.ms
    /\ slot' = [i \in Slots |-> Elapse(slot[i], d)]
    /\ quiet' = CapAt(quiet + d, SettleTime)
    /\ installing' \in BOOLEAN
    /\ updating' \in Slots \cup {None}
    /\ alive' \in SUBSET {i \in Slots : slot[i].age # NotLaunched}
    /\ action' = Ask
    /\ UNCHANGED <<cfg, enabled, phase, restartsUsed, launchedAny, pollCurrent, queue,
                   settledReported, resetCadence, cursor>>

-----------------------------------------------------------------------------
Step == \/ PopQueue \/ StepDelay \/ StepLaunch \/ BeginRound \/ StepGaveUp \/ StepDone
        \/ \E i \in Slots : Visit(i)
        \/ RoundAnswers \/ RoundSettles \/ RoundFinishes \/ RoundWaits

Caller == \/ \E ok \in BOOLEAN : NoteLaunch(ok)
          \/ PersistDisarm \/ WriteStatus
          \/ \E d \in 0..(MaxWait + Lateness) :
                d <= action.ms + Lateness /\ TimerFires(d)

Next == Step \/ Caller

Spec == Init /\ [][Next]_vars
-----------------------------------------------------------------------------
\* Every variable has its type, and step() is called only between rounds.
TypeOK ==
    /\ cfg \in Configs
    /\ enabled \subseteq cfg.enabled
    /\ slot \in [Slots -> SlotType]
    /\ phase \in Phases
    /\ restartsUsed \in 0..CountMax
    /\ launchedAny \in BOOLEAN
    /\ pollCurrent \in Intervals(CadenceBase, CadenceMax)
    /\ queue \in Seq(Queueable)
    /\ quiet \in 0..SettleTime
    /\ settledReported \in BOOLEAN
    /\ resetCadence \in BOOLEAN
    /\ installing \in BOOLEAN
    /\ updating \in Slots \cup {None}
    /\ cursor \in 0..(NSlots + 1)
    /\ action \in Actions
    /\ alive \subseteq Slots

-----------------------------------------------------------------------------
\* Safety

\* The global ceiling stops ordinary entries wherever the restarts were spent:
\* none is restarted for dying more often than the whole boot list may be, and
\* with no critical entry in the list nor is the list as a whole.
CeilingHolds ==
    /\ \A i \in Slots \ cfg.critical : slot[i].restarts <= cfg.maxRestarts
    /\ cfg.critical = {} => restartsUsed <= cfg.maxRestarts

\* boot.cfg is rewritten without an entry only when that entry has a budget of
\* its own and this boot has spent all of it; Never and Always stay enabled.
DisarmEarned ==
    \A i \in cfg.enabled \ enabled :
        /\ cfg.policy[i].kind = "Times"
        /\ slot[i].restarts = cfg.policy[i].n
        /\ slot[i].terminal

\* The instructions of one round concern each entry at most once, order no
\* restart of an entry written off for good, and are all out before the caller
\* goes to sleep.
QueueSound ==
    /\ \A j, k \in DOMAIN queue :
            j # k /\ queue[j].slot # None => queue[j].slot # queue[k].slot
    /\ \A j \in DOMAIN queue :
            queue[j].kind = "Restart" => ~slot[queue[j].slot].terminal
    /\ action.kind = "Wait" => queue = <<>>

\* Settled clears the boot counter, so it is not said while a confirmed death
\* waits for its restart, nor while the launch sequence has entries to go.
SettledIsStable ==
    action.kind = "Settled" =>
        /\ ~Sequencing
        /\ \A i \in Slots : Probes(i) /\ ~slot[i].terminal => slot[i].strikes < DeadStrikes

\* The daemon exits only when every entry has had its launches and none can be
\* restarted any more, and never while an update owns one of them.
DoneIsFinal ==
    action.kind = "Done" =>
        \A i \in Slots : Supervised(i) =>
            /\ updating # i
            /\ cfg.policy[i] = Never \/ slot[i].terminal
            /\ slot[i].age # NotLaunched \/ slot[i].launchTries >= LaunchTries

\* Once the supervisor has written an entry off it never decides otherwise: no
\* budget is spent on it and no restart of it is queued.
TerminalIsFinal ==
    [][\A i \in Slots : slot[i].terminal =>
          /\ slot'[i].terminal
          /\ slot'[i].restarts = slot[i].restarts
          /\ slot'[i].neverUpTries = slot[i].neverUpTries
          /\ Len(queue') > Len(queue) => queue'[Len(queue')] # Act("Restart", i)]_vars

\* While an update owns an entry no round records anything about it.
UpdateOwnsItsEntry ==
    [][updating # None /\ cursor # 0 => slot'[updating] = slot[updating]]_vars

-----------------------------------------------------------------------------
\* Liveness, under HFairSpec of SupervisorHistory

\* However often launches fail, the launch sequence comes to an end.
SequenceEnds == []<>~Sequencing

Gone(i) == i \notin alive /\ ~installing /\ updating # i
WrittenOff(i) == slot[i].terminal \/ slot[i].age = NotLaunched
Stopped == phase.at \in {"GaveUp", "Done"}

\* An entry that is never again seen running is restarted for as long as the
\* boot goes on, or written off, or the supervisor says it has given up.
DeathIsAnswered ==
    \A i \in Slots : Supervised(i) /\ <>[]Gone(i) =>
        \/ []<>(action = Act("Restart", i))
        \/ <>[](WrittenOff(i) \/ Stopped)

=============================================================================
