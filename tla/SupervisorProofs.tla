--------------------------- MODULE SupervisorProofs ---------------------------
(***************************************************************************)
(* Type correctness of the boot supervisor, and its restart accounting,    *)
(* for every boot list, every budget and every choice of the times.        *)
(***************************************************************************)
EXTENDS Supervisor, TLAPS

-----------------------------------------------------------------------------
\* Lemmas about the helpers

\* A Backoff's interval never leaves base..max (backoff.rs on_tick, on_reset).
LEMMA BackoffStays ==
    ASSUME NEW base \in Nat, NEW max \in Nat, base <= max,
           NEW current \in Intervals(base, max)
    PROVE  /\ AfterTick(current, base, max) \in Intervals(base, max)
           /\ AfterReset(base, max) \in Intervals(base, max)
           /\ ResetDelay(base, 0) = base
BY DEF Intervals, AfterTick, AfterReset, ResetDelay, Clamp

\* Saturating counters stay in range and only grow (u8/u16 saturating_add(1)).
LEMMA SatIncStays ==
    ASSUME NEW n \in 0..CountMax
    PROVE  SatInc(n) \in 0..CountMax /\ n <= SatInc(n) /\ SatInc(n) <= n + 1
BY CountsAssumption DEF SatInc

\* What the poll cadence is picked from is a legal pair of Backoff bounds.
LEMMA CadenceBounds ==
    /\ CadenceBase \in Nat /\ CadenceMax \in Nat
    /\ CadenceBase <= CadenceMax /\ CadenceBase > 0
BY TimesAssumption DEF CadenceBase, CadenceMax

\* Every wait the supervisor asks for is inside the ceiling of the shim's timer.
LEMMA WaitIsAction == ASSUME NEW ms \in Nat PROVE Wait(ms) \in Actions
<1>1. Wait(ms) \in [kind: {"Wait"}, slot: {None}, ms: 0..MaxWait]
  BY TimesAssumption DEF Wait, None
<1> QED BY <1>1 DEF Actions

LEMMA ActsAreActions ==
    /\ Ask \in Actions
    /\ Act("Settled", None) \in Actions /\ Act("Done", None) \in Actions
    /\ \A i \in Slots : Act("Launch", i) \in Actions
    /\ \A i \in Slots : Act("Restart", i) \in Actions
    /\ \A i \in Slots : Act("Restart", i) \in Queueable
    /\ \A i \in Slots : Act("Disarm", i) \in Queueable
    /\ Act("GaveUp", None) \in Queueable
    /\ Queueable \subseteq Actions
BY DEF Actions, Queueable, Ask

\* After a launch the sequence goes to a supervised slot, or to supervising.
LEMMA PhaseFromIsPhase ==
    ASSUME NEW s, NEW from PROVE PhaseFrom(s, from) \subseteq Phases
BY DEF PhaseFrom, Phases, FirstOf, ActiveFrom

-----------------------------------------------------------------------------
\* Type correctness

LEMMA InitType == Init => TypeOK
<1> SUFFICES ASSUME Init PROVE TypeOK
  OBVIOUS
<1>1. cfg \in BootConfig
  BY ConfigsAssumption DEF Init
<1>2. slot \in [Slots -> SlotType]
  <2> SUFFICES ASSUME NEW i \in Slots PROVE NewSlot(cfg, i) \in SlotType
    BY DEF Init
  <2> QED BY TimesAssumption, CountsAssumption
          DEF NewSlot, SlotType, NotLaunched, Intervals, States
<1>3. phase \in Phases
  BY PhaseFromIsPhase DEF Init
<1>4. pollCurrent \in Intervals(CadenceBase, CadenceMax)
  BY CadenceBounds DEF Init, Intervals
<1>5. action \in Actions /\ queue \in Seq(Queueable)
  BY ActsAreActions DEF Init
<1>6. /\ restartsUsed \in 0..CountMax
      /\ quiet \in 0..SettleTime
      /\ cursor \in 0..(NSlots + 1)
  BY NSlotsAssumption, CountsAssumption, TimesAssumption DEF Init
<1>7. updating \in Slots \cup {None}
  BY DEF Init
<1>8. /\ cfg \in Configs /\ enabled \subseteq cfg.enabled /\ alive \subseteq Slots
      /\ {launchedAny, settledReported, resetCadence, installing} \subseteq BOOLEAN
  BY DEF Init
<1> QED BY <1>2, <1>3, <1>4, <1>5, <1>6, <1>7, <1>8 DEF TypeOK

\* The parts of a slot a visit in supervise() rewrites keep their types.
LEMMA VisitType ==
    ASSUME TypeOK, NEW i \in Slots, Visit(i)
    PROVE  slot' \in [Slots -> SlotType]
<1>1. slot[i] \in SlotType /\ slot \in [Slots -> SlotType]
  BY DEF TypeOK
<1>2. slot[i].backoff \in Intervals(EntryBackoffBase, EntryBackoffMax)
  BY <1>1 DEF SlotType
<1>3. AfterTick(slot[i].backoff, EntryBackoffBase, EntryBackoffMax)
        \in Intervals(EntryBackoffBase, EntryBackoffMax)
  BY <1>2, BackoffStays, TimesAssumption
<1>4. slot[i].backoff \in 0..EntryBackoffMax
  BY <1>2, TimesAssumption DEF Intervals
<1>5. SatInc(slot[i].restarts) \in 0..CountMax /\ SatInc(slot[i].neverUpTries) \in 0..CountMax
  BY <1>1, SatIncStays DEF SlotType
<1>6. {"Alive", "Dead", "Disarmed"} \subseteq States
  BY DEF States
<1>7. 0 \in -1..LaunchGrace /\ 0 \in 0..DeadStrikes /\ DeadStrikes \in 0..DeadStrikes
  BY TimesAssumption, CountsAssumption
<1> HIDE DEF SatInc, AfterTick, Intervals, States
<1>a. CASE PassOver(i) \/ NeverUpHeld(i)
  BY <1>a, <1>1 DEF PassOver, NeverUpHeld
<1>b. CASE SeenAlive(i)
  BY <1>b, <1>1, <1>6, <1>7 DEF SeenAlive, SlotType
<1>c. CASE NeverUpSpent(i)
  BY <1>c, <1>1, <1>6 DEF NeverUpSpent, SlotType
<1>d. CASE NeverUpRetry(i)
  BY <1>d, <1>1, <1>3, <1>4, <1>5, <1>7 DEF NeverUpRetry, SlotType
<1>e. CASE Strike(i)
  <2>1. slot[i].strikes + 1 \in 0..DeadStrikes
    BY <1>e, <1>1, CountsAssumption DEF Strike, SlotType
  <2> QED BY <1>e, <1>1, <2>1 DEF Strike, SlotType
<1>f. CASE OutOfBudget(i)
  BY <1>f, <1>1, <1>6, <1>7 DEF OutOfBudget, SlotType
<1>g. CASE CeilingReached(i)
  BY <1>g, <1>1, <1>6, <1>7 DEF CeilingReached, SlotType
<1>h. CASE Defer(i)
  BY <1>h, <1>1, <1>6, <1>7 DEF Defer, SlotType
<1>i. CASE GrantRestart(i)
  BY <1>i, <1>1, <1>3, <1>4, <1>5, <1>7 DEF GrantRestart, SlotType
<1> QED BY <1>a, <1>b, <1>c, <1>d, <1>e, <1>f, <1>g, <1>h, <1>i DEF Visit

\* What a visit does to everything else.
LEMMA VisitFrame ==
    ASSUME TypeOK, NEW i \in Slots, Visit(i)
    PROVE  /\ phase' \in Phases
           /\ restartsUsed' \in 0..CountMax
           /\ queue' \in Seq(Queueable)
           /\ quiet' \in 0..SettleTime
           /\ {settledReported', resetCadence'} \subseteq BOOLEAN
           /\ cursor' \in 0..(NSlots + 1)
           /\ UNCHANGED <<cfg, enabled, launchedAny, pollCurrent, installing, updating,
                          action, alive>>
<1>1. /\ phase \in Phases /\ restartsUsed \in 0..CountMax /\ queue \in Seq(Queueable)
      /\ quiet \in 0..SettleTime /\ {settledReported, resetCadence} \subseteq BOOLEAN
  BY DEF TypeOK
<1>2. cursor' \in 0..(NSlots + 1)
  BY NSlotsAssumption DEF Visit, PassOver, SeenAlive, NeverUpSpent, NeverUpHeld,
     NeverUpRetry, Strike, OutOfBudget, CeilingReached, Defer, GrantRestart,
     Missing, ConfirmedDead, Visiting, NextSlot, Slots
<1>3. 0 \in 0..SettleTime /\ At("GaveUp", None) \in Phases
  BY TimesAssumption DEF Phases
<1>4. SatInc(restartsUsed) \in 0..CountMax
  BY <1>1, SatIncStays
<1>5. \A q \in Queueable : Append(queue, q) \in Seq(Queueable)
  BY <1>1
<1>6. {Act("Restart", i), Act("Disarm", i), Act("GaveUp", None)} \subseteq Queueable
  BY ActsAreActions
<1> HIDE DEF SatInc
<1> QED BY <1>1, <1>2, <1>3, <1>4, <1>5, <1>6
        DEF Visit, PassOver, SeenAlive, NeverUpSpent, NeverUpHeld,
            NeverUpRetry, Strike, OutOfBudget, CeilingReached, Defer, GrantRestart,
            SomethingHappened, NothingHappened, RoundFrame

\* Time passing keeps every slot in range.
LEMMA ElapseType ==
    ASSUME NEW s \in SlotType, NEW d \in Nat PROVE Elapse(s, d) \in SlotType
<1>1. s.age \in -1..LaunchGrace /\ s.hold \in 0..EntryBackoffMax
  BY DEF SlotType
<1>2. (IF s.age = NotLaunched THEN s.age ELSE CapAt(s.age + d, LaunchGrace)) \in -1..LaunchGrace
  BY <1>1, TimesAssumption DEF CapAt, NotLaunched
<1>3. (IF s.hold > d THEN s.hold - d ELSE 0) \in 0..EntryBackoffMax
  BY <1>1, TimesAssumption
<1> QED BY <1>2, <1>3 DEF Elapse, SlotType

LEMMA NextType == TypeOK /\ [Next]_vars => TypeOK'
<1> SUFFICES ASSUME TypeOK, [Next]_vars PROVE TypeOK'
  OBVIOUS
<1>0. /\ cfg \in BootConfig /\ cfg \in Configs /\ enabled \subseteq cfg.enabled
      /\ slot \in [Slots -> SlotType] /\ phase \in Phases
      /\ queue \in Seq(Queueable) /\ action \in Actions
      /\ pollCurrent \in Intervals(CadenceBase, CadenceMax)
  BY ConfigsAssumption DEF TypeOK
<1>1. phase.at \in {"Delay", "Launch"} => phase.slot \in Slots
  BY <1>0 DEF Phases, At
<1>2. queue # <<>> => Head(queue) \in Actions /\ Tail(queue) \in Seq(Queueable)
  BY <1>0, ActsAreActions
<1>3. ASSUME PopQueue PROVE TypeOK'
  BY <1>2, <1>3 DEF PopQueue, TypeOK, CadenceBase, CadenceMax
<1>4. ASSUME StepDelay PROVE TypeOK'
  <2>1. phase.slot \in Slots
    BY <1>4, <1>1 DEF StepDelay, PhaseTurn
  <2>2. phase' \in Phases
    BY <1>4, <2>1 DEF StepDelay, Phases
  <2>3. cfg.delay[phase.slot] \in Nat /\ cfg.firstDelay \in Nat
    BY <1>0, <2>1 DEF BootConfig
  <2>4. action' \in Actions
    BY <1>4, <2>3, WaitIsAction, TimesAssumption DEF StepDelay
  <2> QED BY <1>4, <2>2, <2>4 DEF StepDelay, TypeOK, CadenceBase, CadenceMax
<1>5. ASSUME StepLaunch PROVE TypeOK'
  <2>1. phase.slot \in Slots
    BY <1>5, <1>1 DEF StepLaunch, PhaseTurn
  <2>2. action' \in Actions
    BY <1>5, <2>1, ActsAreActions DEF StepLaunch
  <2>3. phase' \in Phases
    BY <1>5, PhaseFromIsPhase DEF StepLaunch
  <2> QED BY <1>5, <2>2, <2>3 DEF StepLaunch, TypeOK, CadenceBase, CadenceMax
<1>6. ASSUME BeginRound PROVE TypeOK'
  BY <1>6, NSlotsAssumption DEF BeginRound, TypeOK, CadenceBase, CadenceMax
<1>7. ASSUME StepGaveUp PROVE TypeOK'
  <2>1. action' \in Actions
    BY <1>7, WaitIsAction, TimesAssumption DEF StepGaveUp
  <2> QED BY <1>7, <2>1 DEF StepGaveUp, TypeOK, CadenceBase, CadenceMax
<1>8. ASSUME StepDone PROVE TypeOK'
  BY <1>8, ActsAreActions DEF StepDone, TypeOK, CadenceBase, CadenceMax
<1>9. ASSUME NEW i \in Slots, Visit(i) PROVE TypeOK'
  BY <1>9, VisitType, VisitFrame DEF TypeOK, CadenceBase, CadenceMax
<1>10. ASSUME RoundAnswers PROVE TypeOK'
  BY <1>10, <1>2, NSlotsAssumption DEF RoundAnswers, TypeOK, CadenceBase, CadenceMax
<1>11. ASSUME RoundSettles PROVE TypeOK'
  <2>1. At("Done", None) \in Phases
    BY DEF Phases
  <2> QED BY <1>11, <2>1, ActsAreActions, NSlotsAssumption
          DEF RoundSettles, TypeOK, CadenceBase, CadenceMax
<1>12. ASSUME RoundFinishes PROVE TypeOK'
  <2>1. At("Done", None) \in Phases
    BY DEF Phases
  <2> QED BY <1>12, <2>1, ActsAreActions, NSlotsAssumption
          DEF RoundFinishes, TypeOK, CadenceBase, CadenceMax
<1>13. ASSUME RoundWaits PROVE TypeOK'
  <2>1. /\ AfterReset(CadenceBase, CadenceMax) \in Intervals(CadenceBase, CadenceMax)
        /\ AfterTick(pollCurrent, CadenceBase, CadenceMax) \in Intervals(CadenceBase, CadenceMax)
        /\ ResetDelay(CadenceBase, 0) \in Nat
        /\ pollCurrent \in Nat
    <3>1. /\ AfterReset(CadenceBase, CadenceMax) \in Intervals(CadenceBase, CadenceMax)
          /\ AfterTick(pollCurrent, CadenceBase, CadenceMax) \in Intervals(CadenceBase, CadenceMax)
          /\ ResetDelay(CadenceBase, 0) = CadenceBase
      BY <1>0, BackoffStays, CadenceBounds
    <3> QED BY <3>1, <1>0, CadenceBounds DEF Intervals
  <2>2. action' \in Actions
    BY <1>13, <2>1, WaitIsAction DEF RoundWaits
  <2>3. pollCurrent' \in Intervals(CadenceBase, CadenceMax)
    BY <1>13, <2>1 DEF RoundWaits
  <2>4. pollCurrent' \in Intervals(CadenceBase, CadenceMax)'
    BY <1>13, <2>3 DEF RoundWaits, CadenceBase, CadenceMax
  <2>5. cursor' \in 0..(NSlots + 1) /\ resetCadence' \in BOOLEAN
    <3>1. cursor' = 0 /\ resetCadence' = FALSE
      BY <1>13 DEF RoundWaits
    <3>2. cursor' \in 0..(NSlots + 1)
      BY <3>1, NSlotsAssumption
    <3>3. resetCadence' \in BOOLEAN
      BY <3>1, Zenon
    <3> QED BY <3>2, <3>3
  <2> QED BY <1>13, <2>2, <2>4, <2>5 DEF RoundWaits, TypeOK
<1>14. ASSUME NEW ok \in BOOLEAN, NoteLaunch(ok) PROVE TypeOK'
  <2>1. action.slot \in Slots
    BY <1>0, <1>14 DEF NoteLaunch, Actions, Queueable, Act
  <2>2. slot[action.slot] \in SlotType
    BY <1>0, <2>1
  <2>3. SatInc(slot[action.slot].launchTries) \in 0..CountMax
    BY <2>2, SatIncStays DEF SlotType
  <2>4. slot' \in [Slots -> SlotType]
    <3>1. 0 \in -1..LaunchGrace /\ 0 \in 0..DeadStrikes /\ 0 \in 0..CountMax
          /\ {"Launched", "LaunchFailed"} \subseteq States
      BY TimesAssumption, CountsAssumption DEF States
    <3> HIDE DEF SatInc
    <3>2. CASE ok
      <4>1. slot' = [slot EXCEPT ![action.slot] =
                        [@ EXCEPT !.age = 0, !.everAlive = FALSE, !.strikes = 0,
                                  !.launchTries = 0, !.state = "Launched"]]
        BY <1>14, <1>0, <2>1, <2>2, <3>2 DEF NoteLaunch, SlotType
      <4> QED BY <4>1, <1>0, <2>1, <2>2, <3>1 DEF SlotType
    <3>3. CASE ~ok
      <4>1. slot' = [slot EXCEPT ![action.slot] =
                        [@ EXCEPT !.launchTries = SatInc(slot[action.slot].launchTries),
                                  !.state = "LaunchFailed"]]
        BY <1>14, <1>0, <2>1, <2>2, <3>3 DEF NoteLaunch, Failures, SlotType
      <4> QED BY <4>1, <1>0, <2>1, <2>2, <2>3, <3>1 DEF SlotType
    <3> QED BY <3>2, <3>3
  <2>5. phase' \in Phases
    BY <1>14, <1>0, <2>1 DEF NoteLaunch, Failures, Phases
  <2>6. quiet' \in 0..SettleTime
    BY <1>14, TimesAssumption DEF NoteLaunch
  <2> QED BY <1>14, <2>4, <2>5, <2>6, ActsAreActions
          DEF NoteLaunch, TypeOK, CadenceBase, CadenceMax
<1>15. ASSUME PersistDisarm PROVE TypeOK'
  BY <1>15, ActsAreActions DEF PersistDisarm, TypeOK, CadenceBase, CadenceMax
<1>16. ASSUME WriteStatus PROVE TypeOK'
  BY <1>16, ActsAreActions DEF WriteStatus, TypeOK, CadenceBase, CadenceMax
<1>17. ASSUME NEW d \in 0..(MaxWait + Lateness), TimerFires(d) PROVE TypeOK'
  <2>1. d \in Nat
    OBVIOUS
  <2>2. slot' \in [Slots -> SlotType]
    BY <1>17, <1>0, <2>1, ElapseType DEF TimerFires
  <2>3. quiet' \in 0..SettleTime
    <3>1. quiet \in 0..SettleTime /\ quiet' = CapAt(quiet + d, SettleTime)
      BY <1>17 DEF TimerFires, TypeOK
    <3> QED BY <3>1, <2>1, TimesAssumption DEF CapAt
  <2> QED BY <1>17, <2>2, <2>3, ActsAreActions
          DEF TimerFires, TypeOK, CadenceBase, CadenceMax
<1>18. CASE UNCHANGED vars
  BY <1>18 DEF vars, TypeOK, CadenceBase, CadenceMax
<1> QED BY <1>3, <1>4, <1>5, <1>6, <1>7, <1>8, <1>9, <1>10, <1>11, <1>12, <1>13,
           <1>14, <1>15, <1>16, <1>17, <1>18 DEF Next, Step, Caller

\* Every variable of the supervisor keeps its type, whatever the boot list.
THEOREM TypeCorrect == Spec => []TypeOK
<1>1. Init => TypeOK
  BY InitType
<1>2. TypeOK /\ [Next]_vars => TypeOK'
  BY NextType
<1> QED BY <1>1, <1>2, PTL DEF Spec

-----------------------------------------------------------------------------
\* Restart accounting

\* What a rewritten boot.cfg claims of entry i.
Earned(i) ==
    /\ cfg.policy[i].kind = "Times"
    /\ slot[i].restarts = cfg.policy[i].n
    /\ slot[i].terminal

\* Earned in the next state, of an entry named in this one
EarnedAfter(i) ==
    /\ cfg'.policy[i].kind = "Times"
    /\ slot'[i].restarts = cfg'.policy[i].n
    /\ slot'[i].terminal

\* CeilingHolds and DisarmEarned are about what consider_restart decided; to be
\* inductive they need the counters tied together, every entry's own budget, and
\* the Disarm from the moment it is queued until the caller has written it down.
Accounting ==
    /\ \A i \in Slots : slot[i].restarts <= restartsUsed
    /\ \A i \in Slots : cfg.policy[i].kind = "Times" => slot[i].restarts <= cfg.policy[i].n
    /\ CeilingHolds
    /\ \A i \in cfg.enabled \ enabled : Earned(i)
    /\ \A j \in DOMAIN queue : queue[j].kind = "Disarm" => Earned(queue[j].slot)
    /\ action.kind = "Disarm" => Earned(action.slot)

IInv == TypeOK /\ Accounting

\* Steps that spend nothing: counters and write-offs as before, and a Disarm is
\* queued or handed out only if one already was.
SpendsNothing ==
    /\ cfg' = cfg /\ restartsUsed' = restartsUsed
    /\ \A k \in Slots : slot'[k].restarts = slot[k].restarts /\ slot'[k].terminal = slot[k].terminal

LEMMA EarnedStays ==
    ASSUME SpendsNothing, NEW k \in Slots, Earned(k) PROVE EarnedAfter(k)
BY DEF SpendsNothing, Earned, EarnedAfter

LEMMA CountersStay ==
    ASSUME SpendsNothing, Accounting
    PROVE  /\ \A k \in Slots : slot'[k].restarts <= restartsUsed'
           /\ \A k \in Slots : cfg'.policy[k].kind = "Times" => slot'[k].restarts <= cfg'.policy[k].n
           /\ CeilingHolds'
BY DEF SpendsNothing, Accounting, CeilingHolds

LEMMA InitAccounting == Init => Accounting
<1> SUFFICES ASSUME Init PROVE Accounting
  OBVIOUS
<1>1. cfg \in BootConfig /\ \A i \in Slots : slot[i].restarts = 0
  BY ConfigsAssumption DEF Init, NewSlot
<1>2. \A i \in Slots : cfg.policy[i].kind = "Times" => 0 <= cfg.policy[i].n
  BY <1>1, CountsAssumption DEF BootConfig, Policies, Never, Always, Times
<1>3. CeilingHolds
  BY <1>1, CountsAssumption DEF CeilingHolds, BootConfig, Init
<1> QED BY <1>1, <1>2, <1>3 DEF Init, Accounting, Ask, Act

\* A visit answers to the accounts: it leaves them alone, or grants a restart that
\* the entry's budget and the ceiling allow, or disarms an entry that has spent all.
LEMMA VisitAccounting ==
    ASSUME IInv, NEW i \in Slots, Visit(i) PROVE Accounting'
<1>0. /\ TypeOK /\ Accounting /\ cfg \in BootConfig
      /\ slot \in [Slots -> SlotType] /\ slot[i] \in SlotType /\ queue \in Seq(Queueable)
      /\ restartsUsed \in 0..CountMax /\ cfg.maxRestarts \in 0..CountMax
  BY ConfigsAssumption DEF IInv, TypeOK, BootConfig
<1>1. cfg' = cfg /\ enabled' = enabled /\ action' = action
  BY <1>0, VisitFrame
<1>2. \A k \in Slots : k # i => slot'[k] = slot[k]
  BY <1>0 DEF Visit, PassOver, SeenAlive, NeverUpSpent, NeverUpHeld, NeverUpRetry,
     Strike, OutOfBudget, CeilingReached, Defer, GrantRestart
<1>3. slot[i].terminal => slot' = slot
  BY DEF Visit, PassOver, SeenAlive, NeverUpSpent, NeverUpHeld, NeverUpRetry,
     Strike, OutOfBudget, CeilingReached, Defer, GrantRestart, ConfirmedDead, Missing
<1>4. \A k \in Slots : Earned(k) => EarnedAfter(k)
  BY <1>1, <1>2, <1>3 DEF Earned, EarnedAfter
<1>5. \/ slot'[i].restarts = slot[i].restarts /\ restartsUsed' = restartsUsed
      \/ /\ slot'[i].restarts = SatInc(slot[i].restarts)
         /\ restartsUsed' = SatInc(restartsUsed)
         /\ WithinBudget(cfg.policy[i], slot[i].restarts)
         /\ ~CeilingApplies(i)
  <2>1. CASE GrantRestart(i)
    BY <2>1, <1>0 DEF GrantRestart, SlotType
  <2>2. CASE ~GrantRestart(i)
    <3>1. restartsUsed' = restartsUsed
      BY <2>2 DEF Visit, PassOver, SeenAlive, NeverUpSpent, NeverUpHeld, NeverUpRetry,
         Strike, OutOfBudget, CeilingReached, Defer, NothingHappened
    <3>2. slot'[i].restarts = slot[i].restarts
      BY <2>2, <1>0 DEF Visit, PassOver, SeenAlive, NeverUpSpent, NeverUpHeld, NeverUpRetry,
         Strike, OutOfBudget, CeilingReached, Defer, SlotType
    <3> QED BY <3>1, <3>2
  <2> QED BY <2>1, <2>2
<1>6. ASSUME NEW k \in Slots
      PROVE  /\ slot[k].restarts \in 0..CountMax
             /\ slot[k].restarts <= restartsUsed
             /\ cfg.policy[k] \in Policies
             /\ cfg.policy[k].kind = "Times" =>
                   slot[k].restarts <= cfg.policy[k].n /\ cfg.policy[k].n \in 0..CountMax
  <2>1. slot[k] \in SlotType /\ cfg.policy[k] \in Policies
    BY <1>0 DEF BootConfig
  <2>2. cfg.policy[k].kind = "Times" => cfg.policy[k].n \in 0..CountMax
    BY <2>1 DEF Policies, Times, Never, Always
  <2> QED BY <1>0, <2>1, <2>2 DEF Accounting, SlotType
<1>7. /\ SatInc(restartsUsed) \in 0..CountMax /\ restartsUsed <= SatInc(restartsUsed)
      /\ slot[i].restarts < CountMax => SatInc(slot[i].restarts) = slot[i].restarts + 1
      /\ restartsUsed < CountMax => SatInc(restartsUsed) = restartsUsed + 1
      /\ slot[i].restarts <= SatInc(slot[i].restarts)
      /\ SatInc(slot[i].restarts) <= slot[i].restarts + 1
      /\ SatInc(slot[i].restarts) <= SatInc(restartsUsed)
  BY <1>0, <1>6, CountsAssumption DEF SatInc
<1>8. \A k \in Slots : slot'[k].restarts <= restartsUsed'
  BY <1>2, <1>5, <1>6, <1>7, <1>0, CountsAssumption
<1>9. ASSUME NEW k \in Slots, cfg'.policy[k].kind = "Times"
      PROVE  slot'[k].restarts <= cfg'.policy[k].n
  <2>1. CASE k = i
    <3>1. slot[i].restarts <= cfg.policy[i].n /\ cfg.policy[i].n \in 0..CountMax
      BY <1>1, <1>6, <1>9, <2>1
    <3>2. WithinBudget(cfg.policy[i], slot[i].restarts) =>
             SatInc(slot[i].restarts) <= cfg.policy[i].n
      BY <1>1, <1>6, <1>7, <1>9, <2>1, <3>1, CountsAssumption DEF WithinBudget
    <3> QED BY <1>1, <1>5, <2>1, <3>1, <3>2
  <2>2. CASE k # i
    BY <1>1, <1>2, <1>6, <1>9, <2>2
  <2> QED BY <2>1, <2>2
<1>10. CeilingHolds'
  <2>1. \A k \in Slots \ cfg.critical : slot[k].restarts <= cfg.maxRestarts
    BY <1>0 DEF Accounting, CeilingHolds
  <2>2. cfg.critical = {} => restartsUsed <= cfg.maxRestarts
    BY <1>0 DEF Accounting, CeilingHolds
  <2>3. \A k \in Slots \ cfg.critical : slot'[k].restarts <= cfg.maxRestarts
    <3> SUFFICES ASSUME NEW k \in Slots \ cfg.critical
                 PROVE  slot'[k].restarts <= cfg.maxRestarts
      OBVIOUS
    <3>1. CASE k = i
      <4>1. slot[i].restarts <= cfg.maxRestarts
        BY <2>1, <3>1
      <4>2. ~CeilingApplies(i) => restartsUsed < cfg.maxRestarts
        BY <3>1, <1>0 DEF CeilingApplies, Critical
      <4>3. restartsUsed < cfg.maxRestarts => SatInc(slot[i].restarts) <= cfg.maxRestarts
        BY <1>0, <1>6, <1>7, CountsAssumption
      <4> QED BY <3>1, <1>5, <4>1, <4>2, <4>3
    <3>2. CASE k # i
      BY <3>2, <2>1, <1>2
    <3> QED BY <3>1, <3>2
  <2>4. cfg.critical = {} => restartsUsed' <= cfg.maxRestarts
    BY <2>2, <1>0, <1>5, <1>7, SatIncStays DEF CeilingApplies, Critical
  <2> QED BY <2>3, <2>4, <1>1 DEF CeilingHolds
<1>11. \A j \in DOMAIN queue' : queue'[j].kind = "Disarm" => EarnedAfter(queue'[j].slot)
  <2>1. \A j \in DOMAIN queue : queue[j].kind = "Disarm" => Earned(queue[j].slot)
    BY <1>0 DEF Accounting
  <2>2. \A j \in DOMAIN queue : queue[j].kind = "Disarm" => queue[j].slot \in Slots
    BY <1>0 DEF Queueable, Act
  <2>3. \A j \in DOMAIN queue : queue[j].kind = "Disarm" => EarnedAfter(queue[j].slot)
    BY <2>1, <2>2, <1>4
  <2>4. \/ queue' = queue
        \/ \E q \in {Act("Restart", i), Act("GaveUp", None)} : queue' = Append(queue, q)
        \/ /\ OutOfBudget(i) /\ cfg.policy[i] # Never
           /\ queue' = Append(queue, Act("Disarm", i))
    BY DEF Visit, PassOver, SeenAlive, NeverUpSpent, NeverUpHeld, NeverUpRetry,
       Strike, OutOfBudget, CeilingReached, Defer, GrantRestart, NothingHappened
  <2>5. ASSUME OutOfBudget(i), cfg.policy[i] # Never PROVE EarnedAfter(i)
    <3>1. cfg.policy[i].kind = "Times" /\ slot[i].restarts = cfg.policy[i].n
      BY <2>5, <1>0, <1>6 DEF OutOfBudget, WithinBudget, BootConfig, Policies, Times,
         Never, Always
    <3>2. slot'[i].restarts = slot[i].restarts /\ slot'[i].terminal = TRUE
      BY <2>5, <1>0 DEF OutOfBudget, SlotType
    <3> QED BY <3>1, <3>2, <1>1 DEF EarnedAfter
  <2>6. ASSUME NEW q \in Queueable, queue' = Append(queue, q), q.kind = "Disarm" => EarnedAfter(q.slot)
        PROVE  \A j \in DOMAIN queue' : queue'[j].kind = "Disarm" => EarnedAfter(queue'[j].slot)
    <3>1. \A j \in DOMAIN queue' : (j \in DOMAIN queue /\ queue'[j] = queue[j]) \/ queue'[j] = q
      BY <2>6, <1>0
    <3> QED BY <3>1, <2>3, <2>6
  <2>7. CASE queue' = queue
    BY <2>7, <2>3
  <2>8. CASE \E q \in {Act("Restart", i), Act("GaveUp", None)} : queue' = Append(queue, q)
    <3>1. Act("Restart", i).kind # "Disarm" /\ Act("GaveUp", None).kind # "Disarm"
      BY DEF Act
    <3> QED BY <3>1, <2>8, <2>6, ActsAreActions
  <2>9. CASE /\ OutOfBudget(i) /\ cfg.policy[i] # Never
             /\ queue' = Append(queue, Act("Disarm", i))
    <3>1. Act("Disarm", i).slot = i
      BY DEF Act
    <3> QED BY <3>1, <2>9, <2>5, <2>6, ActsAreActions
  <2> QED BY <2>4, <2>7, <2>8, <2>9
<1>12. \A k \in cfg'.enabled \ enabled' : EarnedAfter(k)
  BY <1>0, <1>1, <1>4 DEF Accounting, BootConfig
<1>13. action'.kind = "Disarm" => EarnedAfter(action'.slot)
  <2>1. action.kind = "Disarm" => Earned(action.slot) /\ action.slot \in Slots
    BY <1>0 DEF Accounting, TypeOK, Actions, Queueable, Act
  <2> QED BY <2>1, <1>1, <1>4
<1> QED BY <1>8, <1>9, <1>10, <1>11, <1>12, <1>13 DEF Accounting, Earned, EarnedAfter

\* Every other step moves a Disarm along, from the queue to the caller and from the
\* caller to the disk, and touches no counter.
LEMMA OtherAccounting ==
    ASSUME IInv, SpendsNothing,
           \A j \in DOMAIN queue' : \E k \in DOMAIN queue : queue'[j] = queue[k],
           \/ action' = action
           \/ action'.kind # "Disarm"
           \/ \E k \in DOMAIN queue : action' = queue[k],
           enabled \ enabled' \subseteq {k \in Slots : action.kind = "Disarm" /\ k = action.slot}
    PROVE  Accounting'
<1>0. /\ Accounting /\ queue \in Seq(Queueable) /\ action \in Actions /\ cfg \in BootConfig
      /\ enabled \subseteq cfg.enabled /\ cfg' = cfg
  BY ConfigsAssumption DEF IInv, TypeOK, SpendsNothing
<1>1. \A k \in Slots : Earned(k) => EarnedAfter(k)
  BY EarnedStays
<1>2. \A k \in DOMAIN queue : queue[k].kind = "Disarm" => EarnedAfter(queue[k].slot)
  <2>1. \A k \in DOMAIN queue : queue[k].kind = "Disarm" => queue[k].slot \in Slots
    BY <1>0 DEF Queueable, Act
  <2> QED BY <2>1, <1>0, <1>1 DEF Accounting
<1>3. action.kind = "Disarm" => action.slot \in Slots /\ EarnedAfter(action.slot)
  <2>1. action.kind = "Disarm" => action.slot \in Slots
    BY <1>0 DEF Actions, Queueable, Act
  <2> QED BY <2>1, <1>0, <1>1 DEF Accounting
<1>4. \A j \in DOMAIN queue' : queue'[j].kind = "Disarm" => EarnedAfter(queue'[j].slot)
  BY <1>2
<1>5. action'.kind = "Disarm" => EarnedAfter(action'.slot)
  BY <1>2, <1>3
<1>6. \A k \in cfg'.enabled \ enabled' : EarnedAfter(k)
  <2> SUFFICES ASSUME NEW k \in cfg.enabled \ enabled' PROVE EarnedAfter(k)
    BY <1>0
  <2>1. k \in Slots
    BY <1>0 DEF BootConfig
  <2>2. CASE k \in enabled
    BY <2>1, <2>2, <1>3
  <2>3. CASE k \notin enabled
    BY <2>1, <2>3, <1>0, <1>1 DEF Accounting
  <2> QED BY <2>2, <2>3
<1> QED BY <1>0, <1>4, <1>5, <1>6, CountersStay DEF Accounting, Earned, EarnedAfter

LEMMA NextAccounting == IInv /\ [Next]_vars => Accounting'
<1> SUFFICES ASSUME IInv, [Next]_vars PROVE Accounting'
  OBVIOUS
<1>0. /\ slot \in [Slots -> SlotType] /\ queue \in Seq(Queueable) /\ action \in Actions
  BY DEF IInv, TypeOK
<1>1. ASSUME NEW i \in Slots, Visit(i) PROVE Accounting'
  BY <1>1, VisitAccounting
<1>2. queue # <<>> => /\ \E k \in DOMAIN queue : Head(queue) = queue[k]
                      /\ \A j \in DOMAIN Tail(queue) :
                            \E k \in DOMAIN queue : Tail(queue)[j] = queue[k]
  <2> SUFFICES ASSUME queue # <<>>
               PROVE  /\ 1 \in DOMAIN queue /\ Head(queue) = queue[1]
                      /\ \A j \in DOMAIN Tail(queue) :
                            j + 1 \in DOMAIN queue /\ Tail(queue)[j] = queue[j + 1]
    OBVIOUS
  <2> QED BY <1>0
<1>3. CASE PopQueue \/ RoundAnswers
  <2>1. SpendsNothing /\ enabled' = enabled /\ action' = Head(queue) /\ queue' = Tail(queue)
        /\ queue # <<>>
    BY <1>3 DEF PopQueue, RoundAnswers, SpendsNothing
  <2> QED BY <2>1, <1>2, OtherAccounting
<1>4. CASE \/ StepDelay \/ StepLaunch \/ BeginRound \/ StepGaveUp \/ StepDone
           \/ RoundSettles \/ RoundFinishes \/ RoundWaits \/ WriteStatus \/ PersistDisarm
  <2>1. SpendsNothing /\ queue' = queue
    BY <1>4 DEF StepDelay, StepLaunch, BeginRound, StepGaveUp, StepDone, RoundSettles,
       RoundFinishes, RoundWaits, WriteStatus, PersistDisarm, SpendsNothing
  <2>2. action' = action \/ action'.kind # "Disarm"
    BY <1>4 DEF StepDelay, StepLaunch, BeginRound, StepGaveUp, StepDone, RoundSettles,
       RoundFinishes, RoundWaits, WriteStatus, PersistDisarm, Act, Ask, Wait
  <2>3. enabled \ enabled' \subseteq {k \in Slots : action.kind = "Disarm" /\ k = action.slot}
    <3>1. action.kind = "Disarm" => action.slot \in Slots
      BY <1>0 DEF Actions, Queueable, Act
    <3>2. \/ enabled' = enabled
          \/ action.kind = "Disarm" /\ enabled' = enabled \ {action.slot}
      BY <1>4 DEF StepDelay, StepLaunch, BeginRound, StepGaveUp, StepDone, RoundSettles,
         RoundFinishes, RoundWaits, WriteStatus, PersistDisarm
    <3> QED BY <3>1, <3>2
  <2> QED BY <2>1, <2>2, <2>3, OtherAccounting
<1>5. ASSUME NEW ok \in BOOLEAN, NoteLaunch(ok) PROVE Accounting'
  <2>1. action.slot \in Slots /\ slot[action.slot] \in SlotType
    BY <1>0, <1>5 DEF NoteLaunch, Actions, Queueable, Act
  <2>2. \A k \in Slots : slot'[k].restarts = slot[k].restarts /\ slot'[k].terminal = slot[k].terminal
    <3>1. CASE ok
      <4>1. slot' = [slot EXCEPT ![action.slot] =
                        [@ EXCEPT !.age = 0, !.everAlive = FALSE, !.strikes = 0,
                                  !.launchTries = 0, !.state = "Launched"]]
        BY <1>5, <1>0, <2>1, <3>1 DEF NoteLaunch, SlotType
      <4> QED BY <4>1, <1>0, <2>1 DEF SlotType
    <3>2. CASE ~ok
      <4>1. slot' = [slot EXCEPT ![action.slot] =
                        [@ EXCEPT !.launchTries = SatInc(slot[action.slot].launchTries),
                                  !.state = "LaunchFailed"]]
        BY <1>5, <1>0, <2>1, <3>2 DEF NoteLaunch, Failures, SlotType
      <4> QED BY <4>1, <1>0, <2>1 DEF SlotType
    <3> QED BY <3>1, <3>2
  <2>3. SpendsNothing /\ queue' = queue /\ enabled' = enabled /\ action' = Ask
    BY <1>5, <2>2 DEF NoteLaunch, SpendsNothing
  <2>4. Ask.kind # "Disarm"
    BY DEF Ask, Act
  <2> QED BY <2>3, <2>4, OtherAccounting
<1>6. ASSUME NEW d \in 0..(MaxWait + Lateness), TimerFires(d) PROVE Accounting'
  <2>1. \A k \in Slots : slot'[k].restarts = slot[k].restarts /\ slot'[k].terminal = slot[k].terminal
    <3> SUFFICES ASSUME NEW k \in Slots
                 PROVE  slot'[k].restarts = slot[k].restarts /\ slot'[k].terminal = slot[k].terminal
      OBVIOUS
    <3>1. slot'[k] = Elapse(slot[k], d) /\ slot[k] \in SlotType
      BY <1>6, <1>0 DEF TimerFires
    <3> QED BY <3>1 DEF Elapse, SlotType
  <2>2. SpendsNothing /\ queue' = queue /\ enabled' = enabled /\ action' = Ask
    BY <1>6, <2>1 DEF TimerFires, SpendsNothing
  <2>3. Ask.kind # "Disarm"
    BY DEF Ask, Act
  <2> QED BY <2>2, <2>3, OtherAccounting
<1>7. CASE UNCHANGED vars
  <2>1. SpendsNothing /\ queue' = queue /\ enabled' = enabled /\ action' = action
    BY <1>7 DEF vars, SpendsNothing
  <2> QED BY <2>1, OtherAccounting
<1> QED BY <1>1, <1>3, <1>4, <1>5, <1>6, <1>7 DEF Next, Step, Caller

LEMMA InvariantHolds == Spec => []IInv
<1>1. Init => IInv
  BY InitType, InitAccounting DEF IInv
<1>2. IInv /\ [Next]_vars => IInv'
  BY NextType, NextAccounting DEF IInv
<1> QED BY <1>1, <1>2, PTL DEF Spec

\* No ordinary entry is restarted for dying beyond the global ceiling, whatever is
\* in the boot list beside it and however launches fail or installs interfere.
THEOREM CeilingIsKept == Spec => []CeilingHolds
<1>1. IInv => CeilingHolds
  BY DEF IInv, Accounting
<1> QED BY <1>1, InvariantHolds, PTL

\* boot.cfg loses an enabled entry only to a restart budget of its own that this
\* boot has spent to the last restart.
THEOREM DisarmIsEarned == Spec => []DisarmEarned
<1>1. IInv => DisarmEarned
  BY DEF IInv, Accounting, Earned, DisarmEarned
<1> QED BY <1>1, InvariantHolds, PTL

===============================================================================
