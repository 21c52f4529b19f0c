------------------------- MODULE SupervisorRoundProofs -------------------------
(***************************************************************************)
(* What the boot supervisor orders, and when it may say Settled and Done,  *)
(* for every boot list, every budget and every choice of the times.        *)
(*                                                                         *)
(* The argument.  A round runs inside one call of step() and starts from   *)
(* an empty queue (Rounds), so while it runs the queue concerns slots it   *)
(* has left behind (Ordered).  A slot with a confirmed death keeps the     *)
(* boot from being quiet each time it is visited (Struck, Counted).  Every *)
(* slot is launched or given up on before the sequence leaves it behind    *)
(* for good (Sequenced), and nothing follows the end (Over).  Between two  *)
(* restarts of an entry, the time since the first one and the hold that is *)
(* left always make up what is due (Spaced).                               *)
(***************************************************************************)
EXTENDS SupervisorProofs, SupervisorHistory

Launching == action.kind \in {"Launch", "Restart"}
Tried(i) == slot[i].age # NotLaunched \/ slot[i].launchTries >= LaunchTries
AllTried == \A i \in Slots : Supervised(i) => Tried(i)
OnDeathRow(i) == Probes(i) /\ ~slot[i].terminal /\ slot[i].strikes >= DeadStrikes

Rounds ==
    cursor # 0 => action.kind = "Ask" /\ phase.at \in {"Supervise", "GaveUp"}
Ordered ==
    cursor # 0 => \A j \in DOMAIN queue : queue[j].slot < cursor
Struck ==
    \A i \in Slots : slot[i].strikes > 0 => slot[i].everAlive /\ slot[i].age >= LaunchGrace
Counted ==
    cursor # 0 => \A i \in Slots : i < cursor /\ OnDeathRow(i) => quiet = 0
Sequenced ==
    \/ AllTried
    \/ /\ queue = <<>> /\ cursor = 0
       /\ Launching /\ Sequencing => action.slot < phase.slot
       /\ \A i \in Slots : Supervised(i) =>
             \/ Tried(i)
             \/ Sequencing /\ i >= phase.slot
             \/ Launching /\ action.slot = i
Over ==
    phase.at = "Done" => /\ ~HasFutureWork
                         /\ queue = <<>>
                         /\ action.kind \in {"Settled", "Done", "Ask"}

RoundInv == TypeOK /\ Rounds /\ Ordered /\ QueueSound
QuietInv == Struck /\ Counted /\ SettledIsStable
EndInv == Sequenced /\ Over /\ DoneIsFinal

-----------------------------------------------------------------------------
\* What the steps do

\* A visit is to one slot, and to nothing of the others.
LEMMA VisitDoes ==
    ASSUME TypeOK, NEW i \in Slots, Visit(i)
    PROVE  /\ cursor = i /\ cursor' = cursor + 1
           /\ cfg' = cfg /\ action' = action /\ updating' = updating /\ alive' = alive
           /\ \A k \in Slots : k # i => slot'[k] = slot[k]
           /\ phase' = phase \/ phase' = At("GaveUp", None)
           /\ quiet' = quiet \/ quiet' = 0
           /\ ~Probes(i) \/ slot[i].terminal => slot' = slot /\ queue' = queue
<1>1. cursor = i
  BY DEF Visit, PassOver, SeenAlive, NeverUpSpent, NeverUpHeld, NeverUpRetry, Strike,
     OutOfBudget, CeilingReached, Defer, GrantRestart, ConfirmedDead, Missing, Visiting
<1>2. /\ cursor' = cursor + 1
      /\ cfg' = cfg /\ action' = action /\ updating' = updating /\ alive' = alive
  BY DEF Visit, PassOver, SeenAlive, NeverUpSpent, NeverUpHeld, NeverUpRetry, Strike,
     OutOfBudget, CeilingReached, Defer, GrantRestart, NextSlot, NothingHappened,
     SomethingHappened, RoundFrame
<1>3. \A k \in Slots : k # i => slot'[k] = slot[k]
  BY DEF TypeOK, Visit, PassOver, SeenAlive, NeverUpSpent, NeverUpHeld, NeverUpRetry, Strike,
     OutOfBudget, CeilingReached, Defer, GrantRestart
<1>4. phase' = phase \/ phase' = At("GaveUp", None)
  BY DEF Visit, PassOver, SeenAlive, NeverUpSpent, NeverUpHeld, NeverUpRetry, Strike,
     OutOfBudget, CeilingReached, Defer, GrantRestart, NothingHappened
<1>5. quiet' = quiet \/ quiet' = 0
  BY DEF Visit, PassOver, SeenAlive, NeverUpSpent, NeverUpHeld, NeverUpRetry, Strike,
     OutOfBudget, CeilingReached, Defer, GrantRestart, NothingHappened, SomethingHappened
<1>6. ~Probes(i) \/ slot[i].terminal => slot' = slot /\ queue' = queue
  BY DEF Visit, PassOver, SeenAlive, NeverUpSpent, NeverUpHeld, NeverUpRetry, Strike,
     OutOfBudget, CeilingReached, Defer, GrantRestart, ConfirmedDead, Missing, NothingHappened
<1> QED BY <1>1, <1>2, <1>3, <1>4, <1>5, <1>6

\* It orders one thing at most, and a restart only of the slot it is at, which stays
\* open.
LEMMA VisitOrders ==
    ASSUME TypeOK, NEW i \in Slots, Visit(i)
    PROVE  \/ queue' = queue
           \/ queue' = Append(queue, Act("Restart", i)) /\ ~slot[i].terminal /\ ~slot'[i].terminal
           \/ queue' = Append(queue, Act("Disarm", i)) /\ ~slot[i].terminal
           \/ queue' = Append(queue, Act("GaveUp", None)) /\ ~slot[i].terminal
<1>1. slot \in [Slots -> SlotType] /\ slot[i] \in SlotType
  BY DEF TypeOK
<1>2. CASE NeverUpRetry(i)
  BY <1>1, <1>2 DEF NeverUpRetry, Missing, SlotType
<1>3. CASE GrantRestart(i)
  BY <1>1, <1>3 DEF GrantRestart, ConfirmedDead, Missing, SlotType
<1>4. CASE ~NeverUpRetry(i) /\ ~GrantRestart(i)
  BY <1>4 DEF Visit, PassOver, SeenAlive, NeverUpSpent, NeverUpHeld, Strike,
     OutOfBudget, CeilingReached, Defer, ConfirmedDead, Missing, NothingHappened
<1> QED BY <1>2, <1>3, <1>4

\* What it does to the slot itself.
LEMMA VisitRecords ==
    ASSUME TypeOK, NEW i \in Slots, Visit(i)
    PROVE  /\ slot'[i].supervised = slot[i].supervised
           /\ slot'[i].launchTries = slot[i].launchTries
           /\ slot[i].terminal => slot'[i].terminal
           /\ slot'[i].everAlive = slot[i].everAlive \/ slot'[i].everAlive
           /\ \/ slot'[i].age = slot[i].age
              \/ slot'[i].age = 0 /\ slot[i].age # NotLaunched /\ ~slot[i].everAlive
           /\ \/ slot'[i].strikes = slot[i].strikes
              \/ slot'[i].strikes = 0
              \/ slot[i].everAlive /\ slot[i].age >= LaunchGrace
           /\ \/ slot'[i].strikes = slot[i].strikes /\ ~(slot[i].everAlive /\ slot[i].age >= LaunchGrace)
              \/ slot'[i].strikes < DeadStrikes
              \/ slot'[i].terminal
              \/ ~Probes(i)
              \/ quiet' = 0
<1>1. slot \in [Slots -> SlotType] /\ slot[i] \in SlotType
  BY DEF TypeOK
<1>2. /\ DeadStrikes \in Nat \ {0} /\ slot[i].strikes \in 0..DeadStrikes
      /\ slot[i].age \in -1..LaunchGrace /\ LaunchGrace \in Nat
  BY <1>1, CountsAssumption, TimesAssumption DEF SlotType
<1> HIDE DEF SatInc, AfterTick
<1>3. CASE PassOver(i)
  BY <1>1, <1>2, <1>3 DEF PassOver
<1>4. CASE SeenAlive(i)
  BY <1>1, <1>2, <1>4 DEF SeenAlive, SlotType
<1>5. CASE NeverUpSpent(i)
  BY <1>1, <1>2, <1>5 DEF NeverUpSpent, SlotType
<1>6. CASE NeverUpHeld(i)
  BY <1>1, <1>2, <1>6 DEF NeverUpHeld
<1>7. CASE NeverUpRetry(i)
  BY <1>1, <1>2, <1>7 DEF NeverUpRetry, SomethingHappened, Missing, Probes, SlotType
<1>8. CASE Strike(i)
  BY <1>1, <1>2, <1>8 DEF Strike, Missing, SlotType
<1>9. CASE OutOfBudget(i)
  BY <1>1, <1>2, <1>9 DEF OutOfBudget, SomethingHappened, ConfirmedDead, Missing, SlotType
<1>10. CASE CeilingReached(i)
  BY <1>1, <1>2, <1>10 DEF CeilingReached, SomethingHappened, ConfirmedDead, Missing, SlotType
<1>11. CASE Defer(i)
  BY <1>1, <1>2, <1>11 DEF Defer, SomethingHappened, ConfirmedDead, Missing, SlotType
<1>12. CASE GrantRestart(i)
  BY <1>1, <1>2, <1>12 DEF GrantRestart, SlotType
<1> QED BY <1>3, <1>4, <1>5, <1>6, <1>7, <1>8, <1>9, <1>10, <1>11, <1>12 DEF Visit

\* A launch is noted in the slot that was launched and nowhere else.
LEMMA NoteDoes ==
    ASSUME TypeOK, NEW ok \in BOOLEAN, NoteLaunch(ok)
    PROVE  /\ action.slot \in Slots
           /\ \A k \in Slots : k # action.slot => slot'[k] = slot[k]
           /\ LET s == slot[action.slot]
                  t == slot'[action.slot]
              IN  /\ t.supervised = s.supervised /\ t.terminal = s.terminal
                  /\ t.restarts = s.restarts /\ t.neverUpTries = s.neverUpTries
                  /\ ok => t.age = 0 /\ t.strikes = 0 /\ t.launchTries = 0
                  /\ ~ok => /\ t.age = s.age /\ t.strikes = s.strikes
                            /\ t.everAlive = s.everAlive
                            /\ t.launchTries = SatInc(s.launchTries)
<1>1. slot \in [Slots -> SlotType] /\ action \in Actions
  BY DEF TypeOK
<1>2. action.slot \in Slots
  BY <1>1 DEF NoteLaunch, Actions, Queueable, Act
<1>3. slot[action.slot] \in SlotType
  BY <1>1, <1>2
<1> HIDE DEF SatInc
<1>4. CASE ok
  <2>1. slot' = [slot EXCEPT ![action.slot] =
                    [@ EXCEPT !.age = 0, !.everAlive = FALSE, !.strikes = 0,
                              !.launchTries = 0, !.state = "Launched"]]
    BY <1>1, <1>2, <1>3, <1>4 DEF NoteLaunch, SlotType
  <2> QED BY <2>1, <1>1, <1>2, <1>3, <1>4 DEF SlotType
<1>5. CASE ~ok
  <2>1. slot' = [slot EXCEPT ![action.slot] =
                    [@ EXCEPT !.launchTries = SatInc(slot[action.slot].launchTries),
                              !.state = "LaunchFailed"]]
    BY <1>1, <1>2, <1>3, <1>5 DEF NoteLaunch, Failures, SlotType
  <2> QED BY <2>1, <1>1, <1>2, <1>3, <1>5 DEF SlotType
<1> QED BY <1>2, <1>4, <1>5

\* Time makes a slot older and brings its next restart nearer, and that is all.
LEMMA TimeDoes ==
    ASSUME TypeOK, NEW d \in 0..(MaxWait + Lateness), TimerFires(d), NEW k \in Slots
    PROVE  /\ slot'[k].supervised = slot[k].supervised /\ slot'[k].terminal = slot[k].terminal
           /\ slot'[k].restarts = slot[k].restarts
           /\ slot'[k].neverUpTries = slot[k].neverUpTries
           /\ slot'[k].strikes = slot[k].strikes /\ slot'[k].everAlive = slot[k].everAlive
           /\ slot'[k].launchTries = slot[k].launchTries
           /\ slot'[k].age >= slot[k].age
           /\ slot[k].age = NotLaunched => slot'[k].age = NotLaunched
<1>1. slot'[k] = Elapse(slot[k], d) /\ slot[k] \in SlotType
  BY DEF TimerFires, TypeOK
<1>2. d \in Nat /\ LaunchGrace \in Nat
  BY TimesAssumption
<1> QED BY <1>1, <1>2 DEF Elapse, CapAt, NotLaunched, SlotType

\* What is at the head of the queue goes, and the rest moves up.
LEMMA HeadGoes ==
    ASSUME TypeOK, queue # <<>>
    PROVE  /\ 1 \in DOMAIN queue /\ Head(queue) = queue[1]
           /\ \A j \in DOMAIN Tail(queue) : j + 1 \in DOMAIN queue /\ Tail(queue)[j] = queue[j + 1]
           /\ Len(Tail(queue)) < Len(queue)
           /\ Head(queue) \in Queueable
<1>1. queue \in Seq(Queueable)
  BY DEF TypeOK
<1> QED BY <1>1

-----------------------------------------------------------------------------
\* The queue

\* The queue stays sound where nothing is added and no slot is written off.
LEMMA QueueShrinks ==
    ASSUME TypeOK, QueueSound,
           queue' = queue \/ (queue # <<>> /\ queue' = Tail(queue)),
           \A k \in Slots : slot'[k].terminal = slot[k].terminal,
           action'.kind = "Wait" => queue' = <<>>
    PROVE  QueueSound'
<1>1. queue \in Seq(Queueable)
  BY DEF TypeOK
<1>2. \A j \in DOMAIN queue : queue[j].kind = "Restart" =>
          queue[j].slot \in Slots /\ ~slot[queue[j].slot].terminal
  BY <1>1 DEF QueueSound, Queueable, Act
<1>3. CASE queue' = queue
  BY <1>2, <1>3 DEF QueueSound
<1>4. CASE queue # <<>> /\ queue' = Tail(queue)
  <2>1. \A j \in DOMAIN queue' : j + 1 \in DOMAIN queue /\ queue'[j] = queue[j + 1]
    BY <1>4, HeadGoes
  <2>2. \A j \in DOMAIN queue' : j \in Nat
    BY <1>1, <1>4
  <2>3. \A j, k \in DOMAIN queue' :
            j # k /\ queue'[j].slot # None => queue'[j].slot # queue'[k].slot
    <3> SUFFICES ASSUME NEW j \in DOMAIN queue', NEW k \in DOMAIN queue', j # k,
                        queue'[j].slot # None
                 PROVE  queue'[j].slot # queue'[k].slot
      OBVIOUS
    <3>1. j + 1 # k + 1
      BY <2>2
    <3> QED BY <2>1, <3>1 DEF QueueSound
  <2>4. \A j \in DOMAIN queue' : queue'[j].kind = "Restart" => ~slot'[queue'[j].slot].terminal
    BY <2>1, <1>2
  <2> QED BY <2>3, <2>4 DEF QueueSound
<1> QED BY <1>3, <1>4

\* A visit adds to a queue that concerns other slots.
LEMMA VisitKeepsQueue ==
    ASSUME RoundInv, NEW i \in Slots, Visit(i)
    PROVE  Ordered' /\ QueueSound'
<1>1. /\ TypeOK /\ queue \in Seq(Queueable) /\ i \in Nat \ {0} /\ cursor = i /\ cursor' = i + 1
      /\ action' = action /\ action.kind = "Ask"
      /\ \A j \in DOMAIN queue : queue[j].slot < i
  <2>1. TypeOK /\ Rounds /\ Ordered /\ i \in Nat \ {0} /\ queue \in Seq(Queueable)
    BY DEF RoundInv, TypeOK, Slots
  <2>2. cursor = i /\ cursor' = cursor + 1 /\ action' = action
    BY <2>1, VisitDoes
  <2> QED BY <2>1, <2>2 DEF Rounds, Ordered
<1>2. /\ \A j \in DOMAIN queue : queue[j].slot \in Nat
      /\ \A j \in DOMAIN queue : queue[j].kind = "Restart" =>
            queue[j].slot \in Slots /\ ~slot'[queue[j].slot].terminal
  <2>1. \A j \in DOMAIN queue : queue[j] \in Queueable
    BY <1>1
  <2>2. \A q \in Queueable : q.slot \in Slots \cup {None} /\ (q.kind = "Restart" => q.slot \in Slots)
    BY DEF Queueable, Act
  <2>3. \A k \in Slots : k # i => slot'[k] = slot[k]
    BY <1>1, VisitDoes
  <2>4. \A j \in DOMAIN queue : queue[j].kind = "Restart" =>
            queue[j].slot \in Slots /\ queue[j].slot # i /\ ~slot[queue[j].slot].terminal
    BY <1>1, <2>1, <2>2 DEF RoundInv, QueueSound
  <2>5. \A j \in DOMAIN queue : queue[j].slot \in Slots \cup {None}
    BY <2>1, <2>2
  <2> QED BY <2>3, <2>4, <2>5 DEF Slots, None
<1>3. \A j, k \in DOMAIN queue : j # k /\ queue[j].slot # None => queue[j].slot # queue[k].slot
  BY DEF RoundInv, QueueSound
<1>4. CASE queue' = queue
  BY <1>1, <1>2, <1>3, <1>4 DEF Ordered, QueueSound
<1>5. ASSUME NEW q \in Queueable, queue' = Append(queue, q), q.slot \in {i, None},
             q.kind = "Restart" => q.slot = i /\ ~slot'[i].terminal
      PROVE  Ordered' /\ QueueSound'
  <2>1. \A j \in DOMAIN queue' : \/ j \in DOMAIN queue /\ queue'[j] = queue[j]
                                 \/ j = Len(queue) + 1 /\ queue'[j] = q
    BY <1>1, <1>5
  <2>2. \A j \in DOMAIN queue' : queue'[j].slot < i + 1
    BY <1>1, <1>2, <1>5, <2>1 DEF None
  <2>3. \A j, k \in DOMAIN queue' :
            j # k /\ queue'[j].slot # None => queue'[j].slot # queue'[k].slot
    <3> SUFFICES ASSUME NEW j \in DOMAIN queue', NEW k \in DOMAIN queue', j # k,
                        queue'[j].slot # None
                 PROVE  queue'[j].slot # queue'[k].slot
      OBVIOUS
    <3>1. CASE j \in DOMAIN queue /\ queue'[j] = queue[j] /\ k \in DOMAIN queue /\ queue'[k] = queue[k]
      BY <1>3, <3>1
    <3>2. CASE j \in DOMAIN queue /\ queue'[j] = queue[j] /\ queue'[k] = q
      BY <1>1, <1>2, <1>5, <3>2
    <3>3. CASE queue'[j] = q /\ k \in DOMAIN queue /\ queue'[k] = queue[k]
      BY <1>1, <1>2, <1>5, <3>3
    <3> QED BY <2>1, <3>1, <3>2, <3>3
  <2>4. \A j \in DOMAIN queue' : queue'[j].kind = "Restart" => ~slot'[queue'[j].slot].terminal
    BY <1>2, <1>5, <2>1
  <2> QED BY <1>1, <2>2, <2>3, <2>4 DEF Ordered, QueueSound
<1>6. \/ queue' = queue
      \/ queue' = Append(queue, Act("Restart", i)) /\ ~slot'[i].terminal
      \/ queue' = Append(queue, Act("Disarm", i))
      \/ queue' = Append(queue, Act("GaveUp", None))
  BY <1>1, VisitOrders
<1>7. /\ Act("Restart", i).slot = i /\ Act("Disarm", i).slot = i /\ Act("GaveUp", None).slot = None
      /\ Act("Disarm", i).kind # "Restart" /\ Act("GaveUp", None).kind # "Restart"
  BY DEF Act
<1> HIDE DEF Act
<1> QED BY <1>4, <1>5, <1>6, <1>7, ActsAreActions

LEMMA NextRound == RoundInv /\ [Next]_vars => RoundInv'
<1> SUFFICES ASSUME RoundInv, [Next]_vars PROVE RoundInv'
  OBVIOUS
<1>0. TypeOK /\ TypeOK' /\ Rounds /\ Ordered /\ QueueSound
  BY NextType DEF RoundInv
<1>1. ASSUME NEW i \in Slots, Visit(i) PROVE Rounds' /\ Ordered' /\ QueueSound'
  <2>1. Rounds'
    <3>1. /\ cursor = i /\ action' = action
          /\ phase' = phase \/ phase' = At("GaveUp", None)
      BY <1>0, <1>1, VisitDoes
    <3> QED BY <3>1, <1>0 DEF Rounds, Slots, At
  <2> QED BY <1>1, <2>1, VisitKeepsQueue
<1>2. CASE PopQueue \/ RoundAnswers
  <2>1. /\ cursor' = 0 /\ queue # <<>> /\ action' = Head(queue) /\ queue' = Tail(queue)
        /\ slot' = slot
    BY <1>2 DEF PopQueue, RoundAnswers, Asked
  <2>2. action'.kind # "Wait"
    BY <1>0, <2>1, HeadGoes DEF Queueable, Act
  <2> QED BY <1>0, <2>1, <2>2, QueueShrinks DEF RoundInv, Rounds, Ordered
<1>3. CASE BeginRound
  <2>1. cursor' = 1 /\ queue = <<>> /\ queue' = queue /\ slot' = slot /\ phase' = phase
        /\ action' = action /\ action.kind = "Ask" /\ phase.at = "Supervise"
    BY <1>3 DEF BeginRound, PhaseTurn, Asked
  <2> QED BY <1>0, <2>1, QueueShrinks DEF RoundInv, Rounds, Ordered
<1>4. CASE StepDelay \/ StepLaunch \/ StepGaveUp \/ StepDone
           \/ RoundSettles \/ RoundFinishes \/ RoundWaits
  <2>1. cursor' = 0 /\ queue = <<>> /\ queue' = queue /\ slot' = slot
    BY <1>4 DEF StepDelay, StepLaunch, StepGaveUp, StepDone, RoundSettles, RoundFinishes,
       RoundWaits, PhaseTurn, Asked
  <2> QED BY <1>0, <2>1, QueueShrinks DEF RoundInv, Rounds, Ordered
<1>5. ASSUME NEW ok \in BOOLEAN, NoteLaunch(ok) PROVE Rounds' /\ Ordered' /\ QueueSound'
  <2>1. cursor = 0 /\ cursor' = 0 /\ queue' = queue /\ action' = Ask
    BY <1>0, <1>5 DEF NoteLaunch, Rounds
  <2>2. \A k \in Slots : slot'[k].terminal = slot[k].terminal
    BY <1>0, <1>5, NoteDoes
  <2>3. action'.kind # "Wait"
    BY <2>1 DEF Ask, Act
  <2> QED BY <1>0, <2>1, <2>2, <2>3, QueueShrinks DEF RoundInv, Rounds, Ordered
<1>6. CASE PersistDisarm \/ WriteStatus
  <2>1. cursor = 0 /\ cursor' = 0 /\ queue' = queue /\ slot' = slot /\ action' = Ask
    BY <1>0, <1>6 DEF PersistDisarm, WriteStatus, Rounds
  <2>2. action'.kind # "Wait"
    BY <2>1 DEF Ask, Act
  <2> QED BY <1>0, <2>1, <2>2, QueueShrinks DEF RoundInv, Rounds, Ordered
<1>7. ASSUME NEW d \in 0..(MaxWait + Lateness), TimerFires(d)
      PROVE  Rounds' /\ Ordered' /\ QueueSound'
  <2>1. cursor = 0 /\ cursor' = 0 /\ queue' = queue /\ action' = Ask
    BY <1>0, <1>7 DEF TimerFires, Rounds
  <2>2. \A k \in Slots : slot'[k].terminal = slot[k].terminal
    BY <1>0, <1>7, TimeDoes
  <2>3. action'.kind # "Wait"
    BY <2>1 DEF Ask, Act
  <2> QED BY <1>0, <2>1, <2>2, <2>3, QueueShrinks DEF RoundInv, Rounds, Ordered
<1>8. CASE UNCHANGED vars
  BY <1>0, <1>8 DEF vars, RoundInv, Rounds, Ordered, QueueSound
<1> QED BY <1>0, <1>1, <1>2, <1>3, <1>4, <1>5, <1>6, <1>7, <1>8
        DEF RoundInv, Next, Step, Caller

LEMMA RoundsHold == Spec => []RoundInv
<1>1. Init => RoundInv
  <2> SUFFICES ASSUME Init PROVE RoundInv
    OBVIOUS
  <2>1. cursor = 0 /\ queue = <<>> /\ action = Ask
    BY DEF Init
  <2> QED BY <2>1, InitType DEF RoundInv, Rounds, Ordered, QueueSound, Ask, Act
<1>2. RoundInv /\ [Next]_vars => RoundInv'
  BY NextRound
<1> QED BY <1>1, <1>2, PTL DEF Spec

\* What a round orders concerns each entry once at most, restarts none that is
\* written off, and is all out before the caller sleeps.
THEOREM QueueIsSound == Spec => []QueueSound
<1>1. RoundInv => QueueSound
  BY DEF RoundInv
<1> QED BY <1>1, RoundsHold, PTL

-----------------------------------------------------------------------------
\* What no step does

\* Whatever else happens to a slot that is written off, the supervisor leaves it.
LEMMA WrittenOffStays ==
    ASSUME RoundInv, [Next]_vars, NEW i \in Slots, slot[i].terminal
    PROVE  /\ slot'[i].terminal
           /\ slot'[i].restarts = slot[i].restarts
           /\ slot'[i].neverUpTries = slot[i].neverUpTries
           /\ Len(queue') > Len(queue) => queue'[Len(queue')] # Act("Restart", i)
<1>0. TypeOK /\ queue \in Seq(Queueable)
  BY DEF RoundInv, TypeOK
<1>1. ASSUME NEW k \in Slots, Visit(k)
      PROVE  /\ slot'[i] = slot[i]
             /\ Len(queue') > Len(queue) => queue'[Len(queue')] # Act("Restart", i)
  <2>1. CASE k = i
    BY <1>0, <1>1, <2>1, VisitDoes
  <2>2. CASE k # i
    <3>1. slot'[i] = slot[i]
      BY <1>0, <1>1, <2>2, VisitDoes
    <3>2. \/ queue' = queue
          \/ \E q \in {Act("Restart", k), Act("Disarm", k), Act("GaveUp", None)} :
                queue' = Append(queue, q)
      BY <1>0, <1>1, VisitOrders
    <3>3. \A q \in {Act("Restart", k), Act("Disarm", k), Act("GaveUp", None)} :
              q # Act("Restart", i)
      BY <2>2 DEF Act
    <3>4. \A q : queue' = Append(queue, q) => queue'[Len(queue')] = q
      BY <1>0
    <3>5. Len(queue) \in Nat
      BY <1>0
    <3> QED BY <3>1, <3>2, <3>3, <3>4, <3>5
  <2> QED BY <2>1, <2>2
<1>2. ASSUME slot' = slot, queue' = queue \/ (queue # <<>> /\ queue' = Tail(queue))
      PROVE  /\ slot'[i] = slot[i]
             /\ ~(Len(queue') > Len(queue))
  BY <1>0, <1>2
<1>3. CASE \/ PopQueue \/ RoundAnswers
  BY <1>2, <1>3 DEF PopQueue, RoundAnswers
<1>4. CASE \/ StepDelay \/ StepLaunch \/ BeginRound \/ StepGaveUp \/ StepDone
           \/ RoundSettles \/ RoundFinishes \/ RoundWaits \/ WriteStatus \/ PersistDisarm
           \/ UNCHANGED vars
  BY <1>2, <1>4 DEF StepDelay, StepLaunch, BeginRound, StepGaveUp, StepDone, RoundSettles,
     RoundFinishes, RoundWaits, WriteStatus, PersistDisarm, vars
<1>5. ASSUME NEW ok \in BOOLEAN, NoteLaunch(ok)
      PROVE  /\ slot'[i].terminal = slot[i].terminal /\ slot'[i].restarts = slot[i].restarts
             /\ slot'[i].neverUpTries = slot[i].neverUpTries /\ queue' = queue
  <2>1. queue' = queue
    BY <1>5 DEF NoteLaunch
  <2> QED BY <1>0, <1>5, <2>1, NoteDoes
<1>6. ASSUME NEW d \in 0..(MaxWait + Lateness), TimerFires(d)
      PROVE  /\ slot'[i].terminal = slot[i].terminal /\ slot'[i].restarts = slot[i].restarts
             /\ slot'[i].neverUpTries = slot[i].neverUpTries /\ queue' = queue
  <2>1. queue' = queue
    BY <1>6 DEF TimerFires
  <2> QED BY <1>0, <1>6, <2>1, TimeDoes
<1>7. queue' = queue => ~(Len(queue') > Len(queue))
  BY <1>0
<1> QED BY <1>1, <1>3, <1>4, <1>5, <1>6, <1>7 DEF Next, Step, Caller

\* An entry written off stays so: nothing is spent on it and no restart of it queued.
THEOREM WriteOffIsFinal == Spec => TerminalIsFinal
<1>1. RoundInv /\ [Next]_vars =>
        [\A i \in Slots : slot[i].terminal =>
            /\ slot'[i].terminal
            /\ slot'[i].restarts = slot[i].restarts
            /\ slot'[i].neverUpTries = slot[i].neverUpTries
            /\ Len(queue') > Len(queue) => queue'[Len(queue')] # Act("Restart", i)]_vars
  BY WrittenOffStays
<1> QED BY <1>1, RoundsHold, PTL DEF Spec, TerminalIsFinal

\* A round records nothing of an entry that an update owns.
THEOREM UpdatesAreLeftAlone == Spec => UpdateOwnsItsEntry
<1>1. RoundInv /\ [Next]_vars =>
        [updating # None /\ cursor # 0 => slot'[updating] = slot[updating]]_vars
  <2> SUFFICES ASSUME RoundInv, [Next]_vars, updating # None, cursor # 0
               PROVE  slot'[updating] = slot[updating]
    OBVIOUS
  <2>0. TypeOK /\ action.kind = "Ask" /\ updating \in Slots
    BY DEF RoundInv, Rounds, TypeOK
  <2>1. ASSUME NEW i \in Slots, Visit(i) PROVE slot'[updating] = slot[updating]
    <3>1. CASE i = updating
      <4>1. ~Probes(i)
        BY <3>1 DEF Probes
      <4> QED BY <2>0, <2>1, <4>1, VisitDoes
    <3>2. CASE i # updating
      BY <2>0, <2>1, <3>2, VisitDoes
    <3> QED BY <3>1, <3>2
  <2>2. CASE RoundAnswers \/ RoundSettles \/ RoundFinishes \/ RoundWaits \/ UNCHANGED vars
    BY <2>2 DEF RoundAnswers, RoundSettles, RoundFinishes, RoundWaits, vars
  <2>3. ~(PopQueue \/ StepDelay \/ StepLaunch \/ BeginRound \/ StepGaveUp \/ StepDone)
    BY DEF PopQueue, StepDelay, StepLaunch, BeginRound, StepGaveUp, StepDone, PhaseTurn, Asked
  <2>4. ~Caller
    BY <2>0 DEF Caller, NoteLaunch, PersistDisarm, WriteStatus, TimerFires
  <2> QED BY <2>1, <2>2, <2>3, <2>4 DEF Next, Step
<1> QED BY <1>1, RoundsHold, PTL DEF Spec, UpdateOwnsItsEntry

-----------------------------------------------------------------------------
\* Settled

LEMMA NextStruck ==
    ASSUME RoundInv, Struck, [Next]_vars PROVE Struck'
<1>0. /\ TypeOK /\ TypeOK' /\ LaunchGrace \in Nat /\ DeadStrikes \in Nat \ {0}
      /\ \A k \in Slots : slot[k] \in SlotType
  BY NextType, TimesAssumption, CountsAssumption DEF RoundInv, TypeOK
<1>00. \A k \in Slots : /\ slot[k].strikes \in 0..DeadStrikes /\ slot[k].age \in -1..LaunchGrace
                        /\ slot'[k].strikes \in 0..DeadStrikes /\ slot'[k].age \in -1..LaunchGrace
  BY <1>0 DEF TypeOK, SlotType
<1>1. ASSUME NEW i \in Slots, Visit(i) PROVE Struck'
  <2>1. \A k \in Slots : k # i => slot'[k] = slot[k]
    BY <1>0, <1>1, VisitDoes
  <2>2. slot'[i].strikes > 0 => slot'[i].everAlive /\ slot'[i].age >= LaunchGrace
    BY <1>0, <1>00, <1>1, VisitRecords DEF Struck
  <2> QED BY <2>1, <2>2 DEF Struck
<1>2. CASE slot' = slot
  BY <1>2 DEF Struck
<1>3. ASSUME NEW ok \in BOOLEAN, NoteLaunch(ok) PROVE Struck'
  BY <1>0, <1>00, <1>3, NoteDoes DEF Struck
<1>4. ASSUME NEW d \in 0..(MaxWait + Lateness), TimerFires(d) PROVE Struck'
  <2>1. \A k \in Slots : /\ slot'[k].strikes = slot[k].strikes
                         /\ slot'[k].everAlive = slot[k].everAlive
                         /\ slot'[k].age >= slot[k].age
    BY <1>0, <1>4, TimeDoes
  <2> QED BY <1>0, <1>00, <2>1 DEF Struck
<1>5. \/ slot' = slot \/ Caller \/ \E i \in Slots : Visit(i)
  BY DEF Next, Step, PopQueue, StepDelay, StepLaunch, BeginRound, StepGaveUp, StepDone,
     RoundAnswers, RoundSettles, RoundFinishes, RoundWaits, vars
<1>6. CASE PersistDisarm \/ WriteStatus
  BY <1>2, <1>6 DEF PersistDisarm, WriteStatus
<1> QED BY <1>1, <1>2, <1>3, <1>4, <1>5, <1>6 DEF Caller

LEMMA NextCounted ==
    ASSUME RoundInv, Struck, Counted, [Next]_vars PROVE Counted'
<1>0. /\ TypeOK /\ DeadStrikes \in Nat \ {0} /\ Slots \subseteq Nat \ {0}
      /\ \A k \in Slots : slot[k].strikes \in 0..DeadStrikes
  BY CountsAssumption DEF RoundInv, TypeOK, SlotType, Slots
<1>1. ASSUME NEW i \in Slots, Visit(i) PROVE Counted'
  <2>1. /\ cursor = i /\ cursor' = i + 1 /\ updating' = updating
        /\ \A k \in Slots : k # i => slot'[k] = slot[k]
        /\ quiet' = quiet \/ quiet' = 0
    BY <1>0, <1>1, VisitDoes
  <2>2. ASSUME NEW k \in Slots, k < i, OnDeathRow(k)' PROVE quiet' = 0
    <3>1. slot'[k] = slot[k]
      BY <1>0, <2>1, <2>2
    <3>2. OnDeathRow(k)
      BY <2>1, <2>2, <3>1 DEF OnDeathRow, Probes, Supervised
    <3> QED BY <1>0, <2>1, <2>2, <3>2 DEF Counted
  <2>3. ASSUME OnDeathRow(i)' PROVE quiet' = 0
    <3>1. /\ slot'[i].supervised = slot[i].supervised
          /\ slot'[i].age = slot[i].age \/ slot[i].age # NotLaunched
          /\ \/ slot'[i].strikes = slot[i].strikes /\ ~(slot[i].everAlive /\ slot[i].age >= LaunchGrace)
             \/ slot'[i].strikes < DeadStrikes
             \/ slot'[i].terminal
             \/ ~Probes(i)
             \/ quiet' = 0
      BY <1>0, <1>1, VisitRecords
    <3>2. Probes(i) /\ ~slot'[i].terminal /\ slot'[i].strikes >= DeadStrikes
      BY <2>1, <2>3, <3>1 DEF OnDeathRow, Probes, Supervised
    <3>3. ~(slot[i].everAlive /\ slot[i].age >= LaunchGrace) => slot[i].strikes < DeadStrikes
      BY <1>0 DEF Struck
    <3>4. slot'[i].strikes < DeadStrikes => FALSE
      <4>1. slot'[i].strikes \in Int
        BY NextType DEF RoundInv, TypeOK, SlotType
      <4> QED BY <1>0, <3>2, <4>1
    <3> QED BY <3>1, <3>2, <3>3, <3>4
  <2>4. \A k \in Slots : k < i + 1 => k < i \/ k = i
    BY <1>0
  <2> QED BY <2>1, <2>2, <2>3, <2>4 DEF Counted
<1>2. CASE BeginRound
  <2>1. cursor' = 1
    BY <1>2 DEF BeginRound
  <2>2. \A k \in Slots : ~(k < 1)
    BY <1>0
  <2> QED BY <2>1, <2>2 DEF Counted
<1>3. CASE cursor' = 0
  BY <1>3 DEF Counted
<1>4. CASE UNCHANGED vars
  BY <1>4 DEF vars, Counted, OnDeathRow, Probes, Supervised
<1>5. \/ cursor' = 0 \/ BeginRound \/ UNCHANGED vars \/ \E i \in Slots : Visit(i)
  BY DEF Next, Step, Caller, PopQueue, StepDelay, StepLaunch, StepGaveUp, StepDone,
     RoundAnswers, RoundSettles, RoundFinishes, RoundWaits, PhaseTurn, Asked, NoteLaunch,
     PersistDisarm, WriteStatus, TimerFires, RoundInv, Rounds
<1> QED BY <1>1, <1>2, <1>3, <1>4, <1>5

\* Settled is said by RoundSettles, and nothing moves until the caller has heard it.
LEMMA NextSettled ==
    ASSUME RoundInv, QuietInv, [Next]_vars PROVE SettledIsStable'
<1> SUFFICES ASSUME action'.kind = "Settled" PROVE SettledIsStable'
  BY DEF SettledIsStable
<1>0. TypeOK /\ queue \in Seq(Queueable)
  BY DEF RoundInv, TypeOK
<1>1. CASE RoundSettles
  <2>1. /\ cursor = NSlots + 1 /\ quiet >= SettleTime /\ slot' = slot /\ updating' = updating
        /\ phase' = phase \/ phase' = At("Done", None)
    BY <1>1 DEF RoundSettles, LoopDone, NowQuiet
  <2>2. quiet # 0 /\ cursor # 0 /\ \A i \in Slots : i < cursor
    BY <1>0, <2>1, NSlotsAssumption, TimesAssumption DEF TypeOK, Slots
  <2>3. \A i \in Slots : ~OnDeathRow(i)
    BY <2>2 DEF QuietInv, Counted
  <2>4. \A i \in Slots : Probes(i)' /\ ~slot'[i].terminal => slot'[i].strikes < DeadStrikes
    <3>1. \A i \in Slots : slot[i].strikes \in Int /\ DeadStrikes \in Int
      BY <1>0, CountsAssumption DEF TypeOK, SlotType
    <3> QED BY <2>1, <2>3, <3>1 DEF OnDeathRow, Probes, Supervised
  <2>5. ~Sequencing'
    BY <2>1, <2>2 DEF RoundInv, Rounds, Sequencing, At
  <2> QED BY <2>4, <2>5 DEF SettledIsStable
<1>2. CASE UNCHANGED vars
  BY <1>2 DEF vars, QuietInv, SettledIsStable, Sequencing, Probes, Supervised
<1>3. ASSUME NEW i \in Slots, Visit(i) PROVE FALSE
  <2>1. action'.kind = "Ask"
    <3>1. cursor = i /\ action' = action
      BY <1>0, <1>3, VisitDoes
    <3> QED BY <3>1 DEF RoundInv, Rounds, Slots
  <2> QED BY <2>1
<1>4. CASE PopQueue \/ RoundAnswers
  <2>1. queue # <<>> /\ action' = Head(queue)
    BY <1>4 DEF PopQueue, RoundAnswers
  <2> QED BY <1>0, <2>1, HeadGoes DEF Queueable, Act
<1>5. ~(StepDelay \/ StepLaunch \/ BeginRound \/ StepGaveUp \/ StepDone \/ RoundFinishes \/ RoundWaits)
  BY DEF StepDelay, StepLaunch, BeginRound, StepGaveUp, StepDone, RoundFinishes, RoundWaits,
     PhaseTurn, Asked, Act, Wait
<1>6. ~Caller
  BY DEF Caller, NoteLaunch, PersistDisarm, WriteStatus, TimerFires, Ask, Act
<1> QED BY <1>1, <1>2, <1>3, <1>4, <1>5, <1>6 DEF Next, Step

\* The boot counter is not cleared over a death that waits for its restart.
THEOREM SettledIsDeserved == Spec => []SettledIsStable
<1>1. Init => QuietInv
  <2> SUFFICES ASSUME Init PROVE QuietInv
    OBVIOUS
  <2>1. \A i \in Slots : slot[i].strikes = 0
    BY DEF Init, NewSlot
  <2>2. cursor = 0 /\ action.kind # "Settled"
    BY DEF Init, Ask, Act
  <2> QED BY <2>1, <2>2 DEF QuietInv, Struck, Counted, SettledIsStable
<1>2. RoundInv /\ QuietInv /\ [Next]_vars => QuietInv'
  BY NextStruck, NextCounted, NextSettled DEF QuietInv
<1>3. QuietInv => SettledIsStable
  BY DEF QuietInv
<1> QED BY <1>1, <1>2, <1>3, RoundsHold, PTL DEF Spec

-----------------------------------------------------------------------------
\* Done

\* A slot that was launched, or given up on, stays so; and no entry is given back
\* to the boot once nothing is left to do for it.
LEMMA TriedStays ==
    ASSUME RoundInv, [Next]_vars, NEW k \in Slots
    PROVE  /\ slot'[k].supervised = slot[k].supervised
           /\ Tried(k) => Tried(k)'
<1>0. /\ TypeOK /\ slot[k] \in SlotType /\ LaunchTries \in 1..CountMax /\ CountMax \in Nat
      /\ LaunchGrace \in Nat
  BY CountsAssumption, TimesAssumption DEF RoundInv, TypeOK
<1>1. ASSUME NEW i \in Slots, Visit(i)
      PROVE  slot'[k].supervised = slot[k].supervised /\ (Tried(k) => Tried(k)')
  <2>1. CASE k = i
    <3>1. /\ slot'[k].supervised = slot[k].supervised
          /\ slot'[k].launchTries = slot[k].launchTries
          /\ slot'[k].age = slot[k].age \/ slot'[k].age = 0
      BY <1>0, <1>1, <2>1, VisitRecords
    <3> QED BY <3>1 DEF Tried, NotLaunched
  <2>2. CASE k # i
    <3>1. slot'[k] = slot[k]
      BY <1>0, <1>1, <2>2, VisitDoes
    <3> QED BY <3>1 DEF Tried
  <2> QED BY <2>1, <2>2
<1>2. CASE slot' = slot
  BY <1>2 DEF Tried
<1>3. ASSUME NEW ok \in BOOLEAN, NoteLaunch(ok)
      PROVE  slot'[k].supervised = slot[k].supervised /\ (Tried(k) => Tried(k)')
  <2>1. CASE k = action.slot
    <3>1. /\ slot'[k].supervised = slot[k].supervised
          /\ ok => slot'[k].age = 0
          /\ ~ok => /\ slot'[k].age = slot[k].age
                    /\ slot'[k].launchTries = SatInc(slot[k].launchTries)
      BY <1>0, <1>3, <2>1, NoteDoes
    <3>2. slot[k].launchTries <= SatInc(slot[k].launchTries)
          /\ SatInc(slot[k].launchTries) \in 0..CountMax /\ slot[k].launchTries \in 0..CountMax
      BY <1>0, SatIncStays DEF SlotType
    <3> HIDE DEF SatInc
    <3>3. slot[k].launchTries >= LaunchTries => SatInc(slot[k].launchTries) >= LaunchTries
      BY <1>0, <3>2
    <3> QED BY <3>1, <3>3 DEF Tried, NotLaunched
  <2>2. CASE k # action.slot
    <3>1. slot'[k] = slot[k]
      BY <1>0, <1>3, <2>2, NoteDoes
    <3> QED BY <3>1 DEF Tried
  <2> QED BY <2>1, <2>2
<1>4. ASSUME NEW d \in 0..(MaxWait + Lateness), TimerFires(d)
      PROVE  slot'[k].supervised = slot[k].supervised /\ (Tried(k) => Tried(k)')
  <2>1. /\ slot'[k].supervised = slot[k].supervised
        /\ slot'[k].launchTries = slot[k].launchTries
        /\ slot'[k].age >= slot[k].age
    BY <1>0, <1>4, TimeDoes
  <2>2. slot[k].age \in -1..LaunchGrace /\ slot'[k].age \in -1..LaunchGrace
    BY NextType DEF RoundInv, TypeOK, SlotType
  <2>3. slot[k].age # -1 => slot'[k].age # -1
    BY <1>0, <2>1, <2>2
  <2> QED BY <2>1, <2>3 DEF Tried, NotLaunched
<1>5. \/ slot' = slot \/ (\E i \in Slots : Visit(i))
      \/ (\E ok \in BOOLEAN : NoteLaunch(ok))
      \/ \E d \in 0..(MaxWait + Lateness) : TimerFires(d)
  BY DEF Next, Step, Caller, PopQueue, StepDelay, StepLaunch, BeginRound, StepGaveUp, StepDone,
     RoundAnswers, RoundSettles, RoundFinishes, RoundWaits, PersistDisarm, WriteStatus, vars
<1> QED BY <1>1, <1>2, <1>3, <1>4, <1>5

\* The sequence leaves no entry behind that was not tried: what is not is ahead of
\* it, or is the launch the caller has in hand.
LEMMA NextSequenced ==
    ASSUME RoundInv, Sequenced, [Next]_vars PROVE Sequenced'
<1>0. /\ TypeOK /\ Slots \subseteq Nat \ {0} /\ NSlots \in Nat
      /\ \A k \in Slots : slot'[k].supervised = slot[k].supervised /\ (Tried(k) => Tried(k)')
      /\ Sequencing => phase.slot \in Slots
  BY TriedStays, NSlotsAssumption DEF RoundInv, TypeOK, Slots, Phases, Sequencing, At
<1>1. CASE AllTried
  BY <1>0, <1>1 DEF Sequenced, AllTried, Supervised
<1> SUFFICES ASSUME ~AllTried PROVE Sequenced'
  BY <1>1
<1>2. /\ queue = <<>> /\ cursor = 0
      /\ Launching /\ Sequencing => action.slot < phase.slot
      /\ \A i \in Slots : Supervised(i) =>
            Tried(i) \/ (Sequencing /\ i >= phase.slot) \/ (Launching /\ action.slot = i)
  BY DEF Sequenced
<1>3. ~PopQueue /\ ~RoundAnswers /\ ~RoundSettles /\ ~RoundFinishes /\ ~RoundWaits
      /\ \A i \in Slots : ~Visit(i)
  <2>1. \A i \in Slots : ~Visit(i)
    BY <1>0, <1>2, VisitDoes
  <2> QED BY <1>0, <1>2, <2>1 DEF PopQueue, RoundAnswers, RoundSettles, RoundFinishes,
          RoundWaits, LoopDone
<1>4. Asked => Sequencing /\ ~Launching
  <2>1. Asked => ~Launching
    BY DEF Asked, Launching
  <2> QED BY <1>2, <2>1 DEF AllTried
<1>5. ~(BeginRound \/ StepGaveUp \/ StepDone)
  BY <1>4 DEF BeginRound, StepGaveUp, StepDone, PhaseTurn, Sequencing
<1>6. CASE StepDelay
  <2>1. /\ slot' = slot /\ queue' = queue /\ cursor' = cursor
        /\ phase' = At("Launch", phase.slot) /\ action'.kind = "Wait" /\ Asked
    BY <1>6 DEF StepDelay, PhaseTurn, Wait
  <2>2. ~Launching' /\ Sequencing' /\ phase'.slot = phase.slot
    BY <2>1 DEF Launching, Sequencing, At
  <2>3. \A i \in Slots : Supervised(i)' => Tried(i)' \/ i >= phase'.slot
    BY <1>0, <1>2, <1>4, <2>1, <2>2 DEF Supervised
  <2> QED BY <1>2, <2>1, <2>2, <2>3 DEF Sequenced
<1>7. CASE StepLaunch
  <2>1. /\ slot' = slot /\ queue' = queue /\ cursor' = cursor /\ Asked /\ phase.slot \in Slots
        /\ phase' \in PhaseFrom(slot, phase.slot + 1)
        /\ action'.kind \in {"Launch", "Restart"} /\ action'.slot = phase.slot
    BY <1>0, <1>7 DEF StepLaunch, PhaseTurn, Act, Sequencing
  <2>2. Launching'
    BY <2>1 DEF Launching
  <2>3. \A i \in Slots : Supervised(i) =>
            Tried(i) \/ i = phase.slot \/ i \in ActiveFrom(slot, phase.slot + 1)
    <3> SUFFICES ASSUME NEW i \in Slots, Supervised(i), ~Tried(i), i # phase.slot
                 PROVE  i \in ActiveFrom(slot, phase.slot + 1)
      OBVIOUS
    <3>1. i >= phase.slot /\ i \in Nat /\ phase.slot \in Nat
      BY <1>0, <1>2, <1>4, <2>1
    <3>2. i >= phase.slot + 1
      BY <3>1
    <3> QED BY <3>2 DEF ActiveFrom, Supervised
  <2>4. CASE ActiveFrom(slot, phase.slot + 1) = {}
    <3>1. ~Sequencing'
      BY <2>1, <2>4 DEF PhaseFrom, Sequencing, At
    <3>2. \A i \in Slots : Supervised(i)' => Tried(i)' \/ action'.slot = i
      BY <1>0, <2>1, <2>3, <2>4 DEF Supervised
    <3> QED BY <1>2, <2>1, <2>2, <3>1, <3>2 DEF Sequenced
  <2>5. CASE ActiveFrom(slot, phase.slot + 1) # {}
    <3>1. PICK f \in FirstOf(ActiveFrom(slot, phase.slot + 1)) : phase' = At("Delay", f)
      BY <2>1, <2>5 DEF PhaseFrom
    <3>2. Sequencing' /\ phase'.slot = f
      BY <3>1 DEF Sequencing, At
    <3>3. /\ f \in Slots /\ f >= phase.slot + 1
          /\ \A i \in ActiveFrom(slot, phase.slot + 1) : i >= f
      BY <1>0, <3>1 DEF FirstOf, ActiveFrom
    <3>4. action'.slot < phase'.slot
      <4>1. phase.slot \in Nat /\ f \in Nat
        BY <1>0, <2>1, <3>3
      <4> QED BY <2>1, <3>2, <3>3, <4>1
    <3>5. \A i \in Slots : Supervised(i)' => Tried(i)' \/ i >= phase'.slot \/ action'.slot = i
      BY <1>0, <2>1, <2>3, <3>2, <3>3 DEF Supervised
    <3> QED BY <1>2, <2>1, <2>2, <3>2, <3>4, <3>5 DEF Sequenced
  <2> QED BY <2>4, <2>5
<1>8. ASSUME NEW ok \in BOOLEAN, NoteLaunch(ok) PROVE Sequenced'
  <2>1. /\ Launching /\ action.slot \in Slots /\ queue' = queue /\ cursor' = cursor
        /\ action' = Ask
        /\ ok => phase' = phase
        /\ ~ok => phase' = IF Failures(action.slot) < LaunchTries
                           THEN At("Delay", action.slot) ELSE phase
    BY <1>0, <1>8, NoteDoes DEF NoteLaunch, Launching
  <2>2. ~Launching'
    BY <2>1 DEF Launching, Ask, Act
  <2>3. PICK a \in Slots : a = action.slot
    BY <2>1
  <2>4. Tried(a)' \/ phase' = At("Delay", a)
    <3>1. /\ ok => slot'[a].age = 0
          /\ ~ok => slot'[a].launchTries = Failures(a)
      BY <1>0, <1>8, <2>3, NoteDoes DEF Failures
    <3>2. slot[a].launchTries \in 0..CountMax
      BY <1>0 DEF TypeOK, SlotType
    <3>3. LaunchTries \in Nat /\ Failures(a) \in Nat
      BY <3>2, CountsAssumption, SatIncStays DEF Failures
    <3> HIDE DEF Failures
    <3>4. ok => Tried(a)'
      BY <3>1 DEF Tried, NotLaunched
    <3>5. ~ok /\ ~(Failures(a) < LaunchTries) => Tried(a)'
      BY <3>1, <3>3 DEF Tried
    <3> QED BY <2>1, <2>3, <3>4, <3>5
  <2>5. CASE phase' = At("Delay", a)
    <3>1. Sequencing' /\ phase'.slot = a
      BY <2>5 DEF Sequencing, At
    <3>2. \A i \in Slots : Supervised(i) => Tried(i) \/ (Sequencing /\ i >= phase.slot) \/ a = i
      BY <1>2, <2>3
    <3>3. Sequencing => a < phase.slot /\ phase.slot \in Nat
      BY <1>0, <1>2, <2>1, <2>3
    <3>4. \A i \in Slots : Supervised(i) => Tried(i) \/ i >= a
      BY <1>0, <3>2, <3>3
    <3>5. \A i \in Slots : Supervised(i)' => Tried(i)' \/ i >= phase'.slot
      BY <1>0, <3>1, <3>4 DEF Supervised
    <3> QED BY <1>2, <2>1, <2>2, <3>1, <3>5 DEF Sequenced
  <2>6. CASE Tried(a)' /\ phase' = phase
    <3>1. \A i \in Slots : Supervised(i)' => Tried(i)' \/ (Sequencing /\ i >= phase.slot)
      BY <1>0, <1>2, <2>3, <2>6 DEF Supervised
    <3>2. Sequencing' = Sequencing
      BY <2>6 DEF Sequencing
    <3> QED BY <1>2, <2>1, <2>2, <2>6, <3>1, <3>2 DEF Sequenced
  <2>7. phase' = phase \/ phase' = At("Delay", a)
    BY <2>1, <2>3
  <2> QED BY <2>4, <2>5, <2>6, <2>7
<1>9. CASE \/ PersistDisarm \/ WriteStatus \/ UNCHANGED vars
           \/ \E d \in 0..(MaxWait + Lateness) : TimerFires(d)
  <2>1. /\ queue' = queue /\ cursor' = cursor /\ phase' = phase
        /\ action' = action \/ (~Launching /\ action' = Ask)
    BY <1>9 DEF PersistDisarm, WriteStatus, TimerFires, Launching, vars
  <2>2. Sequencing' = Sequencing /\ Launching' = Launching
    BY <2>1 DEF Sequencing, Launching, Ask, Act
  <2>3. Launching => action' = action
    BY <2>1
  <2>4. \A i \in Slots : Supervised(i)' =>
            Tried(i)' \/ (Sequencing /\ i >= phase.slot) \/ (Launching /\ action.slot = i)
    BY <1>0, <1>2 DEF Supervised
  <2> QED BY <1>2, <2>1, <2>2, <2>3, <2>4 DEF Sequenced
<1> QED BY <1>3, <1>5, <1>6, <1>7, <1>8, <1>9 DEF Next, Step, Caller

\* Once the phase is Done nothing is asked of the caller but to stop.
LEMMA NextOver ==
    ASSUME RoundInv, Over, [Next]_vars PROVE Over'
<1> SUFFICES ASSUME phase'.at = "Done" PROVE Over'
  BY DEF Over
<1>0. TypeOK /\ Rounds /\ Slots \subseteq Nat \ {0} /\ NSlots \in Nat
  BY NSlotsAssumption DEF RoundInv, Slots
<1>1. ASSUME slot' = slot, updating' = updating, cfg' = cfg
      PROVE  HasFutureWork' = HasFutureWork
  BY <1>1 DEF HasFutureWork, Supervised
<1>2. CASE RoundSettles
  <2>1. cursor # 0 /\ queue' = <<>> /\ action'.kind = "Settled"
        /\ slot' = slot /\ updating' = updating /\ cfg' = cfg
        /\ phase' = IF HasFutureWork THEN phase ELSE At("Done", None)
    BY <1>0, <1>2 DEF RoundSettles, LoopDone, Act
  <2>2. phase.at # "Done"
    BY <1>0, <2>1 DEF Rounds
  <2> QED BY <1>1, <2>1, <2>2 DEF Over
<1>3. CASE RoundFinishes
  <2>1. ~HasFutureWork /\ queue' = <<>> /\ action'.kind = "Done"
        /\ slot' = slot /\ updating' = updating /\ cfg' = cfg
    BY <1>3 DEF RoundFinishes, Act
  <2> QED BY <1>1, <2>1 DEF Over
<1>4. CASE phase.at = "Done" /\ ~RoundSettles /\ ~RoundFinishes
  <2>1. ~HasFutureWork /\ queue = <<>> /\ cursor = 0 /\ action.kind \in {"Settled", "Done", "Ask"}
    BY <1>0, <1>4 DEF Over, Rounds
  <2>2. ~(\E i \in Slots : Visit(i))
    BY <1>0, <2>1, VisitDoes
  <2>3. CASE StepDone \/ WriteStatus \/ UNCHANGED vars
    <3>1. /\ slot' = slot /\ updating' = updating /\ cfg' = cfg /\ queue' = queue
          /\ action' = action \/ action'.kind \in {"Done", "Ask"}
      BY <2>3 DEF StepDone, WriteStatus, vars, Ask, Act
    <3> QED BY <1>1, <2>1, <3>1 DEF Over
  <2>4. ~(PopQueue \/ StepDelay \/ StepLaunch \/ BeginRound \/ StepGaveUp \/ RoundAnswers \/ RoundWaits)
    BY <1>0, <1>4, <2>1 DEF PopQueue, StepDelay, StepLaunch, BeginRound, StepGaveUp, RoundAnswers,
       RoundWaits, PhaseTurn, LoopDone
  <2>5. ~PersistDisarm /\ (\A ok \in BOOLEAN : ~NoteLaunch(ok))
        /\ \A d \in 0..(MaxWait + Lateness) : ~TimerFires(d)
    BY <2>1 DEF PersistDisarm, NoteLaunch, TimerFires
  <2> QED BY <1>4, <2>2, <2>3, <2>4, <2>5 DEF Next, Step, Caller
<1>5. CASE phase.at # "Done" /\ ~RoundSettles /\ ~RoundFinishes
  <2>1. phase' # phase
    BY <1>5
  <2>2. ASSUME NEW from, phase' \in PhaseFrom(slot, from) PROVE FALSE
    BY <2>2 DEF PhaseFrom, At
  <2>3. ASSUME NEW i \in Slots, Visit(i) PROVE FALSE
    BY <1>0, <2>1, <2>3, VisitDoes DEF At
  <2>4. ~StepLaunch
    BY <2>2 DEF StepLaunch
  <2>5. ~StepDelay /\ \A ok \in BOOLEAN : ~NoteLaunch(ok)
    BY <2>1 DEF StepDelay, NoteLaunch, At
  <2> QED BY <1>5, <2>1, <2>3, <2>4, <2>5 DEF Next, Step, Caller, PopQueue, BeginRound, StepGaveUp,
          StepDone, RoundAnswers, RoundWaits, PersistDisarm, WriteStatus, TimerFires, vars
<1> QED BY <1>2, <1>3, <1>4, <1>5

\* Done is said when nothing is left to do, and to entries that were all tried.
LEMMA NextDone ==
    ASSUME RoundInv, EndInv, [Next]_vars PROVE DoneIsFinal'
<1> SUFFICES ASSUME action'.kind = "Done" PROVE DoneIsFinal'
  BY DEF DoneIsFinal
<1>0. TypeOK /\ NSlots \in Nat /\ EndInv
  BY NSlotsAssumption DEF RoundInv
<1>1. ASSUME slot' = slot, updating' = updating, cfg' = cfg, ~HasFutureWork, AllTried
      PROVE  DoneIsFinal'
  BY <1>1 DEF DoneIsFinal, HasFutureWork, AllTried, Tried, Supervised
<1>2. CASE StepDone
  <2>1. /\ slot' = slot /\ updating' = updating /\ cfg' = cfg
        /\ phase.at = "Done" /\ ~Launching /\ ~Sequencing
    BY <1>2 DEF StepDone, PhaseTurn, Asked, Launching, Sequencing
  <2>2. ~HasFutureWork /\ AllTried
    BY <1>0, <2>1 DEF EndInv, Over, Sequenced, AllTried
  <2> QED BY <1>1, <2>1, <2>2
<1>3. CASE RoundFinishes
  <2>1. /\ slot' = slot /\ updating' = updating /\ cfg' = cfg /\ ~HasFutureWork /\ cursor # 0
    BY <1>0, <1>3 DEF RoundFinishes, LoopDone
  <2>2. AllTried
    BY <1>0, <2>1 DEF EndInv, Sequenced
  <2> QED BY <1>1, <2>1, <2>2
<1>4. CASE UNCHANGED vars
  BY <1>0, <1>4 DEF vars, EndInv, DoneIsFinal, Supervised
<1>5. ASSUME NEW i \in Slots, Visit(i) PROVE FALSE
  <2>1. cursor = i /\ action' = action
    BY <1>0, <1>5, VisitDoes
  <2> QED BY <2>1 DEF RoundInv, Rounds, Slots
<1>6. CASE PopQueue \/ RoundAnswers
  <2>1. queue # <<>> /\ action' = Head(queue)
    BY <1>6 DEF PopQueue, RoundAnswers
  <2> QED BY <1>0, <2>1, HeadGoes DEF Queueable, Act
<1>7. ~(StepDelay \/ StepLaunch \/ BeginRound \/ StepGaveUp \/ RoundSettles \/ RoundWaits)
  BY DEF StepDelay, StepLaunch, BeginRound, StepGaveUp, RoundSettles, RoundWaits,
     PhaseTurn, Asked, Act, Wait
<1>8. ~Caller
  BY DEF Caller, NoteLaunch, PersistDisarm, WriteStatus, TimerFires, Ask, Act
<1> QED BY <1>2, <1>3, <1>4, <1>5, <1>6, <1>7, <1>8 DEF Next, Step

\* The daemon leaves no entry it could still restart, none an update owns and none
\* that it never tried to launch.
THEOREM DoneIsDeserved == Spec => []DoneIsFinal
<1>1. Init => EndInv
  <2> SUFFICES ASSUME Init PROVE EndInv
    OBVIOUS
  <2>1. /\ queue = <<>> /\ cursor = 0 /\ action.kind = "Ask" /\ phase \in PhaseFrom(slot, 1)
        /\ Slots \subseteq Nat \ {0}
    BY DEF Init, Ask, Act, Slots
  <2>2. phase.at # "Done" /\ ~Launching /\ action.kind # "Done"
    BY <2>1 DEF PhaseFrom, At, Launching
  <2>3. Sequenced
    <3>1. CASE ActiveFrom(slot, 1) = {}
      <4>1. \A i \in Slots : ~Supervised(i)
        BY <2>1, <3>1 DEF ActiveFrom, Supervised
      <4> QED BY <4>1 DEF Sequenced, AllTried
    <3>2. CASE ActiveFrom(slot, 1) # {}
      <4>1. PICK f \in FirstOf(ActiveFrom(slot, 1)) : phase = At("Delay", f)
        BY <2>1, <3>2 DEF PhaseFrom
      <4>2. Sequencing /\ phase.slot = f
        BY <4>1 DEF Sequencing, At
      <4>3. \A i \in ActiveFrom(slot, 1) : i >= f
        BY <2>1, <4>1 DEF FirstOf, ActiveFrom
      <4>4. \A i \in Slots : Supervised(i) => i >= phase.slot
        BY <2>1, <4>2, <4>3 DEF ActiveFrom, Supervised
      <4> QED BY <2>1, <2>2, <4>2, <4>4 DEF Sequenced
    <3> QED BY <3>1, <3>2
  <2> QED BY <2>2, <2>3 DEF EndInv, Over, DoneIsFinal
<1>2. RoundInv /\ EndInv /\ [Next]_vars => EndInv'
  BY NextSequenced, NextOver, NextDone DEF EndInv
<1>3. EndInv => DoneIsFinal
  BY DEF EndInv
<1> QED BY <1>1, <1>2, <1>3, RoundsHold, PTL DEF Spec

-----------------------------------------------------------------------------
\* The spacing of restarts

\* The time since the last restart of an entry and the time it is still held make up what
\* is due; what it will be held for next makes up what will be due then.
SpacedValues(hold, backoff, since, owed) ==
    /\ since \in 0..EntryBackoffMax /\ owed \in 0..EntryBackoffMax
    /\ since + hold >= owed
    /\ Doubled(owed) <= backoff
Spaced ==
    /\ sinceGrant \in [Slots -> Nat] /\ due \in [Slots -> Nat]
    /\ \A i \in Slots :
          SpacedValues(slot[i].hold, slot[i].backoff, sinceGrant[i], due[i])

LEMMA DoubledGrows ==
    ASSUME NEW owed \in 0..EntryBackoffMax
    PROVE  Doubled(owed) \in 0..EntryBackoffMax /\ owed <= Doubled(owed)
BY TimesAssumption DEF Doubled, CapAt

\* on_tick keeps up with the doubling.
LEMMA TickKeepsUp ==
    ASSUME NEW owed \in 0..EntryBackoffMax,
           NEW backoff \in Intervals(EntryBackoffBase, EntryBackoffMax),
           Doubled(owed) <= backoff
    PROVE  LET b == AfterTick(backoff, EntryBackoffBase, EntryBackoffMax)
           IN  Doubled(owed) <= b /\ Doubled(Doubled(owed)) <= b
BY TimesAssumption DEF Doubled, CapAt, AfterTick, Clamp, Intervals

\* A restart: it comes when the hold is over, and starts the next one.
LEMMA GrantSpaces ==
    ASSUME NEW backoff \in Intervals(EntryBackoffBase, EntryBackoffMax),
           NEW since, NEW owed, SpacedValues(0, backoff, since, owed)
    PROVE  LET b == AfterTick(backoff, EntryBackoffBase, EntryBackoffMax)
           IN  /\ since >= owed
               /\ SpacedValues(backoff, b, 0, Doubled(owed))
               /\ SpacedValues(backoff, b, since, owed)
<1>1. backoff \in Nat /\ since \in Nat /\ owed \in 0..EntryBackoffMax
  BY TimesAssumption DEF Intervals, SpacedValues
<1>2. /\ Doubled(owed) \in 0..EntryBackoffMax /\ Doubled(owed) <= backoff
      /\ Doubled(owed) <= AfterTick(backoff, EntryBackoffBase, EntryBackoffMax)
      /\ Doubled(Doubled(owed)) <= AfterTick(backoff, EntryBackoffBase, EntryBackoffMax)
  BY <1>1, DoubledGrows, TickKeepsUp DEF SpacedValues
<1>3. since >= owed
  BY <1>1 DEF SpacedValues
<1> HIDE DEF Doubled, AfterTick
<1>4. 0 \in 0..EntryBackoffMax
  BY TimesAssumption
<1> QED BY <1>1, <1>2, <1>3, <1>4 DEF SpacedValues

\* Time passing.
LEMMA TimeSpaces ==
    ASSUME NEW hold \in 0..EntryBackoffMax, NEW backoff, NEW since, NEW owed, NEW d \in Nat,
           SpacedValues(hold, backoff, since, owed)
    PROVE  SpacedValues(IF hold > d THEN hold - d ELSE 0, backoff,
                        CapAt(since + d, EntryBackoffMax), owed)
<1>1. /\ hold \in Nat /\ since \in Nat /\ owed \in Nat /\ EntryBackoffMax \in Nat
      /\ since <= EntryBackoffMax /\ owed <= EntryBackoffMax /\ since + hold >= owed
  BY TimesAssumption DEF SpacedValues
<1> DEFINE left == IF hold > d THEN hold - d ELSE 0
           now == CapAt(since + d, EntryBackoffMax)
<1>2. now \in 0..EntryBackoffMax
  BY <1>1 DEF CapAt
<1>3. CASE hold > d
  <2>1. left = hold - d
    BY <1>3
  <2>2. now = since + d \/ now = EntryBackoffMax
    BY DEF CapAt
  <2> QED BY <1>1, <1>2, <1>3, <2>1, <2>2 DEF SpacedValues
<1>4. CASE ~(hold > d)
  <2>1. left = 0
    BY <1>4
  <2>2. now >= owed
    BY <1>1, <1>4 DEF CapAt
  <2> QED BY <1>1, <1>2, <2>1, <2>2 DEF SpacedValues
<1> QED BY <1>3, <1>4

\* What a step does to the backoff of an entry.
SameBackoff(i) == /\ slot'[i].hold = slot[i].hold /\ slot'[i].backoff = slot[i].backoff
                  /\ slot'[i].restarts = slot[i].restarts
BacksOff(i) ==
    /\ slot[i].hold = 0 /\ slot'[i].hold = slot[i].backoff
    /\ slot'[i].backoff = AfterTick(slot[i].backoff, EntryBackoffBase, EntryBackoffMax)

LEMMA VisitBacksOff ==
    ASSUME TypeOK, NEW i \in Slots, Visit(i)
    PROVE  SameBackoff(i) \/ BacksOff(i)
<1>1. slot \in [Slots -> SlotType] /\ slot[i] \in SlotType
  BY DEF TypeOK
<1>2. slot[i].hold \in Nat
  BY <1>1, TimesAssumption DEF SlotType
<1> HIDE DEF SatInc, AfterTick
<1>3. CASE NeverUpRetry(i)
  BY <1>1, <1>3 DEF NeverUpRetry, SlotType, BacksOff
<1>4. CASE GrantRestart(i)
  <2>1. slot[i].hold = 0
    BY <1>2, <1>4 DEF GrantRestart, MustWait
  <2> QED BY <1>1, <1>4, <2>1 DEF GrantRestart, SlotType, BacksOff
<1>5. CASE ~NeverUpRetry(i) /\ ~GrantRestart(i)
  BY <1>1, <1>5 DEF Visit, PassOver, SeenAlive, NeverUpSpent, NeverUpHeld, Strike, OutOfBudget,
     CeilingReached, Defer, SameBackoff, SlotType
<1> QED BY <1>3, <1>4, <1>5

LEMMA StepBacksOff ==
    ASSUME TypeOK, Step \/ (\E ok \in BOOLEAN : NoteLaunch(ok)) \/ PersistDisarm \/ WriteStatus,
           NEW i \in Slots
    PROVE  SameBackoff(i) \/ BacksOff(i)
<1>1. CASE slot' = slot
  BY <1>1 DEF SameBackoff
<1>2. ASSUME NEW k \in Slots, Visit(k) PROVE SameBackoff(i) \/ BacksOff(i)
  <2>1. CASE k = i
    BY <1>2, <2>1, VisitBacksOff
  <2>2. CASE k # i
    BY <1>2, <2>2, VisitDoes DEF SameBackoff
  <2> QED BY <2>1, <2>2
<1>3. ASSUME NEW ok \in BOOLEAN, NoteLaunch(ok) PROVE SameBackoff(i)
  <2>1. slot \in [Slots -> SlotType]
    BY DEF TypeOK
  <2> QED BY <1>3, <2>1 DEF NoteLaunch, SameBackoff, SlotType
<1>4. CASE Step
  BY <1>1, <1>2, <1>4 DEF Step, PopQueue, StepDelay, StepLaunch, BeginRound, StepGaveUp, StepDone,
     RoundAnswers, RoundSettles, RoundFinishes, RoundWaits
<1> QED BY <1>1, <1>3, <1>4 DEF PersistDisarm, WriteStatus

\* The history variables only watch, so what holds of Spec holds here.
LEMMA HistoryStep ==
    [HNext]_hvars => [Next]_vars
BY DEF HNext, Next, Caller, hvars

LEMMA HistoryOnlyWatches == HSpec => Spec
<1>1. HInit => Init
  BY DEF HInit
<1> QED BY <1>1, HistoryStep, PTL DEF HSpec, Spec

LEMMA InitSpaced == HInit => Spaced
<1> SUFFICES ASSUME HInit PROVE Spaced
  OBVIOUS
<1>1. /\ sinceGrant = [i \in Slots |-> EntryBackoffMax] /\ due = [i \in Slots |-> 0]
      /\ slot = [i \in Slots |-> NewSlot(cfg, i)]
  BY DEF HInit, Init
<1>2. \A i \in Slots : slot[i].hold = 0 /\ slot[i].backoff = EntryBackoffBase
  BY <1>1 DEF NewSlot
<1>3. SpacedValues(0, EntryBackoffBase, EntryBackoffMax, 0)
  BY TimesAssumption DEF SpacedValues, Doubled
<1> QED BY <1>1, <1>2, <1>3, TimesAssumption DEF Spaced

LEMMA WatchType ==
    ASSUME Spaced, HNext
    PROVE  sinceGrant' \in [Slots -> Nat] /\ due' \in [Slots -> Nat]
<1>1. sinceGrant \in [Slots -> Nat] /\ due \in [Slots -> Nat]
  BY DEF Spaced
<1>2. \A n \in Nat : CapAt(n, EntryBackoffMax) \in Nat /\ Doubled(n) \in Nat
  BY TimesAssumption DEF CapAt, Doubled
<1>3. \E d \in Nat : Watch(d)
  BY TimesAssumption DEF HNext
<1> QED BY <1>1, <1>2, <1>3 DEF Watch

\* A step keeps the spacing of each entry, and restarts none before its time.
LEMMA StepSpaced ==
    ASSUME TypeOK, Spaced, HNext, NEW i \in Slots
    PROVE  /\ SpacedValues(slot'[i].hold, slot'[i].backoff, sinceGrant'[i], due'[i])
           /\ Granted(i) => sinceGrant[i] >= due[i]
<1>1. /\ SpacedValues(slot[i].hold, slot[i].backoff, sinceGrant[i], due[i])
      /\ slot[i] \in SlotType
  BY DEF Spaced, TypeOK
<1>2. /\ slot[i].hold \in 0..EntryBackoffMax
      /\ slot[i].backoff \in Intervals(EntryBackoffBase, EntryBackoffMax)
      /\ slot[i].restarts \in Nat
  BY <1>1, CountsAssumption DEF SlotType
<1>3. ASSUME NEW d \in Nat, Watch(d)
      PROVE  /\ sinceGrant'[i] = IF Granted(i) THEN 0 ELSE CapAt(sinceGrant[i] + d, EntryBackoffMax)
             /\ due'[i] = IF Granted(i) THEN Doubled(due[i]) ELSE due[i]
  <2>1. sinceGrant \in [Slots -> Nat] /\ due \in [Slots -> Nat]
    BY DEF Spaced
  <2> QED BY <1>3, <2>1 DEF Watch
<1>4. CASE (Step \/ (\E ok \in BOOLEAN : NoteLaunch(ok)) \/ PersistDisarm \/ WriteStatus) /\ Watch(0)
  <2>1. CapAt(sinceGrant[i] + 0, EntryBackoffMax) = sinceGrant[i]
    BY <1>1, TimesAssumption DEF SpacedValues, CapAt
  <2>2. CASE SameBackoff(i)
    <3>1. ~Granted(i)
      BY <1>2, <2>2 DEF Granted, SameBackoff
    <3> QED BY <1>1, <1>3, <1>4, <2>1, <2>2, <3>1 DEF SameBackoff
  <2>3. CASE BacksOff(i)
    <3>1. /\ sinceGrant[i] >= due[i]
          /\ SpacedValues(slot'[i].hold, slot'[i].backoff, 0, Doubled(due[i]))
          /\ SpacedValues(slot'[i].hold, slot'[i].backoff, sinceGrant[i], due[i])
      BY <1>1, <1>2, <2>3, GrantSpaces DEF BacksOff
    <3> QED BY <1>3, <1>4, <2>1, <3>1
  <2> QED BY <1>4, <2>2, <2>3, StepBacksOff
<1>5. ASSUME NEW d \in 0..(MaxWait + Lateness), TimerFires(d), Watch(d)
      PROVE  /\ SpacedValues(slot'[i].hold, slot'[i].backoff, sinceGrant'[i], due'[i])
             /\ ~Granted(i)
  <2>1. d \in Nat
    BY TimesAssumption
  <2>2. slot'[i] = Elapse(slot[i], d)
    BY <1>5 DEF TimerFires
  <2>3. /\ slot'[i].hold = (IF slot[i].hold > d THEN slot[i].hold - d ELSE 0)
        /\ slot'[i].backoff = slot[i].backoff /\ slot'[i].restarts = slot[i].restarts
    BY <1>1, <2>2 DEF Elapse, SlotType
  <2>4. ~Granted(i)
    BY <1>2, <2>3 DEF Granted
  <2>5. SpacedValues(slot'[i].hold, slot'[i].backoff,
                     CapAt(sinceGrant[i] + d, EntryBackoffMax), due[i])
    BY <1>1, <1>2, <2>1, <2>3, TimeSpaces
  <2> QED BY <1>3, <1>5, <2>1, <2>4, <2>5
<1> QED BY <1>4, <1>5 DEF HNext

LEMMA NextSpaced == TypeOK /\ Spaced /\ [HNext]_hvars => Spaced'
<1> SUFFICES ASSUME TypeOK, Spaced, [HNext]_hvars PROVE Spaced'
  OBVIOUS
<1>1. CASE HNext
  <2>1. \A i \in Slots :
           SpacedValues(slot'[i].hold, slot'[i].backoff, sinceGrant'[i], due'[i])
    BY <1>1, StepSpaced
  <2> QED BY <1>1, <2>1, WatchType DEF Spaced
<1>2. CASE UNCHANGED hvars
  BY <1>2 DEF hvars, vars, Spaced
<1> QED BY <1>1, <1>2

\* Restarts of an entry that keeps dying come at base, 2 base, 4 base ... or later, for
\* every boot list, every interval and however late the timer is.
THEOREM RestartsAreSpaced == HSpec => GrantsAreSpaced
<1>1. TypeOK /\ Spaced /\ [HNext]_hvars
         => [\A i \in Slots : Granted(i) => sinceGrant[i] >= due[i]]_hvars
  BY StepSpaced
<1>2. HSpec => []TypeOK
  BY HistoryOnlyWatches, TypeCorrect, PTL
<1>3. HSpec => []Spaced
  BY <1>2, InitSpaced, NextSpaced, PTL DEF HSpec
<1> QED BY <1>1, <1>2, <1>3, PTL DEF HSpec, GrantsAreSpaced
===============================================================================
