---------------------------- MODULE TimersProofs ----------------------------
(***************************************************************************)
(* For any number of slots, owners, delays and caps: the types, that the   *)
(* poller has one timer running at most, and that it has one at all unless *)
(* a full ring or another owner's old handle has taken it away.            *)
(*                                                                         *)
(* The argument. A slot that is live belongs to an owner that keeps its    *)
(* handle (OthersKeep, OneSleep). Where a handle is cancelled its slot is  *)
(* free; where there is none to cancel, fewer owners than slots leave one  *)
(* that is not live (AlwaysASlot). A slot that is live is not given away,  *)
(* so a timer of the poller that goes before its time was cancelled by an  *)
(* owner that kept the number of its slot (robbed).                        *)
(***************************************************************************)
EXTENDS Timers, TLAPS, FiniteSetTheorems, WellFoundedInduction

LiveIn(ts, h) == ts[h].st \in {"running", "expired"}

TimerType == [owner : Owners \cup {"none"}, left : 0..LongestMs,
              st : {"empty", "running", "expired", "done"}, every : {0, BaseMs}]
EventType == [kind : {"timer", "key", "message", "hold"}, handle : Slots \cup {NoHandle}]
PollerType == [current : Intervals(BaseMs, MaxMs), ticker : Slots \cup {NoHandle},
               armed : 0..LongestMs]

Owned == \A h \in Slots : Live(h) => timers[h].owner \in Owners
OthersKeep == \A h \in Slots : \A o \in Others :
                  Live(h) /\ timers[h].owner = o => handle[o] = h

Awaited == \/ /\ poller.ticker # NoHandle
              /\ Live(poller.ticker) /\ timers[poller.ticker].owner = Poller
           \/ \E i \in DOMAIN ring : Ours(ring[i])
Wakeful == poller.armed > 0 /\ Cardinality(Others) < MaxTimers =>
               poller.ticker # NoHandle /\ (missed \/ robbed \/ Awaited)

IInv == TypeOK /\ OneSleep /\ Owned /\ OthersKeep /\ Wakeful

-----------------------------------------------------------------------------
\* The slots

\* A set of slots that is not empty has a lowest one.
LEMMA LowestIsIn ==
    ASSUME NEW S \in SUBSET Slots, S # {}
    PROVE  Lowest(S) \in S
<1>1. S \subseteq Nat
  BY SlotsAssumption DEF Slots
<1> DEFINE R == OpToRel(<, Nat)
<1>2. IsWellFoundedOn(R, Nat)
  BY NatLessThanWellFounded
<1>3. \A g, h \in Nat : g < h => <<g, h>> \in R
  BY DEF OpToRel
<1> HIDE DEF R
<1>4. PICK h \in S : \A g \in S : ~(<<g, h>> \in R)
  BY <1>1, <1>2, WFMin
<1>5. h \in Nat
  BY <1>1, <1>4
<1>6. \A g \in S : g \in Nat /\ ~(g < h)
  BY <1>1, <1>3, <1>4, <1>5, Zenon
<1>7. \A g \in S : h <= g
  BY <1>5, <1>6
<1> QED
  BY <1>4, <1>7 DEF Lowest

\* AllocSlot gives an empty slot, one that was left by a timer that has fired, or none.
LEMMA AllocSlotGives ==
    ASSUME NEW ts
    PROVE  /\ AllocSlot(ts) \in Slots \cup {NoHandle}
           /\ AllocSlot(ts) # NoHandle => ts[AllocSlot(ts)].st \in {"empty", "done"}
           /\ (\E h \in Slots : ts[h].st \in {"empty", "done"}) => AllocSlot(ts) \in Slots
<1>1. In(ts, "empty") \in SUBSET Slots /\ In(ts, "done") \in SUBSET Slots
  BY DEF In
<1>2. CASE In(ts, "empty") # {}
  <2>1. AllocSlot(ts) \in In(ts, "empty")
    BY <1>1, <1>2, LowestIsIn DEF AllocSlot
  <2> QED
    BY <2>1 DEF In
<1>3. CASE In(ts, "empty") = {} /\ In(ts, "done") # {}
  <2>1. AllocSlot(ts) \in In(ts, "done")
    BY <1>1, <1>3, LowestIsIn DEF AllocSlot
  <2> QED
    BY <2>1 DEF In
<1>4. CASE In(ts, "empty") = {} /\ In(ts, "done") = {}
  BY <1>4 DEF AllocSlot, In
<1> QED
  BY <1>2, <1>3, <1>4

\* Where fewer owners than there are slots have one live timer each, a slot is left.
LEMMA AlwaysASlot ==
    ASSUME NEW ts \in [Slots -> TimerType], Cardinality(Others) < MaxTimers,
           \A h \in Slots : LiveIn(ts, h) =>
               ts[h].owner \in Others /\ handle[ts[h].owner] = h
    PROVE  AllocSlot(ts) \in Slots
<1>1. SUFFICES ASSUME \A h \in Slots : ts[h].st \notin {"empty", "done"} PROVE FALSE
  BY AllocSlotGives
<1>2. \A h \in Slots : LiveIn(ts, h)
  BY <1>1 DEF LiveIn, TimerType
<1> DEFINE f == [h \in Slots |-> ts[h].owner]
<1>3. f \in [Slots -> Others]
  BY <1>2
<1>4. IsFiniteSet(Slots) /\ Cardinality(Slots) = MaxTimers
  <2>1. 0 \in Int /\ MaxTimers - 1 \in Int /\ ~(0 > MaxTimers - 1)
    BY SlotsAssumption
  <2>2. IsFiniteSet(0..(MaxTimers - 1)) /\ Cardinality(0..(MaxTimers - 1)) = MaxTimers - 1 - 0 + 1
    BY <2>1, FS_Interval
  <2> QED
    BY <2>2, SlotsAssumption DEF Slots
<1> HIDE DEF f
<1>5. PICK g, h \in Slots : g # h /\ f[g] = f[h]
  BY <1>3, <1>4, FS_PigeonHole, OthersAssumption
<1>6. handle[ts[g].owner] = g /\ handle[ts[h].owner] = h /\ ts[g].owner = ts[h].owner
  BY <1>2, <1>5 DEF f
<1> QED
  BY <1>5, <1>6
-----------------------------------------------------------------------------
\* The poller

\* A Backoff's interval never leaves BaseMs..MaxMs, and what it arms is never longer than
\* LongestMs.
LEMMA IntervalsStay ==
    ASSUME NEW current \in Intervals(BaseMs, MaxMs), NEW jitter \in 0..Jitter
    PROVE  /\ current \in 0..LongestMs /\ MaxMs \in 0..LongestMs
           /\ AfterTick(current, BaseMs, MaxMs) \in Intervals(BaseMs, MaxMs)
           /\ AfterReset(BaseMs, MaxMs) \in Intervals(BaseMs, MaxMs)
           /\ AfterHold(MaxMs) \in Intervals(BaseMs, MaxMs)
           /\ ResetDelay(BaseMs, jitter) \in 0..LongestMs
<1>1. jitter \in Int /\ 0 <= jitter /\ (jitter > 0 => jitter < JitterMs)
  BY BackoffAssumption DEF Jitter
<1> QED
  BY <1>1, BackoffAssumption
  DEF Intervals, AfterTick, AfterReset, AfterHold, ResetDelay, Clamp, LongestMs

\* What arm leaves: one timer, in a slot that was not live, that the poller has the handle of.
LEMMA ArmKeeps ==
    ASSUME IInv, NEW delay \in 0..LongestMs, NEW current \in Intervals(BaseMs, MaxMs),
           Arm(delay, current), UNCHANGED handle
    PROVE  /\ timers' \in [Slots -> TimerType] /\ poller' \in PollerType /\ missed' \in BOOLEAN /\ robbed' \in BOOLEAN
           /\ OneSleep' /\ Owned' /\ OthersKeep' /\ Wakeful'
<1> DEFINE ts == Cancelled(timers, poller.ticker)
           free == AllocSlot(ts)
           mine == Timer(Poller, delay, 0)
<1>1. timers \in [Slots -> TimerType] /\ poller \in PollerType
  BY DEF IInv, TypeOK, TimerType, PollerType
<1>2. Empty \in TimerType /\ mine \in TimerType /\ Empty.st = "empty"
      /\ mine.owner = Poller /\ mine.st = "running"
  BY BackoffAssumption DEF Empty, Timer, TimerType, Owners, LongestMs
<1>3. /\ ts \in [Slots -> TimerType]
      /\ \A h \in Slots : ts[h] = IF h = poller.ticker THEN Empty ELSE timers[h]
  BY <1>1, <1>2 DEF Cancelled, PollerType, Slots, NoHandle
<1>4. \A h \in Slots : LiveIn(ts, h) => /\ Live(h) /\ ts[h] = timers[h]
                                        /\ h # poller.ticker
  BY <1>2, <1>3 DEF LiveIn, Live
<1>5. \A h \in Slots : LiveIn(ts, h) =>
          ts[h].owner \in Others /\ handle[ts[h].owner] = h
  BY <1>4 DEF IInv, OneSleep, Owned, OthersKeep, Owners
<1>6. free \in Slots \cup {NoHandle}
  BY AllocSlotGives
<1>7. /\ timers' = IF free = NoHandle THEN ts ELSE [ts EXCEPT ![free] = mine]
      /\ poller' = [current |-> current, ticker |-> free, armed |-> delay]
      /\ missed' = FALSE /\ robbed' = FALSE
  BY DEF Arm, Started
<1> HIDE DEF ts, free, mine
<1>9. NoHandle \notin Slots
  BY SlotsAssumption DEF Slots, NoHandle
<1>10. \A h \in Slots : timers'[h] = IF h = free THEN mine ELSE ts[h]
  BY <1>3, <1>6, <1>7, <1>9
<1>11. timers' \in [Slots -> TimerType] /\ poller' \in PollerType /\ missed' \in BOOLEAN /\ robbed' \in BOOLEAN
  BY <1>2, <1>3, <1>6, <1>7 DEF PollerType
<1>12. poller'.ticker = free /\ poller'.armed = delay
  BY <1>7
<1>13. \A h \in Slots : Live(h)' => h = free \/ LiveIn(ts, h)
  BY <1>10 DEF Live, LiveIn
<1>14. OneSleep'
  BY <1>5, <1>10, <1>12, <1>13, OthersAssumption DEF OneSleep
<1>15. Owned'
  BY <1>2, <1>5, <1>10, <1>13 DEF Owned, Owners
<1>16. OthersKeep'
  BY <1>2, <1>5, <1>10, <1>13, OthersAssumption DEF OthersKeep
<1>17. Wakeful'
  <2>1. SUFFICES ASSUME Cardinality(Others) < MaxTimers
                 PROVE  poller'.ticker # NoHandle /\ Awaited'
    BY DEF Wakeful
  <2>2. free \in Slots
    BY <1>3, <1>5, <2>1, AlwaysASlot DEF free
  <2>3. free # NoHandle
    BY <2>2 DEF Slots, NoHandle
  <2> QED
    BY <1>2, <1>10, <1>12, <2>2, <2>3 DEF Awaited, Live
<1> QED
  BY <1>11, <1>14, <1>15, <1>16, <1>17

\* A step that leaves the slots, the poller and the handles alone, and loses none of the
\* events of the poller's timer.
Untouched == UNCHANGED <<timers, poller, handle, missed, robbed>>
LEMMA UntouchedKeeps ==
    ASSUME IInv, Untouched,
           (\E i \in DOMAIN ring : Ours(ring[i])) => (\E i \in DOMAIN ring' : Ours(ring'[i]))
    PROVE  OneSleep' /\ Owned' /\ OthersKeep' /\ Wakeful'
<1>1. /\ timers' = timers /\ poller' = poller /\ handle' = handle
      /\ missed' = missed /\ robbed' = robbed
  BY DEF Untouched
<1>2. OneSleep' /\ Owned' /\ OthersKeep'
  BY <1>1 DEF IInv, OneSleep, Owned, OthersKeep, Live
<1>3. (\E i \in DOMAIN ring : Ours(ring[i])) => (\E i \in DOMAIN ring' : Ours(ring[i])')
  BY <1>1 DEF Ours
<1>4. Awaited => Awaited'
  BY <1>1, <1>3 DEF Awaited, Live
<1>5. Wakeful'
  BY <1>1, <1>4 DEF IInv, Wakeful
<1> QED
  BY <1>2, <1>5

LEMMA Initially == Init => IInv
<1> SUFFICES ASSUME Init PROVE IInv
  OBVIOUS
<1>1. \A h \in Slots : timers[h] = Empty /\ timers[h].st = "empty"
  BY DEF Init, Empty
<1>2. Empty \in TimerType
  BY BackoffAssumption DEF Empty, TimerType, LongestMs
<1>3. TypeOK
  <2>1. timers \in [Slots -> TimerType]
    BY <1>2 DEF Init
  <2>2. poller \in PollerType
    BY BackoffAssumption DEF Init, PollerType, Intervals, LongestMs
  <2>3. ring \in Seq(EventType) /\ Len(ring) <= Capacity
    BY CapacityAssumption DEF Init
  <2>4. /\ gui \in {"scheduler", "step"} /\ held \in BOOLEAN /\ missed \in BOOLEAN /\ robbed \in BOOLEAN
        /\ handle \in [Others -> Slots \cup {NoHandle}]
        /\ answer \in {"none", "quiet", "tick", "later", "message"}
    BY DEF Init
  <2> QED
    BY <2>1, <2>2, <2>3, <2>4 DEF TypeOK, TimerType, PollerType, EventType
<1>4. OneSleep /\ Owned /\ OthersKeep
  BY <1>1 DEF OneSleep, Owned, OthersKeep, Live
<1>5. Wakeful
  BY DEF Init, Wakeful
<1> QED
  BY <1>3, <1>4, <1>5 DEF IInv

LEMMA StartKeeps == ASSUME IInv, Start PROVE IInv'
<1>1. poller.current \in Intervals(BaseMs, MaxMs)
  BY DEF IInv, TypeOK
<1>2. 0 \in 0..Jitter
  BY BackoffAssumption DEF Jitter
<1>3. /\ poller.current \in 0..LongestMs
      /\ AfterTick(poller.current, BaseMs, MaxMs) \in Intervals(BaseMs, MaxMs)
  BY <1>1, <1>2, IntervalsStay
<1>4. /\ timers' \in [Slots -> TimerType] /\ poller' \in PollerType /\ missed' \in BOOLEAN /\ robbed' \in BOOLEAN
      /\ OneSleep' /\ Owned' /\ OthersKeep' /\ Wakeful'
  BY <1>3, ArmKeeps DEF Start
<1> QED
  BY <1>4 DEF IInv, TypeOK, Start, TimerType, PollerType

LEMMA CapNextKeeps == ASSUME IInv, NEW ms \in Caps, CapNext(ms) PROVE IInv'
<1> DEFINE wait == IF ms < 1 THEN 1 ELSE ms
<1>1. poller.current \in Intervals(BaseMs, MaxMs) /\ poller.armed \in 0..LongestMs
  BY DEF IInv, TypeOK
<1>2. wait < poller.armed /\ Arm(wait, poller.current) /\ UNCHANGED <<ring, gui, handle, held, answer>>
  BY DEF CapNext
<1>3. wait \in 0..LongestMs
  BY <1>1, <1>2, SlotsAssumption, BackoffAssumption DEF LongestMs
<1> HIDE DEF wait
<1>4. /\ timers' \in [Slots -> TimerType] /\ poller' \in PollerType /\ missed' \in BOOLEAN /\ robbed' \in BOOLEAN
      /\ OneSleep' /\ Owned' /\ OthersKeep' /\ Wakeful'
  BY <1>1, <1>2, <1>3, ArmKeeps
<1> QED
  BY <1>2, <1>4 DEF IInv, TypeOK, TimerType, PollerType

\* The head of the ring goes; what stays of it keeps its type.
LEMMA TailIsRing ==
    ASSUME IInv, ring # <<>>, ring' = Tail(ring)
    PROVE  /\ ring' \in Seq(EventType) /\ Len(ring') <= Capacity
           /\ Head(ring) \in EventType
           /\ \A i \in DOMAIN ring : i = 1 \/ (i - 1 \in DOMAIN ring' /\ ring'[i - 1] = ring[i])
           /\ ring[1] = Head(ring)
<1>1. ring \in Seq(EventType) /\ Len(ring) <= Capacity
  BY DEF IInv, TypeOK, EventType
<1> QED
  BY <1>1, CapacityAssumption

LEMMA PollKeeps == ASSUME IInv, Poll PROVE IInv'
<1> DEFINE e == Head(ring)
<1>1. /\ ring # <<>> /\ ring' = Tail(ring) /\ UNCHANGED <<gui, handle, held>>
      /\ \/ \E jitter \in 0..Jitter : Polled(e, jitter)
         \/ ~Ours(e) /\ answer' = "none" /\ UNCHANGED <<timers, poller, missed, robbed>>
  BY DEF Poll
<1>2. /\ ring' \in Seq(EventType) /\ Len(ring') <= Capacity
      /\ \A i \in DOMAIN ring : i = 1 \/ (i - 1 \in DOMAIN ring' /\ ring'[i - 1] = ring[i])
      /\ ring[1] = e
  BY <1>1, TailIsRing
<1> HIDE DEF e
<1>3. poller.current \in Intervals(BaseMs, MaxMs)
  BY DEF IInv, TypeOK
<1>4. CASE \E jitter \in 0..Jitter : Polled(e, jitter)
  <2>1. PICK jitter \in 0..Jitter : Polled(e, jitter)
    BY <1>4
  <2>2. \E delay \in 0..LongestMs : \E current \in Intervals(BaseMs, MaxMs) : Arm(delay, current)
    BY <1>3, <2>1, IntervalsStay DEF Polled
  <2>3. answer' \in {"none", "quiet", "tick", "later", "message"}
    BY <2>1 DEF Polled
  <2>4. /\ timers' \in [Slots -> TimerType] /\ poller' \in PollerType /\ missed' \in BOOLEAN /\ robbed' \in BOOLEAN
        /\ OneSleep' /\ Owned' /\ OthersKeep' /\ Wakeful'
    BY <1>1, <2>2, ArmKeeps
  <2> QED
    BY <1>1, <1>2, <2>3, <2>4 DEF IInv, TypeOK, TimerType, PollerType, EventType
<1>5. CASE ~Ours(e) /\ answer' = "none" /\ UNCHANGED <<timers, poller, missed, robbed>>
  <2>1. Untouched
    BY <1>1, <1>5 DEF Untouched
  <2>2. (\E i \in DOMAIN ring : Ours(ring[i])) => (\E i \in DOMAIN ring' : Ours(ring'[i]))
    <3>1. SUFFICES ASSUME NEW i \in DOMAIN ring, Ours(ring[i])
                   PROVE  \E j \in DOMAIN ring' : Ours(ring'[j])
      OBVIOUS
    <3>2. i # 1
      BY <1>2, <1>5, <3>1
    <3> QED
      BY <1>2, <3>1, <3>2
  <2>3. OneSleep' /\ Owned' /\ OthersKeep' /\ Wakeful'
    BY <2>1, <2>2, UntouchedKeeps
  <2> QED
    BY <1>1, <1>2, <1>5, <2>3 DEF IInv, TypeOK, TimerType, PollerType, EventType
<1> QED
  BY <1>1, <1>4, <1>5

\* A push keeps what is in the ring, or drops the newest.
LEMMA PushedIsRing ==
    ASSUME IInv, NEW e \in EventType, ring' = Pushed(ring, e)
    PROVE  /\ ring' \in Seq(EventType) /\ Len(ring') <= Capacity
           /\ \A i \in DOMAIN ring : i \in DOMAIN ring' /\ ring'[i] = ring[i]
           /\ Fits(ring) => \E i \in DOMAIN ring' : ring'[i] = e
<1>1. ring \in Seq(EventType) /\ Len(ring) <= Capacity
  BY DEF IInv, TypeOK, EventType
<1>2. CASE Fits(ring)
  <2>1. ring' = Append(ring, e) /\ Len(ring) < Capacity
    BY <1>2 DEF Pushed, Fits
  <2>2. ring'[Len(ring) + 1] = e /\ Len(ring) + 1 \in DOMAIN ring'
    BY <1>1, <2>1
  <2> QED
    BY <1>1, <2>1, <2>2, CapacityAssumption
<1>3. CASE ~Fits(ring)
  BY <1>1, <1>3 DEF Pushed
<1> QED
  BY <1>2, <1>3
-----------------------------------------------------------------------------
\* The other owners

LEMMA OtherStartsKeeps ==
    ASSUME IInv, NEW o \in Others, NEW every \in {0, BaseMs}, OtherStarts(o, BaseMs, every)
    PROVE  IInv'
<1> DEFINE free == AllocSlot(timers)
           mine == Timer(o, BaseMs, every)
<1>1. timers \in [Slots -> TimerType] /\ handle \in [Others -> Slots \cup {NoHandle}]
  BY DEF IInv, TypeOK, TimerType
<1>2. mine \in TimerType /\ mine.owner = o /\ mine.st = "running"
  BY BackoffAssumption DEF Timer, TimerType, Owners, LongestMs
<1>3. /\ free \in Slots \cup {NoHandle}
      /\ free # NoHandle => timers[free].st \in {"empty", "done"}
  BY AllocSlotGives
<1>4. /\ timers' = IF free = NoHandle THEN timers ELSE [timers EXCEPT ![free] = mine]
      /\ handle' = [handle EXCEPT ![o] = free]
      /\ handle[o] = NoHandle
      /\ UNCHANGED <<ring, gui, poller, held, answer, missed, robbed>>
  BY DEF OtherStarts, Started
<1> HIDE DEF free, mine
<1>6. NoHandle \notin Slots
  BY SlotsAssumption DEF Slots, NoHandle
<1>7. \A h \in Slots : timers'[h] = IF h = free THEN mine ELSE timers[h]
  BY <1>1, <1>3, <1>4, <1>6
<1>8. \A p \in Others : handle'[p] = IF p = o THEN free ELSE handle[p]
  BY <1>1, <1>4
<1>9. TypeOK'
  <2>1. timers' \in [Slots -> TimerType]
    BY <1>1, <1>2, <1>3, <1>4
  <2>2. handle' \in [Others -> Slots \cup {NoHandle}]
    BY <1>1, <1>3, <1>4
  <2> QED
    BY <1>4, <2>1, <2>2 DEF IInv, TypeOK, TimerType
<1>10. \A h \in Slots : Live(h)' => h = free \/ (Live(h) /\ timers'[h] = timers[h])
  BY <1>7 DEF Live
<1>11. OneSleep'
  BY <1>2, <1>4, <1>7, <1>10, OthersAssumption DEF IInv, OneSleep
<1>12. Owned'
  BY <1>2, <1>7, <1>10 DEF IInv, Owned, Owners
<1>13. OthersKeep'
  BY <1>2, <1>4, <1>6, <1>7, <1>8, <1>10 DEF IInv, OthersKeep
<1>14. Awaited => Awaited'
  <2>1. ASSUME poller.ticker # NoHandle, Live(poller.ticker), timers[poller.ticker].owner = Poller
        PROVE  Live(poller.ticker)' /\ timers'[poller.ticker].owner = Poller
    <3>1. poller.ticker \in Slots /\ poller.ticker # free
      BY <1>3, <2>1 DEF IInv, TypeOK, Live
    <3> QED
      BY <1>4, <1>7, <2>1, <3>1 DEF Live
  <2> QED
    BY <1>4, <2>1 DEF Awaited, Ours, Live
<1>15. Wakeful'
  BY <1>4, <1>14 DEF IInv, Wakeful
<1> QED
  BY <1>9, <1>11, <1>12, <1>13, <1>15 DEF IInv

\* Where the handle is that of the poller's live timer, the poller is robbed; where it is not,
\* that timer stays.
LEMMA OtherCancelsKeeps == ASSUME IInv, NEW o \in Others, OtherCancels(o) PROVE IInv'
<1>1. timers \in [Slots -> TimerType] /\ handle \in [Others -> Slots \cup {NoHandle}]
  BY DEF IInv, TypeOK, TimerType
<1>2. Empty \in TimerType /\ Empty.st = "empty"
  BY BackoffAssumption DEF Empty, TimerType, LongestMs
<1>3. /\ handle[o] \in Slots
      /\ timers' = [timers EXCEPT ![handle[o]] = Empty]
      /\ handle' = [handle EXCEPT ![o] = NoHandle]
      /\ robbed' = (robbed \/ (Live(handle[o]) /\ timers[handle[o]].owner = Poller))
      /\ UNCHANGED <<ring, gui, poller, held, answer, missed>>
  BY <1>1 DEF OtherCancels, Cancelled
<1>4. \A h \in Slots : timers'[h] = IF h = handle[o] THEN Empty ELSE timers[h]
  BY <1>1, <1>3
<1>5. \A p \in Others : handle'[p] = IF p = o THEN NoHandle ELSE handle[p]
  BY <1>1, <1>3
<1>6. TypeOK'
  <2>1. timers' \in [Slots -> TimerType] /\ handle' \in [Others -> Slots \cup {NoHandle}]
    BY <1>1, <1>2, <1>3
  <2>2. robbed' \in BOOLEAN
    BY <1>3 DEF IInv, TypeOK
  <2> QED
    BY <1>3, <2>1, <2>2 DEF IInv, TypeOK, TimerType
<1>7. \A h \in Slots : Live(h)' => h # handle[o] /\ Live(h) /\ timers'[h] = timers[h]
  BY <1>2, <1>4 DEF Live
<1>8. OneSleep' /\ Owned'
  BY <1>3, <1>7 DEF IInv, OneSleep, Owned
<1>9. OthersKeep'
  BY <1>5, <1>7 DEF IInv, OthersKeep
<1>10. Awaited => robbed' \/ Awaited'
  <2>1. ASSUME poller.ticker # NoHandle, Live(poller.ticker),
               timers[poller.ticker].owner = Poller, handle[o] # poller.ticker
        PROVE  Live(poller.ticker)' /\ timers'[poller.ticker].owner = Poller
    <3>1. poller.ticker \in Slots
      BY <2>1 DEF IInv, TypeOK
    <3> QED
      BY <1>3, <1>4, <2>1, <3>1 DEF Live
  <2> QED
    BY <1>3, <2>1 DEF Awaited, Ours, Live
<1>11. Wakeful'
  BY <1>3, <1>10 DEF IInv, Wakeful
<1> QED
  BY <1>6, <1>8, <1>9, <1>11 DEF IInv

\* Only the handle of a timer that is no longer live is forgotten.
LEMMA OtherForgetsKeeps == ASSUME IInv, NEW o \in Others, OtherForgets(o) PROVE IInv'
<1>1. /\ handle \in [Others -> Slots \cup {NoHandle}]
      /\ ~Live(handle[o])
      /\ handle' = [handle EXCEPT ![o] = NoHandle]
      /\ UNCHANGED <<timers, ring, gui, poller, held, answer, missed, robbed>>
  BY DEF IInv, TypeOK, OtherForgets, Live
<1>2. \A p \in Others : handle'[p] = IF p = o THEN NoHandle ELSE handle[p]
  BY <1>1
<1>3. TypeOK'
  BY <1>1 DEF IInv, TypeOK
<1>4. OneSleep' /\ Owned' /\ Wakeful'
  BY <1>1 DEF IInv, OneSleep, Owned, Wakeful, Awaited, Ours, Live
<1>5. OthersKeep'
  BY <1>1, <1>2 DEF IInv, OthersKeep, Live
<1> QED
  BY <1>3, <1>4, <1>5 DEF IInv
-----------------------------------------------------------------------------
\* The GUI thread and time

LEMMA StepTurns == ASSUME IInv, StepBegins \/ StepEnds PROVE IInv'
<1>1. TypeOK'
  BY DEF IInv, TypeOK, StepBegins, StepEnds
<1>2. Untouched /\ ring' = ring
  BY DEF Untouched, StepBegins, StepEnds
<1> QED
  BY <1>1, <1>2, UntouchedKeeps DEF IInv

LEMMA PropRunLKeeps ==
    ASSUME IInv, NEW kind \in {"key", "message", "hold"}, PropRunL(kind)
    PROVE  IInv'
<1> DEFINE e == [kind |-> kind, handle |-> NoHandle]
<1>1. e \in EventType
  BY DEF EventType
<1>2. /\ ring' = Pushed(ring, e)
      /\ held' \in BOOLEAN
      /\ UNCHANGED <<timers, gui, poller, handle, answer, missed, robbed>>
  BY DEF PropRunL, IInv, TypeOK
<1> HIDE DEF e
<1>3. /\ ring' \in Seq(EventType) /\ Len(ring') <= Capacity
      /\ \A i \in DOMAIN ring : i \in DOMAIN ring' /\ ring'[i] = ring[i]
  BY <1>1, <1>2, PushedIsRing
<1>4. TypeOK'
  BY <1>2, <1>3 DEF IInv, TypeOK, EventType
<1>5. OneSleep' /\ Owned' /\ OthersKeep' /\ Wakeful'
  BY <1>2, <1>3, UntouchedKeeps DEF Untouched
<1> QED
  BY <1>4, <1>5 DEF IInv

\* A repeating timer stays live; the event of one that is done is in the ring, or missed.
LEMMA RunLKeeps == ASSUME IInv, NEW h \in Slots, RunL(h) PROVE IInv'
<1> DEFINE e == [kind |-> "timer", handle |-> h]
<1>1. timers \in [Slots -> TimerType] /\ e \in EventType
  BY DEF IInv, TypeOK, TimerType, EventType
<1>2. /\ timers[h].st = "expired"
      /\ ring' = Pushed(ring, e)
      /\ missed' = (missed \/ (timers[h].owner = Poller /\ ~Fits(ring)))
      /\ UNCHANGED <<gui, poller, handle, held, answer, robbed>>
  BY DEF RunL
<1>3. \E t \in TimerType :
         /\ timers' = [timers EXCEPT ![h] = t]
         /\ t.owner = timers[h].owner
         /\ t.st \in {"running", "done"}
  <2>1. CASE timers[h].every > 0
    <3> DEFINE t == Timer(timers[h].owner, timers[h].every, timers[h].every)
    <3>1. timers' = [timers EXCEPT ![h] = t]
      BY <2>1 DEF RunL
    <3>2. timers[h].every \in 0..LongestMs /\ timers[h].every \in {0, BaseMs}
          /\ timers[h].owner \in Owners \cup {"none"}
      BY <1>1, BackoffAssumption DEF TimerType, LongestMs
    <3>3. t \in TimerType /\ t.owner = timers[h].owner /\ t.st = "running"
      BY <3>2 DEF Timer, TimerType
    <3> QED
      BY <3>1, <3>3
  <2>2. CASE ~(timers[h].every > 0)
    <3> DEFINE t == [timers[h] EXCEPT !.st = "done"]
    <3>1. timers' = [timers EXCEPT ![h] = t]
      BY <2>2 DEF RunL
    <3>2. t \in TimerType /\ t.owner = timers[h].owner /\ t.st = "done"
      BY <1>1 DEF TimerType
    <3> QED
      BY <3>1, <3>2
  <2> QED
    BY <2>1, <2>2
<1> HIDE DEF e
<1>4. PICK t \in TimerType : /\ timers' = [timers EXCEPT ![h] = t]
                             /\ t.owner = timers[h].owner
  BY <1>3
<1>5. /\ timers' \in [Slots -> TimerType]
      /\ \A g \in Slots : timers'[g].owner = timers[g].owner /\ (g # h => timers'[g] = timers[g])
  BY <1>1, <1>4
<1>6. \A g \in Slots : Live(g)' => Live(g)
  BY <1>2, <1>5 DEF Live
<1>7. /\ ring' \in Seq(EventType) /\ Len(ring') <= Capacity
      /\ \A i \in DOMAIN ring : i \in DOMAIN ring' /\ ring'[i] = ring[i]
      /\ Fits(ring) => \E i \in DOMAIN ring' : ring'[i] = e
  BY <1>1, <1>2, PushedIsRing
<1>8. missed' \in BOOLEAN
  BY <1>2 DEF IInv, TypeOK
<1>9. TypeOK'
  BY <1>2, <1>5, <1>7, <1>8 DEF IInv, TypeOK, TimerType, EventType
<1>10. OneSleep' /\ Owned'
  BY <1>2, <1>5, <1>6 DEF IInv, OneSleep, Owned
<1>11. OthersKeep'
  BY <1>2, <1>5, <1>6 DEF IInv, OthersKeep
<1>12. poller.ticker # NoHandle /\ Awaited => missed' \/ Awaited'
  <2>1. CASE poller.ticker = h /\ ~Fits(ring)
    <3>1. (\E i \in DOMAIN ring : Ours(ring[i])) => (\E i \in DOMAIN ring' : Ours(ring[i])')
      BY <1>2, <1>7 DEF Ours
    <3> QED
      BY <1>2, <1>7, <2>1, <3>1 DEF Awaited
  <2>2. CASE poller.ticker = h /\ Fits(ring)
    <3>1. PICK i \in DOMAIN ring' : ring'[i] = e
      BY <1>7, <2>2
    <3>2. e.kind = "timer" /\ e.handle = poller'.ticker
      BY <1>2, <2>2 DEF e
    <3> QED
      BY <3>1, <3>2 DEF Awaited, Ours
  <2>3. CASE poller.ticker # h
    <3>1. ASSUME poller.ticker # NoHandle, Live(poller.ticker),
                 timers[poller.ticker].owner = Poller
          PROVE  Live(poller.ticker)' /\ timers'[poller.ticker].owner = Poller
      <4>1. poller.ticker \in Slots
        BY <3>1 DEF IInv, TypeOK
      <4> QED
        BY <1>2, <1>5, <2>3, <3>1, <4>1 DEF Live
    <3>2. (\E i \in DOMAIN ring : Ours(ring[i])) => (\E i \in DOMAIN ring' : Ours(ring[i])')
      BY <1>2, <1>7 DEF Ours
    <3> QED
      BY <1>2, <3>1, <3>2 DEF Awaited, Live
  <2> QED
    BY <2>1, <2>2, <2>3
<1>13. Wakeful'
  BY <1>2, <1>12 DEF IInv, Wakeful
<1> QED
  BY <1>9, <1>10, <1>11, <1>13 DEF IInv

\* A timer that runs goes on running, or expires, in the slot and of the owner it had.
LEMMA ElapsesKeeps == ASSUME IInv, Elapses PROVE IInv'
<1>1. timers \in [Slots -> TimerType]
  BY DEF IInv, TypeOK, TimerType
<1>2. UNCHANGED <<ring, gui, poller, handle, held, answer, missed, robbed>>
  BY DEF Elapses
<1>3. /\ timers' \in [Slots -> TimerType]
      /\ \A h \in Slots : timers'[h].owner = timers[h].owner /\ (Live(h)' <=> Live(h))
  <2> DEFINE Aged(t) == IF t.st # "running" THEN t
                        ELSE IF t.left > 1 THEN [t EXCEPT !.left = @ - 1]
                        ELSE [t EXCEPT !.st = "expired", !.left = 0]
  <2>1. ASSUME NEW t \in TimerType
        PROVE  /\ Aged(t) \in TimerType /\ Aged(t).owner = t.owner
               /\ Aged(t).st \in {"running", "expired"} <=> t.st \in {"running", "expired"}
    <3>1. t.left \in Int /\ 0 <= t.left /\ t.left <= LongestMs /\ LongestMs \in Nat
      BY BackoffAssumption DEF TimerType, LongestMs
    <3>2. CASE t.st # "running"
      BY <3>2
    <3>3. CASE t.st = "running" /\ t.left > 1
      <4>1. t.left - 1 \in 0..LongestMs /\ Aged(t) = [t EXCEPT !.left = t.left - 1]
        BY <3>1, <3>3
      <4> QED
        BY <3>3, <4>1 DEF TimerType
    <3>4. CASE t.st = "running" /\ ~(t.left > 1)
      <4>1. 0 \in 0..LongestMs /\ Aged(t) = [t EXCEPT !.st = "expired", !.left = 0]
        BY <3>1, <3>4
      <4> QED
        BY <3>4, <4>1 DEF TimerType
    <3> QED
      BY <3>2, <3>3, <3>4
  <2>2. timers' = [h \in Slots |-> Aged(timers[h])]
    BY DEF Elapses
  <2> HIDE DEF Aged
  <2> QED
    BY <1>1, <2>1, <2>2 DEF Live
<1>4. TypeOK'
  BY <1>2, <1>3 DEF IInv, TypeOK, TimerType
<1>5. OneSleep' /\ Owned' /\ OthersKeep'
  BY <1>2, <1>3 DEF IInv, OneSleep, Owned, OthersKeep
<1>6. Awaited => Awaited'
  BY <1>2, <1>3 DEF IInv, TypeOK, Awaited, Ours
<1>7. Wakeful'
  BY <1>2, <1>6 DEF IInv, Wakeful
<1> QED
  BY <1>4, <1>5, <1>7 DEF IInv
-----------------------------------------------------------------------------
LEMMA NextKeeps == IInv /\ [Next]_vars => IInv'
<1> SUFFICES ASSUME IInv, [Next]_vars PROVE IInv'
  OBVIOUS
<1>1. ASSUME NEW h \in Slots, RunL(h) PROVE IInv'
  BY <1>1, RunLKeeps
<1>2. CASE StepBegins \/ StepEnds
  BY <1>2, StepTurns
<1>3. CASE Poll
  BY <1>3, PollKeeps
<1>4. CASE Start
  BY <1>4, StartKeeps
<1>5. ASSUME NEW ms \in Caps, CapNext(ms) PROVE IInv'
  BY <1>5, CapNextKeeps
<1>6. ASSUME NEW o \in Others, NEW every \in {0, BaseMs}, OtherStarts(o, BaseMs, every)
      PROVE  IInv'
  BY <1>6, OtherStartsKeeps
<1>7. ASSUME NEW o \in Others, OtherCancels(o) \/ OtherForgets(o) PROVE IInv'
  BY <1>7, OtherCancelsKeeps, OtherForgetsKeeps
<1>8. ASSUME NEW kind \in {"key", "message", "hold"}, PropRunL(kind) PROVE IInv'
  BY <1>8, PropRunLKeeps
<1>9. CASE Elapses
  BY <1>9, ElapsesKeeps
<1>10. CASE UNCHANGED vars
  <2>1. TypeOK'
    BY <1>10 DEF vars, IInv, TypeOK
  <2>2. Untouched /\ ring' = ring
    BY <1>10 DEF vars, Untouched
  <2> QED
    BY <2>1, <2>2, UntouchedKeeps DEF IInv
<1> QED
  BY <1>1, <1>2, <1>3, <1>4, <1>5, <1>6, <1>7, <1>8, <1>9, <1>10 DEF Next, Gui

LEMMA Invariance == Spec => []IInv
  BY Initially, NextKeeps, PTL DEF Spec

\* Whatever is armed, cancelled, reaped and forgotten, what is armed stays within the
\* cadence and the ring within its capacity.
THEOREM TypeHolds == Spec => []TypeOK
<1>1. IInv => TypeOK
  BY DEF IInv
<1> QED
  BY <1>1, Invariance, PTL

\* One timer of the poller runs at most, however often arm cancels and starts.
THEOREM SleepsOnce == Spec => []OneSleep
<1>1. IInv => OneSleep
  BY DEF IInv
<1> QED
  BY <1>1, Invariance, PTL

\* A poller that has started has a wake-up ahead of it, where there are more slots than
\* other owners: its timer runs, or its event is in the ring. Otherwise a full ring dropped
\* that event, or another owner cancelled the timer by the old number of its slot.
THEOREM AsleepHolds == Spec => []Asleep
<1>1. IInv => Asleep
  BY DEF IInv, Wakeful, Awaited, Asleep
<1> QED
  BY <1>1, Invariance, PTL
=============================================================================
