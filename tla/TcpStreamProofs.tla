-------------------------- MODULE TcpStreamProofs --------------------------
(***************************************************************************)
(* Proofs about TcpStream, for any numbers of streams, slots and bytes and *)
(* any capacities: its types, its safety invariants, and that it           *)
(* implements ByteStream. Nothing is assumed of the application.           *)
(*                                                                         *)
(* The argument. A slot in use and the stream it belongs to know each      *)
(* other (Tied); that is all the types need. What a stream keeps of a      *)
(* direction, the active object of its socket, its events in the ring and  *)
(* what the ring has dropped are tied together by one predicate a          *)
(* direction (Rx, Tx). Each says that one request at most is out, and      *)
(* where the bytes of the stream are while it is. A stream may leave       *)
(* events behind when it closes, and the next owner of its slot takes them *)
(* for its own: it is misled then, and Rx and Tx are of the others (Safe). *)
(* They stay true because an event of a sound stream still names its slot  *)
(* (Mine), so no other stream can take it, and because no step disturbs    *)
(* the streams whose it is not (Alone, Apart). Whether a stream asks as    *)
(* soon as it may (Asking) is a matter of the stream alone: every handler  *)
(* ends in a pump.                                                         *)
(***************************************************************************)
EXTENDS TcpStream, TLAPS, SequenceTheorems

Numbers == 0..(RxCap + TxCap)
StreamType == [handle : Slots \cup {NoHandle}, state : States,
               rx : Seq(Nat), rxPending : BOOLEAN, land : [1..RxCap -> Nat],
               tx : Seq(Nat), txPending : 0..TxCap]
SocketType == [owner : Streams \cup {NoStream}, ctl : AO, recv : AO, send : AO]

\* bytes that arrived and are not yet in rx, of a stream of which the server has handed
\* over tk and the application has read rd
Unread(s, tk, rd) == tk - Len(rd) - Len(s.rx)
Came(s, a, tk, rd) ==
    /\ a.n = Unread(s, tk, rd) /\ a.n <= Free(s)
    /\ a.status # "ok" => a.n = 0
    /\ \A i \in 1..a.n : s.land[i] = tk - a.n + i

\* Receiving: E is the events in the ring, d whether one was dropped
Rx(s, ao, E, d, tk, rd) ==
    /\ s.rxPending <=> IsActive(ao) \/ E # {} \/ d
    /\ IsActive(ao) \/ d => E = {}
    /\ IsActive(ao) => ~d
    /\ ao.st = "pending" => ao.n <= Free(s)
    /\ \A a \in E : Came(s, a, tk, rd)
    /\ ao.st = "done" => Came(s, ao, tk, rd)
    /\ ao.st # "done" /\ E = {} /\ ~d => Unread(s, tk, rd) = 0

\* Sending: the bytes before tx, of wr accepted, are acknowledged; gt is what the peer got
Acknowledged(s, wr) == wr - Len(s.tx)
Went(s, a, wr, gt) == a.status = "ok" => Len(gt) = Acknowledged(s, wr) + s.txPending
Tx(s, ao, E, d, wr, gt) ==
    /\ s.txPending > 0 <=> IsActive(ao) \/ E # {} \/ d
    /\ IsActive(ao) \/ d => E = {}
    /\ IsActive(ao) => ~d
    /\ Len(s.tx) <= wr /\ s.txPending <= Len(s.tx)
    /\ \A i \in 1..Len(s.tx) : s.tx[i] = Acknowledged(s, wr) + i
    /\ ao.st = "pending" => ao.n = s.txPending /\ Len(gt) = Acknowledged(s, wr)
    /\ \A a \in E : Went(s, a, wr, gt)
    /\ ao.st = "done" => Went(s, ao, wr, gt)
    /\ s.state = "Connected" =>
          Len(gt) \in Acknowledged(s, wr) .. (Acknowledged(s, wr) + s.txPending)

\* Connecting
Ctl(s, ao, E) == /\ IsActive(ao) \/ E # {} => s.state = "Connecting"
                 /\ IsActive(ao) => E = {}

\* what came in and went out, each byte once and in order
InOrder(s, tk, rd) ==
    /\ \A i \in 1..Len(rd) : rd[i] = i
    /\ \A i \in 1..Len(s.rx) : s.rx[i] = Len(rd) + i
    /\ Len(rd) + Len(s.rx) <= tk
OutInOrder(wr, gt) == /\ \A i \in 1..Len(gt) : gt[i] = i
                      /\ Len(gt) <= wr

-----------------------------------------------------------------------------
\* The active objects and the pumps

LEMMA RequestsAre ==
    ASSUME NEW n \in Numbers, NEW status \in Statuses
    PROVE  /\ Idle \in AO /\ Asked(n) \in AO /\ Done(status, n) \in AO
           /\ ~IsActive(Idle) /\ Idle.st = "idle"
           /\ IsActive(Asked(n)) /\ Asked(n).st = "pending" /\ Asked(n).n = n
           /\ IsActive(Done(status, n)) /\ Done(status, n).st = "done"
           /\ Done(status, n).n = n /\ Done(status, n).status = status
  BY CapsAssumption DEF Idle, Asked, Done, AO, IsActive, Numbers, Statuses

\* Asking for a read is never refused, and covers no more than there is room for.
LEMMA PumpRx ==
    ASSUME NEW s \in StreamType, Len(s.rx) <= RxCap, NEW ao \in AO, NEW E, NEW d \in BOOLEAN,
           NEW tk \in Nat, NEW rd \in Seq(Nat), Rx(s, ao, E, d, tk, rd)
    PROVE  /\ ~RecvRefused(s, ao)
           /\ RxPumped(s, ao) \in StreamType /\ RecvAfter(s, ao) \in AO
           /\ RxPumped(s, ao).rx = s.rx /\ RxPumped(s, ao).state = s.state
           /\ RxPumped(s, ao).tx = s.tx /\ RxPumped(s, ao).txPending = s.txPending
           /\ RxPumped(s, ao).handle = s.handle
           /\ Rx(RxPumped(s, ao), RecvAfter(s, ao), E, d, tk, rd)
<1>1. WantsRead(s) => ~IsActive(ao) /\ E = {} /\ ~d /\ Unread(s, tk, rd) = 0
  BY DEF WantsRead, Rx, IsActive
<1>2. CASE ~WantsRead(s)
  BY <1>2 DEF RecvRefused, RxPumped, RecvAfter, Recvs
<1>3. CASE WantsRead(s)
  <2> DEFINE t == [s EXCEPT !.rxPending = TRUE]
  <2>1. RxPumped(s, ao) = t /\ RecvAfter(s, ao) = Asked(Free(s)) /\ ~RecvRefused(s, ao)
    BY <1>1, <1>3 DEF RxPumped, RecvAfter, Recvs, RecvRefused
  <2>2. /\ t \in StreamType /\ t.rx = s.rx /\ t.state = s.state /\ t.tx = s.tx
        /\ t.txPending = s.txPending /\ t.handle = s.handle /\ t.rxPending = TRUE
    BY DEF StreamType
  <2>3. Len(s.rx) \in Nat /\ Free(s) \in Numbers
    <3>1. s.rx \in Seq(Nat)
      BY DEF StreamType
    <3>2. Len(s.rx) \in Nat
      BY <3>1, LenProperties
    <3> QED BY <3>2, CapsAssumption DEF Free, Numbers
  <2>4. /\ Asked(Free(s)) \in AO /\ IsActive(Asked(Free(s)))
        /\ Asked(Free(s)).st = "pending" /\ Asked(Free(s)).n = Free(s)
    BY <2>3, RequestsAre DEF Statuses
  <2> HIDE DEF t
  <2>5. Free(t) = Free(s)
    BY <2>2 DEF Free
  <2>6. Rx(t, Asked(Free(s)), E, d, tk, rd)
    <3> DEFINE q == Asked(Free(s))
    <3>1. /\ t.rxPending /\ IsActive(q) /\ q.st = "pending" /\ q.n = Free(s) /\ E = {} /\ ~d
      BY <1>1, <1>3, <2>2, <2>4, Zenon
    <3> HIDE DEF q
    <3>2. q.n <= Free(t)
      BY <2>3, <2>5, <3>1 DEF Numbers
    <3>3. q.st # "done" /\ Unread(t, tk, rd) = 0
      BY <1>1, <1>3, <2>2, <3>1 DEF Unread
    <3>4. Rx(t, q, E, d, tk, rd)
      BY <3>1, <3>2, <3>3, Zenon DEF Rx
    <3> QED BY <3>4 DEF q
  <2> QED BY <2>1, <2>2, <2>4, <2>6
<1> QED BY <1>2, <1>3

\* Nor is asking for a send, which covers all that waits.
LEMMA PumpTx ==
    ASSUME NEW s \in StreamType, Len(s.tx) <= TxCap, NEW ao \in AO, NEW E, NEW d \in BOOLEAN,
           NEW wr \in Nat, NEW gt \in Seq(Nat), Tx(s, ao, E, d, wr, gt)
    PROVE  /\ ~SendRefused(s, ao)
           /\ TxPumped(s, ao) \in StreamType /\ SendAfter(s, ao) \in AO
           /\ TxPumped(s, ao).rx = s.rx /\ TxPumped(s, ao).state = s.state
           /\ TxPumped(s, ao).rxPending = s.rxPending /\ TxPumped(s, ao).land = s.land
           /\ TxPumped(s, ao).tx = s.tx /\ TxPumped(s, ao).handle = s.handle
           /\ Tx(TxPumped(s, ao), SendAfter(s, ao), E, d, wr, gt)
<1>0. s.tx \in Seq(Nat) /\ Len(s.tx) \in Nat /\ Len(gt) \in Nat /\ s.txPending \in 0..TxCap
  BY LenProperties DEF StreamType
<1>1. WantsSend(s) => /\ ~IsActive(ao) /\ E = {} /\ ~d /\ Len(s.tx) > 0
                      /\ Len(gt) = Acknowledged(s, wr)
  <2> SUFFICES ASSUME WantsSend(s)
               PROVE  ~IsActive(ao) /\ E = {} /\ ~d /\ Len(s.tx) > 0 /\ Len(gt) = Acknowledged(s, wr)
    OBVIOUS
  <2>1. s.txPending = 0 /\ s.tx # <<>> /\ s.state = "Connected"
    BY DEF WantsSend
  <2>2. ~IsActive(ao) /\ E = {} /\ ~d
    BY <2>1 DEF Tx
  <2>3. Len(s.tx) > 0
    BY <1>0, <2>1, EmptySeq
  <2>4. Len(gt) = Acknowledged(s, wr)
    BY <1>0, <2>1 DEF Tx, Acknowledged
  <2> QED BY <2>2, <2>3, <2>4
<1>2. CASE ~WantsSend(s)
  BY <1>2 DEF SendRefused, TxPumped, SendAfter, Sends
<1>3. CASE WantsSend(s)
  <2> DEFINE t == [s EXCEPT !.txPending = Len(s.tx)]
  <2>1. TxPumped(s, ao) = t /\ SendAfter(s, ao) = Asked(Len(s.tx)) /\ ~SendRefused(s, ao)
    BY <1>1, <1>3 DEF TxPumped, SendAfter, Sends, SendRefused
  <2>2. /\ t \in StreamType /\ t.rx = s.rx /\ t.state = s.state /\ t.tx = s.tx
        /\ t.rxPending = s.rxPending /\ t.land = s.land
        /\ t.handle = s.handle /\ t.txPending = Len(s.tx)
    <3>1. Len(s.tx) \in 0..TxCap
      BY <1>0, CapsAssumption
    <3> QED BY <3>1 DEF StreamType
  <2>3. Len(s.tx) \in Numbers
    BY <1>0, CapsAssumption DEF Numbers
  <2>4. /\ Asked(Len(s.tx)) \in AO /\ IsActive(Asked(Len(s.tx)))
        /\ Asked(Len(s.tx)).st = "pending" /\ Asked(Len(s.tx)).n = Len(s.tx)
    BY <2>3, RequestsAre DEF Statuses
  <2> HIDE DEF t
  <2>5. Tx(t, Asked(Len(s.tx)), E, d, wr, gt)
    <3> DEFINE q == Asked(Len(s.tx))
    <3>1. /\ IsActive(q) /\ q.st = "pending" /\ q.n = t.txPending /\ E = {} /\ ~d
      BY <1>1, <1>3, <2>2, <2>4, Zenon
    <3> HIDE DEF q
    <3>2. t.txPending > 0 /\ t.txPending <= Len(t.tx) /\ Len(t.tx) <= wr
      BY <1>0, <1>1, <1>3, <2>2 DEF Tx
    <3>3. Acknowledged(t, wr) = Acknowledged(s, wr) /\ Acknowledged(s, wr) \in Nat
      BY <1>0, <2>2, <3>2 DEF Acknowledged
    <3>4. \A i \in 1..Len(t.tx) : t.tx[i] = Acknowledged(t, wr) + i
      BY <2>2, <3>3 DEF Tx
    <3>5. Len(gt) = Acknowledged(t, wr)
      BY <1>1, <1>3, <3>3
    <3>6. Len(gt) \in Acknowledged(t, wr) .. (Acknowledged(t, wr) + t.txPending)
      BY <1>0, <2>2, <3>2, <3>3, <3>5
    <3>7. q.st # "done"
      BY <3>1
    <3>8. Tx(t, q, E, d, wr, gt)
      BY <3>1, <3>2, <3>4, <3>5, <3>6, <3>7, Zenon DEF Tx
    <3> QED BY <3>8 DEF q
  <2> QED BY <2>1, <2>2, <2>4, <2>5
<1> QED BY <1>2, <1>3

-----------------------------------------------------------------------------
\* Receiving

\* What Rx says is of the buffers alone.
LEMMA RxSame ==
    ASSUME NEW s, NEW t, t.rx = s.rx, t.rxPending = s.rxPending, t.land = s.land,
           NEW ao, NEW E, NEW d, NEW tk, NEW rd
    PROVE  /\ Rx(s, ao, E, d, tk, rd) <=> Rx(t, ao, E, d, tk, rd)
           /\ InOrder(s, tk, rd) <=> InOrder(t, tk, rd)
<1>1. Free(t) = Free(s) /\ Unread(t, tk, rd) = Unread(s, tk, rd)
  BY DEF Free, Unread
<1>2. \A a : Came(t, a, tk, rd) <=> Came(s, a, tk, rd)
  BY <1>1 DEF Came
<1>3. Rx(s, ao, E, d, tk, rd) <=> Rx(t, ao, E, d, tk, rd)
  BY <1>1, <1>2, Zenon DEF Rx
<1>4. InOrder(s, tk, rd) <=> InOrder(t, tk, rd)
  BY DEF InOrder
<1> QED BY <1>3, <1>4

\* The parts of a sequence: its first n elements, and the rest.
LEMMA Front ==
    ASSUME NEW q \in Seq(Nat), NEW n \in 0..Len(q)
    PROVE  /\ SubSeq(q, 1, n) \in Seq(Nat) /\ Len(SubSeq(q, 1, n)) = n
           /\ \A i \in 1..n : SubSeq(q, 1, n)[i] = q[i]
<1>1. Len(q) \in Nat /\ \A i \in 1..Len(q) : q[i] \in Nat
  BY LenProperties, ElementOfSeq
<1>2. \A i \in 1..n : q[i] \in Nat
  BY <1>1
<1>3. /\ SubSeq(q, 1, n) \in Seq(Nat)
      /\ Len(SubSeq(q, 1, n)) = IF 1 <= n THEN n - 1 + 1 ELSE 0
      /\ \A i \in 1..(n - 1 + 1) : SubSeq(q, 1, n)[i] = q[1 + i - 1]
  BY <1>1, <1>2, SubSeqProperties
<1> QED BY <1>1, <1>3

LEMMA Rest ==
    ASSUME NEW q \in Seq(Nat), NEW n \in 0..Len(q)
    PROVE  /\ SubSeq(q, n + 1, Len(q)) \in Seq(Nat)
           /\ Len(SubSeq(q, n + 1, Len(q))) = Len(q) - n
           /\ \A i \in 1..(Len(q) - n) : SubSeq(q, n + 1, Len(q))[i] = q[n + i]
<1>1. PICK m \in Nat : m = Len(q) /\ \A i \in 1..m : q[i] \in Nat
  BY LenProperties, ElementOfSeq
<1>2. \A i \in (n + 1)..m : q[i] \in Nat
  BY <1>1
<1>3. PICK w : w = SubSeq(q, n + 1, m)
  OBVIOUS
<1>4. /\ w \in Seq(Nat)
      /\ Len(w) = IF n + 1 <= m THEN m - (n + 1) + 1 ELSE 0
      /\ \A i \in 1..(m - (n + 1) + 1) : w[i] = q[n + 1 + i - 1]
  BY <1>1, <1>2, <1>3, SubSeqProperties
<1>5. Len(w) = m - n
  BY <1>1, <1>4
<1>6. ASSUME NEW i \in 1..(m - n) PROVE w[i] = q[n + i]
  <2>1. i \in 1..(m - (n + 1) + 1) /\ n + 1 + i - 1 = n + i
    BY <1>1
  <2> QED BY <1>4, <2>1
<1> QED BY <1>1, <1>3, <1>4, <1>5, <1>6

\* read takes the oldest bytes, and nothing else is told from them.
Drained(s, n) == [s EXCEPT !.rx = SubSeq(@, n + 1, Len(@))]
LEMMA RxDrained ==
    ASSUME NEW s \in StreamType, Len(s.rx) <= RxCap, NEW n \in 0..Len(s.rx),
           NEW tk \in Nat, NEW rd \in Seq(Nat), InOrder(s, tk, rd)
    PROVE  LET t == Drained(s, n)
               r == rd \o SubSeq(s.rx, 1, n)
           IN  /\ t \in StreamType /\ Len(t.rx) <= RxCap /\ r \in Seq(Nat)
               /\ Len(r) = Len(rd) + n
               /\ \A i \in 1..Len(r) : r[i] = IF i <= Len(rd) THEN rd[i] ELSE i
               /\ InOrder(t, tk, r)
               /\ t.handle = s.handle /\ t.state = s.state /\ t.tx = s.tx
               /\ t.txPending = s.txPending
               /\ \A ao \in AO : \A E, d :
                     Rx(s, ao, E, d, tk, rd) => Rx(t, ao, E, d, tk, r)
<1> DEFINE t == Drained(s, n)
           r == rd \o SubSeq(s.rx, 1, n)
<1>1. /\ s.rx \in Seq(Nat) /\ Len(s.rx) \in Nat /\ Len(rd) \in Nat /\ n \in Nat /\ n <= Len(s.rx)
      /\ \A i \in 1..Len(s.rx) : s.rx[i] \in Nat
  BY LenProperties, ElementOfSeq DEF StreamType
<1>2. /\ SubSeq(s.rx, n + 1, Len(s.rx)) \in Seq(Nat)
      /\ Len(SubSeq(s.rx, n + 1, Len(s.rx))) = Len(s.rx) - n
      /\ \A i \in 1..(Len(s.rx) - n) : SubSeq(s.rx, n + 1, Len(s.rx))[i] = s.rx[n + i]
  BY <1>1, Rest
<1>3. /\ SubSeq(s.rx, 1, n) \in Seq(Nat) /\ Len(SubSeq(s.rx, 1, n)) = n
      /\ \A i \in 1..n : SubSeq(s.rx, 1, n)[i] = s.rx[i]
  BY <1>1, Front
<1>4. /\ t \in StreamType /\ t.rx = SubSeq(s.rx, n + 1, Len(s.rx)) /\ t.handle = s.handle
      /\ t.state = s.state /\ t.tx = s.tx /\ t.txPending = s.txPending
      /\ t.rxPending = s.rxPending /\ t.land = s.land
  BY <1>2 DEF StreamType, Drained
<1>5. /\ r \in Seq(Nat) /\ Len(r) = Len(rd) + n
      /\ \A i \in 1..(Len(rd) + n) : r[i] = IF i <= Len(rd) THEN rd[i] ELSE s.rx[i - Len(rd)]
  <2>1. /\ r \in Seq(Nat) /\ Len(r) = Len(rd) + n
        /\ \A i \in 1..(Len(rd) + n) :
              r[i] = IF i <= Len(rd) THEN rd[i] ELSE SubSeq(s.rx, 1, n)[i - Len(rd)]
    BY <1>3, ConcatProperties
  <2> QED BY <1>1, <1>3, <2>1
<1>55. /\ Len(t.rx) = Len(s.rx) - n
       /\ \A i \in 1..Len(t.rx) : t.rx[i] = s.rx[n + i]
  BY <1>1, <1>2, <1>4
<1> HIDE DEF t, r
<1>6. \A i \in 1..Len(r) : r[i] = IF i <= Len(rd) THEN rd[i] ELSE i
  <2> SUFFICES ASSUME NEW i \in 1..Len(r), i > Len(rd)
               PROVE  r[i] = i
    BY <1>1, <1>5
  <2>1. i - Len(rd) \in 1..Len(s.rx) /\ r[i] = s.rx[i - Len(rd)]
    BY <1>1, <1>5
  <2>2. s.rx[i - Len(rd)] = Len(rd) + (i - Len(rd))
    BY <2>1 DEF InOrder
  <2> QED BY <1>1, <1>5, <2>1, <2>2
<1>7. InOrder(t, tk, r)
  <2>1. \A i \in 1..Len(r) : r[i] = i
    <3> SUFFICES ASSUME NEW i \in 1..Len(r) PROVE r[i] = i
      OBVIOUS
    <3>1. i <= Len(rd) => i \in 1..Len(rd)
      BY <1>1, <1>5
    <3>2. i <= Len(rd) => rd[i] = i
      BY <3>1 DEF InOrder
    <3> QED BY <1>6, <3>2
  <2>2. \A i \in 1..Len(t.rx) : t.rx[i] = Len(r) + i
    <3> SUFFICES ASSUME NEW i \in 1..Len(t.rx) PROVE t.rx[i] = Len(r) + i
      OBVIOUS
    <3>0. t.rx[i] = s.rx[n + i]
      BY <1>55
    <3>1. n + i \in 1..Len(s.rx)
      BY <1>1, <1>55
    <3>2. s.rx[n + i] = Len(rd) + (n + i)
      BY <3>1 DEF InOrder
    <3> QED BY <1>1, <1>5, <3>0, <3>2
  <2>3. Len(r) + Len(t.rx) <= tk
    <3>1. PICK a \in Nat, b \in Nat : a = Len(rd) /\ b = Len(s.rx)
      BY <1>1
    <3>10. n \in Nat
      BY <1>1
    <3>2. a + b <= tk
      BY <3>1 DEF InOrder
    <3>3. Len(r) = a + n /\ Len(t.rx) = b - n
      BY <1>5, <1>55, <3>1
    <3>4. (a + n) + (b - n) = a + b
      BY <3>10
    <3> QED BY <3>2, <3>3, <3>4
  <2> QED BY <2>1, <2>2, <2>3 DEF InOrder
<1>8. Unread(t, tk, r) = Unread(s, tk, rd) /\ Free(t) = Free(s) + n /\ Free(s) \in Int
  BY <1>1, <1>5, <1>55, CapsAssumption DEF Unread, Free
<1>9. \A ao \in AO : \A E, d : Rx(s, ao, E, d, tk, rd) => Rx(t, ao, E, d, tk, r)
  <2>1. \A a : Came(s, a, tk, rd) => Came(t, a, tk, r)
    <3> SUFFICES ASSUME NEW a, Came(s, a, tk, rd) PROVE Came(t, a, tk, r)
      OBVIOUS
    <3>1. a.n = Unread(s, tk, rd) /\ a.n <= Free(s) /\ Unread(s, tk, rd) \in Int
      BY <1>1 DEF Came, Unread
    <3>2. a.n = Unread(t, tk, r) /\ a.n <= Free(t)
      BY <1>1, <1>8, <3>1
    <3> QED BY <1>4, <3>2 DEF Came
  <2>2. \A ao \in AO : ao.n <= Free(s) => ao.n <= Free(t)
    BY <1>1, <1>8 DEF AO
  <2> SUFFICES ASSUME NEW ao \in AO, NEW E, NEW d, Rx(s, ao, E, d, tk, rd)
               PROVE  Rx(t, ao, E, d, tk, r)
    OBVIOUS
  <2>3. t.rxPending <=> IsActive(ao) \/ E # {} \/ d
    BY <1>4, Zenon DEF Rx
  <2>4. /\ \A a \in E : Came(t, a, tk, r)
        /\ ao.st = "done" => Came(t, ao, tk, r)
    BY <2>1, Zenon DEF Rx
  <2>5. ao.st = "pending" => ao.n <= Free(t)
    BY <2>2, Zenon DEF Rx
  <2>6. ao.st # "done" /\ E = {} /\ ~d => Unread(t, tk, r) = 0
    BY <1>8, Zenon DEF Rx
  <2> QED BY <2>3, <2>4, <2>5, <2>6, Zenon DEF Rx
<1>10. Len(t.rx) <= RxCap
  BY <1>1, <1>55, CapsAssumption
<1> QED BY <1>4, <1>5, <1>6, <1>7, <1>9, <1>10 DEF t, r

\* A completion brings the bytes that are in the landing area, and they all fit.
LEMMA RxLanded ==
    ASSUME NEW s \in StreamType, Len(s.rx) <= RxCap, NEW ao \in AO, NEW d \in BOOLEAN,
           NEW tk \in Nat, NEW rd \in Seq(Nat), InOrder(s, tk, rd),
           NEW e, e.n \in Nat, Rx(s, ao, {e}, d, tk, rd)
    PROVE  LET t == Landed(s, e.n)
           IN  /\ t \in StreamType /\ Len(t.rx) <= RxCap
               /\ InOrder(t, tk, rd) /\ Rx(t, ao, {}, d, tk, rd)
               /\ t.handle = s.handle /\ t.state = s.state /\ t.tx = s.tx
               /\ t.txPending = s.txPending
<1> DEFINE t == Landed(s, e.n)
           w == SubSeq(s.land, 1, e.n)
<1>1. /\ s.rx \in Seq(Nat) /\ Len(s.rx) \in Nat /\ Len(rd) \in Nat
      /\ s.land \in [1..RxCap -> Nat] /\ RxCap \in Nat
  BY LenProperties, CapsAssumption DEF StreamType
<1>2. /\ Came(s, e, tk, rd) /\ ~IsActive(ao) /\ ~d
  BY Zenon DEF Rx
<1>3. /\ e.n = Unread(s, tk, rd) /\ e.n <= Free(s) /\ e.n <= RxCap
      /\ \A i \in 1..e.n : s.land[i] = tk - e.n + i
  BY <1>1, <1>2 DEF Came, Free
<1>4. w \in Seq(Nat) /\ Len(w) = e.n /\ \A i \in 1..e.n : w[i] = s.land[i]
  <2>1. \A i \in 1..e.n : s.land[i] \in Nat
    BY <1>1, <1>3
  <2>2. /\ w \in Seq(Nat)
        /\ Len(w) = IF 1 <= e.n THEN e.n - 1 + 1 ELSE 0
        /\ \A i \in 1..(e.n - 1 + 1) : w[i] = s.land[1 + i - 1]
    BY <1>1, <2>1, SubSeqProperties
  <2> QED BY <2>2
<1>5. t = [s EXCEPT !.rx = @ \o w, !.rxPending = FALSE]
  <2>1. (IF e.n < Free(s) THEN e.n ELSE Free(s)) = e.n
    BY <1>1, <1>3 DEF Free
  <2> QED BY <2>1, Zenon DEF Landed
<1> HIDE DEF w
<1>6. /\ s.rx \o w \in Seq(Nat) /\ Len(s.rx \o w) = Len(s.rx) + e.n
      /\ \A i \in 1..(Len(s.rx) + e.n) :
            (s.rx \o w)[i] = IF i <= Len(s.rx) THEN s.rx[i] ELSE w[i - Len(s.rx)]
  <2>1. w \in Seq(Nat) /\ Len(w) = e.n
    BY <1>4
  <2>2. /\ s.rx \o w \in Seq(Nat) /\ Len(s.rx \o w) = Len(s.rx) + Len(w)
        /\ \A i \in 1..(Len(s.rx) + Len(w)) :
              (s.rx \o w)[i] = IF i <= Len(s.rx) THEN s.rx[i] ELSE w[i - Len(s.rx)]
    BY <1>1, <2>1, ConcatProperties, Zenon
  <2> QED BY <2>1, <2>2
<1>7. /\ t \in StreamType /\ t.rx = s.rx \o w /\ ~t.rxPending /\ t.handle = s.handle
      /\ t.state = s.state /\ t.tx = s.tx /\ t.txPending = s.txPending
  <2>1. \A x \in Seq(Nat) :
            LET u == [s EXCEPT !.rx = x, !.rxPending = FALSE]
            IN  /\ u \in StreamType /\ u.rx = x /\ ~u.rxPending /\ u.handle = s.handle
                /\ u.state = s.state /\ u.tx = s.tx /\ u.txPending = s.txPending
    BY DEF StreamType
  <2> HIDE DEF t
  <2>2. t = [s EXCEPT !.rx = s.rx \o w, !.rxPending = FALSE]
    BY <1>5
  <2> QED BY <1>6, <2>1, <2>2
<1> HIDE DEF t
<1>8. Len(t.rx) <= RxCap
  BY <1>1, <1>3, <1>6, <1>7 DEF Free
<1>9. InOrder(t, tk, rd)
  <2>1. \A i \in 1..Len(t.rx) : t.rx[i] = Len(rd) + i
    <3> SUFFICES ASSUME NEW i \in 1..Len(t.rx) PROVE t.rx[i] = Len(rd) + i
      OBVIOUS
    <3>1. CASE i <= Len(s.rx)
      <4>1. i \in 1..Len(s.rx) /\ t.rx[i] = s.rx[i]
        BY <1>1, <1>6, <1>7, <3>1
      <4> QED BY <4>1 DEF InOrder
    <3>2. CASE i > Len(s.rx)
      <4>1. i - Len(s.rx) \in 1..e.n /\ t.rx[i] = w[i - Len(s.rx)]
        BY <1>1, <1>6, <1>7, <3>2
      <4>2. t.rx[i] = tk - e.n + (i - Len(s.rx))
        BY <1>3, <1>4, <4>1
      <4>3. PICK a \in Nat, b \in Nat, c \in Nat : a = Len(rd) /\ b = Len(s.rx) /\ c = e.n
        BY <1>1
      <4>4. c = tk - a - b
        BY <1>3, <4>3 DEF Unread
      <4>5. i \in Int
        BY <1>1, <1>6, <1>7
      <4>6. tk - c + (i - b) = a + i
        BY <4>4, <4>5
      <4> QED BY <4>2, <4>3, <4>6
    <3> QED BY <1>1, <3>1, <3>2
  <2>2. Len(rd) + Len(t.rx) <= tk
    BY <1>1, <1>3, <1>6, <1>7 DEF Unread
  <2> QED BY <2>1, <2>2 DEF InOrder
<1>10. Unread(t, tk, rd) = 0
  BY <1>1, <1>3, <1>6, <1>7 DEF Unread
<1>11. ao.st # "pending" /\ ao.st # "done"
  BY <1>2 DEF IsActive
<1>12. Rx(t, ao, {}, d, tk, rd)
  BY <1>2, <1>7, <1>10, <1>11, Zenon DEF Rx
<1> QED BY <1>7, <1>8, <1>9, <1>12 DEF t

\* A completion that is an end or an error brings none.
LEMMA RxStopped ==
    ASSUME NEW s \in StreamType, NEW t, t.rx = s.rx, t.rxPending = FALSE, NEW ao, NEW d,
           NEW tk \in Nat, NEW rd \in Seq(Nat),
           NEW e, e.status # "ok", Rx(s, ao, {e}, d, tk, rd)
    PROVE  Rx(t, ao, {}, d, tk, rd)
<1>1. Came(s, e, tk, rd) /\ ~IsActive(ao) /\ ~d
  BY Zenon DEF Rx
<1>2. Unread(t, tk, rd) = 0
  BY <1>1 DEF Came, Unread
<1>3. ao.st # "pending" /\ ao.st # "done"
  BY <1>1 DEF IsActive
<1> QED BY <1>1, <1>2, <1>3, Zenon DEF Rx

\* what has not been read grows by what is handed over
LEMMA UnreadGrows ==
    ASSUME NEW s, NEW t, t.rx = s.rx, Len(s.rx) \in Nat, NEW rd, Len(rd) \in Nat,
           NEW tk \in Nat, NEW k \in Nat, Unread(s, tk, rd) = 0
    PROVE  Unread(t, tk + k, rd) = k
BY DEF Unread

\* The socket server fills the landing area, or reports that there is no more.
LEMMA RxServed ==
    ASSUME NEW s \in StreamType, Len(s.rx) <= RxCap, NEW ao \in AO, ao.st = "pending",
           NEW E, NEW d, NEW tk \in Nat, NEW rd \in Seq(Nat), Rx(s, ao, E, d, tk, rd),
           NEW k \in Nat, k <= ao.n, NEW status \in Statuses, status # "ok" => k = 0,
           NEW t, t.rx = s.rx, t.rxPending = s.rxPending,
           \A i \in 1..k : t.land[i] = tk + i
    PROVE  Rx(t, Done(status, k), E, d, tk + k, rd)
<1>0. Len(s.rx) \in Nat /\ Len(rd) \in Nat /\ Free(s) \in Nat /\ Free(s) <= RxCap
  BY LenProperties, CapsAssumption DEF StreamType, Free
<1>1. /\ IsActive(ao) /\ E = {} /\ ~d /\ s.rxPending /\ ao.n <= Free(s) /\ Unread(s, tk, rd) = 0
  <2>1. IsActive(ao) /\ ao.st # "done"
    BY DEF IsActive
  <2> QED BY <2>1, Zenon DEF Rx
<1>2. k \in Numbers
  BY <1>0, <1>1, CapsAssumption DEF Numbers, AO
<1> DEFINE q == Done(status, k)
<1>3. IsActive(q) /\ q.st = "done" /\ q.n = k /\ q.status = status
  BY <1>2, RequestsAre
<1> HIDE DEF q
<1>4. Came(t, q, tk + k, rd)
  <2>1. k = Unread(t, tk + k, rd)
    BY <1>0, <1>1, UnreadGrows
  <2>15. k <= Free(t)
    <3>1. Free(t) = Free(s) /\ ao.n \in Nat
      BY CapsAssumption DEF Free, AO
    <3> QED BY <1>0, <1>1, <3>1
  <2>2. \A i \in 1..k : t.land[i] = (tk + k) - k + i
    OBVIOUS
  <2> QED BY <1>3, <2>1, <2>15, <2>2 DEF Came
<1>5. q.st # "pending"
  BY <1>3
<1>6. Rx(t, q, E, d, tk + k, rd)
  BY <1>1, <1>3, <1>4, <1>5, Zenon DEF Rx
<1> QED BY <1>6 DEF q

\* RunL moves the completion into the ring, or loses it: the event says what the object did.
Reports(e, ao) == ao.st = "done" /\ e.n = ao.n /\ e.status = ao.status

LEMMA RxPushed ==
    ASSUME NEW s, NEW ao, NEW E, NEW d, NEW tk, NEW rd,
           Rx(s, ao, E, d, tk, rd), NEW e, Reports(e, ao)
    PROVE  E = {} /\ ~d /\ Rx(s, Idle, {e}, FALSE, tk, rd) /\ Rx(s, Idle, {}, TRUE, tk, rd)
<1>1. ao.st = "done" /\ IsActive(ao) /\ ~IsActive(Idle) /\ Idle.st # "pending" /\ Idle.st # "done"
  BY DEF IsActive, Idle, Reports
<1>2. E = {} /\ ~d /\ s.rxPending /\ Came(s, ao, tk, rd)
  BY <1>1, Zenon DEF Rx
<1>3. Came(s, e, tk, rd)
  BY <1>2, Zenon DEF Came, Reports
<1>4. Rx(s, Idle, {e}, FALSE, tk, rd)
  BY <1>1, <1>2, <1>3, Zenon DEF Rx
<1>5. Rx(s, Idle, {}, TRUE, tk, rd)
  BY <1>1, <1>2, Zenon DEF Rx
<1> QED BY <1>2, <1>4, <1>5

-----------------------------------------------------------------------------
\* Sending

\* What Tx says is of tx, and of the state only while it is connected.
LEMMA TxSame ==
    ASSUME NEW s, NEW t, t.tx = s.tx, t.txPending = s.txPending,
           t.state = "Connected" => s.state = "Connected",
           NEW ao, NEW E, NEW d, NEW wr, NEW gt, Tx(s, ao, E, d, wr, gt)
    PROVE  Tx(t, ao, E, d, wr, gt)
<1>1. Acknowledged(t, wr) = Acknowledged(s, wr)
  BY DEF Acknowledged
<1>2. \A a : Went(s, a, wr, gt) => Went(t, a, wr, gt)
  BY <1>1 DEF Went
<1> QED BY <1>1, <1>2, Zenon DEF Tx

\* Of a stream that was written nothing, whatever its state becomes.
LEMMA TxUnused ==
    ASSUME NEW s \in StreamType, NEW t, t.tx = s.tx, t.txPending = s.txPending,
           NEW ao, NEW E, NEW d, NEW gt \in Seq(Nat), OutInOrder(0, gt), Tx(s, ao, E, d, 0, gt)
    PROVE  Tx(t, ao, E, d, 0, gt) /\ Len(s.tx) = 0 /\ s.txPending = 0
<1>1. s.tx \in Seq(Nat) /\ Len(s.tx) \in Nat /\ Len(gt) \in Nat /\ s.txPending \in Nat
  BY LenProperties, CapsAssumption DEF StreamType
<1>2. Len(s.tx) = 0 /\ s.txPending = 0 /\ Len(gt) = 0
  BY <1>1 DEF Tx, OutInOrder
<1>3. Acknowledged(t, 0) = 0 /\ Acknowledged(s, 0) = 0
  BY <1>2 DEF Acknowledged
<1>4. \A a : Went(s, a, 0, gt) => Went(t, a, 0, gt)
  BY <1>3 DEF Went
<1>5. Len(gt) \in Acknowledged(t, 0) .. (Acknowledged(t, 0) + t.txPending)
  BY <1>2, <1>3
<1>6. Tx(t, ao, E, d, 0, gt)
  BY <1>3, <1>4, <1>5, Zenon DEF Tx
<1> QED BY <1>2, <1>6

\* write puts the next bytes at the end.
Filled(s, wr, n) == [s EXCEPT !.tx = @ \o [i \in 1..n |-> wr + i]]
LEMMA TxFilled ==
    ASSUME NEW s \in StreamType, NEW n \in Nat, Len(s.tx) + n <= TxCap, NEW ao, NEW E, NEW d,
           NEW wr \in Nat, NEW gt \in Seq(Nat), Tx(s, ao, E, d, wr, gt), OutInOrder(wr, gt)
    PROVE  LET t == Filled(s, wr, n)
           IN  /\ t \in StreamType /\ Len(t.tx) <= TxCap
               /\ t.rx = s.rx /\ t.rxPending = s.rxPending /\ t.land = s.land
               /\ t.handle = s.handle /\ t.state = s.state
               /\ Tx(t, ao, E, d, wr + n, gt) /\ OutInOrder(wr + n, gt)
<1> DEFINE t == Filled(s, wr, n)
           w == [i \in 1..n |-> wr + i]
<1>1. s.tx \in Seq(Nat) /\ Len(s.tx) \in Nat /\ Len(gt) \in Nat /\ s.txPending \in Nat
  BY LenProperties, CapsAssumption DEF StreamType
<1>2. w \in Seq(Nat) /\ Len(w) = n /\ \A i \in 1..n : w[i] = wr + i
  <2>1. \A i \in 1..n : wr + i \in Nat
    OBVIOUS
  <2>2. w \in [1..n -> Nat]
    BY <2>1
  <2>3. w \in Seq(Nat)
    BY <2>2, SeqDef
  <2> QED BY <2>2, <2>3, LenProperties
<1> HIDE DEF w
<1>3. /\ s.tx \o w \in Seq(Nat) /\ Len(s.tx \o w) = Len(s.tx) + n
      /\ \A i \in 1..(Len(s.tx) + n) :
            (s.tx \o w)[i] = IF i <= Len(s.tx) THEN s.tx[i] ELSE w[i - Len(s.tx)]
  <2>1. /\ s.tx \o w \in Seq(Nat) /\ Len(s.tx \o w) = Len(s.tx) + Len(w)
        /\ \A i \in 1..(Len(s.tx) + Len(w)) :
              (s.tx \o w)[i] = IF i <= Len(s.tx) THEN s.tx[i] ELSE w[i - Len(s.tx)]
    BY <1>1, <1>2, ConcatProperties, Zenon
  <2> QED BY <1>2, <2>1
<1>4. /\ t \in StreamType /\ t.tx = s.tx \o w /\ t.rx = s.rx /\ t.rxPending = s.rxPending
      /\ t.land = s.land /\ t.handle = s.handle /\ t.state = s.state
      /\ t.txPending = s.txPending
  <2>1. \A x \in Seq(Nat) :
            LET u == [s EXCEPT !.tx = x]
            IN  /\ u \in StreamType /\ u.tx = x /\ u.rx = s.rx /\ u.rxPending = s.rxPending
                /\ u.land = s.land /\ u.handle = s.handle /\ u.state = s.state
                /\ u.txPending = s.txPending
    BY DEF StreamType
  <2> HIDE DEF t
  <2>2. t = [s EXCEPT !.tx = s.tx \o w]
    BY DEF t, Filled, w
  <2> QED BY <1>3, <2>1, <2>2
<1> HIDE DEF t
<1>5. Len(t.tx) = Len(s.tx) + n /\ Acknowledged(t, wr + n) = Acknowledged(s, wr)
  <2>1. Len(t.tx) = Len(s.tx) + n
    BY <1>3, <1>4
  <2> QED BY <1>1, <2>1 DEF Acknowledged
<1>6. Len(t.tx) <= wr + n /\ t.txPending <= Len(t.tx)
  BY <1>1, <1>4, <1>5 DEF Tx
<1>7. \A i \in 1..Len(t.tx) : t.tx[i] = Acknowledged(t, wr + n) + i
  <2> SUFFICES ASSUME NEW i \in 1..Len(t.tx) PROVE t.tx[i] = Acknowledged(s, wr) + i
    BY <1>5
  <2>0. i \in Int /\ i \in 1..(Len(s.tx) + n)
    BY <1>1, <1>5
  <2>1. CASE i <= Len(s.tx)
    <3>1. i \in 1..Len(s.tx) /\ t.tx[i] = s.tx[i]
      BY <1>1, <1>3, <1>4, <2>0, <2>1
    <3> QED BY <3>1 DEF Tx
  <2>2. CASE i > Len(s.tx)
    <3>1. i - Len(s.tx) \in 1..n /\ t.tx[i] = w[i - Len(s.tx)]
      BY <1>1, <1>3, <1>4, <2>0, <2>2
    <3>2. t.tx[i] = wr + (i - Len(s.tx))
      BY <1>2, <3>1
    <3> QED BY <1>1, <2>0, <3>2 DEF Acknowledged
  <2> QED BY <1>1, <2>0, <2>1, <2>2
<1>8. \A a : Went(s, a, wr, gt) => Went(t, a, wr + n, gt)
  BY <1>4, <1>5 DEF Went
<1>9. Tx(t, ao, E, d, wr + n, gt)
  BY <1>4, <1>5, <1>6, <1>7, <1>8, Zenon DEF Tx
<1>10. OutInOrder(wr + n, gt)
  BY <1>1 DEF OutInOrder
<1> QED BY <1>4, <1>5, <1>9, <1>10 DEF t

\* A send that ended well takes what it covered.
LEMMA TxTaken ==
    ASSUME NEW s \in StreamType, Len(s.tx) <= TxCap, NEW ao, NEW d,
           NEW wr \in Nat, NEW gt \in Seq(Nat),
           NEW e, e.status = "ok", Tx(s, ao, {e}, d, wr, gt)
    PROVE  LET t == [s EXCEPT !.tx = SubSeq(@, s.txPending + 1, Len(@)), !.txPending = 0]
           IN  /\ t \in StreamType /\ Len(t.tx) <= TxCap
               /\ t.rx = s.rx /\ t.rxPending = s.rxPending /\ t.land = s.land
               /\ t.handle = s.handle /\ t.state = s.state
               /\ Tx(t, ao, {}, d, wr, gt)
<1>0. PICK n \in Nat : n = s.txPending
  BY CapsAssumption DEF StreamType
<1> DEFINE t == [s EXCEPT !.tx = SubSeq(@, s.txPending + 1, Len(@)), !.txPending = 0]
           w == SubSeq(s.tx, n + 1, Len(s.tx))
<1>1. /\ s.tx \in Seq(Nat) /\ Len(s.tx) \in Nat /\ Len(gt) \in Nat
      /\ \A i \in 1..Len(s.tx) : s.tx[i] \in Nat
  BY LenProperties, ElementOfSeq DEF StreamType
<1>2. /\ ~IsActive(ao) /\ ~d /\ Went(s, e, wr, gt)
  BY Zenon DEF Tx
<1>3. Len(gt) = Acknowledged(s, wr) + n /\ n <= Len(s.tx) /\ Len(s.tx) <= wr
  <2>1. Len(gt) = Acknowledged(s, wr) + n
    BY <1>0, <1>2 DEF Went
  <2> QED BY <1>0, <2>1 DEF Tx
<1>4. /\ w \in Seq(Nat) /\ Len(w) = Len(s.tx) - n
      /\ \A i \in 1..(Len(s.tx) - n) : w[i] = s.tx[n + i]
  <2>1. n \in 0..Len(s.tx)
    BY <1>1, <1>3
  <2> QED BY <1>1, <2>1, Rest
<1> HIDE DEF w
<1>5. /\ t \in StreamType /\ t.tx = w /\ t.txPending = 0 /\ t.rx = s.rx
      /\ t.rxPending = s.rxPending /\ t.land = s.land /\ t.handle = s.handle
      /\ t.state = s.state
  <2>1. \A x \in Seq(Nat) :
            LET u == [s EXCEPT !.tx = x, !.txPending = 0]
            IN  /\ u \in StreamType /\ u.tx = x /\ u.txPending = 0 /\ u.rx = s.rx
                /\ u.rxPending = s.rxPending /\ u.land = s.land /\ u.handle = s.handle
                /\ u.state = s.state
    <3>1. 0 \in 0..TxCap
      BY CapsAssumption
    <3> QED BY <3>1 DEF StreamType
  <2> HIDE DEF t
  <2>2. t = [s EXCEPT !.tx = w, !.txPending = 0]
    BY <1>0 DEF t, w
  <2> QED BY <1>4, <2>1, <2>2
<1> HIDE DEF t
<1>6. Len(t.tx) = Len(s.tx) - n /\ Acknowledged(t, wr) = Len(gt)
  <2>1. Len(t.tx) = Len(s.tx) - n
    BY <1>4, <1>5
  <2> QED BY <1>1, <1>3, <2>1 DEF Acknowledged
<1>7. \A i \in 1..Len(t.tx) : t.tx[i] = Acknowledged(t, wr) + i
  <2> SUFFICES ASSUME NEW i \in 1..Len(t.tx) PROVE t.tx[i] = Len(gt) + i
    BY <1>6
  <2>0. i \in Int /\ i \in 1..(Len(s.tx) - n)
    BY <1>1, <1>6
  <2>1. n + i \in 1..Len(s.tx) /\ t.tx[i] = s.tx[n + i]
    BY <1>1, <1>4, <1>5, <2>0
  <2>2. s.tx[n + i] = Acknowledged(s, wr) + (n + i)
    BY <2>1 DEF Tx
  <2> QED BY <1>1, <1>3, <2>0, <2>1, <2>2 DEF Acknowledged
<1>8. Len(t.tx) <= wr /\ t.txPending <= Len(t.tx) /\ ~(t.txPending > 0) /\ Len(t.tx) <= TxCap
  BY <1>1, <1>3, <1>5, <1>6, CapsAssumption
<1>9. Len(gt) \in Acknowledged(t, wr) .. (Acknowledged(t, wr) + t.txPending)
  BY <1>1, <1>5, <1>6
<1>10. ao.st # "pending" /\ ao.st # "done"
  BY <1>2 DEF IsActive
<1>11. Tx(t, ao, {}, d, wr, gt)
  BY <1>2, <1>7, <1>8, <1>9, <1>10, Zenon DEF Tx
<1> QED BY <1>5, <1>8, <1>11 DEF t

\* A send that broke takes everything, and the stream has failed.
LEMMA TxBroken ==
    ASSUME NEW s, NEW t, t.tx = <<>>, t.txPending = 0, t.state # "Connected",
           NEW ao, NEW d, NEW wr \in Nat, NEW gt, NEW e, Tx(s, ao, {e}, d, wr, gt)
    PROVE  Tx(t, ao, {}, d, wr, gt)
<1>1. ~IsActive(ao) /\ ~d
  BY Zenon DEF Tx
<1>2. ao.st # "pending" /\ ao.st # "done"
  BY <1>1 DEF IsActive
<1>3. Len(t.tx) = 0
  BY EmptySeq
<1>4. Len(t.tx) <= wr /\ t.txPending <= Len(t.tx) /\ ~(t.txPending > 0)
  BY <1>3
<1>5. \A i \in 1..Len(t.tx) : t.tx[i] = Acknowledged(t, wr) + i
  BY <1>3
<1> QED BY <1>1, <1>2, <1>4, <1>5, Zenon DEF Tx

\* The socket server sends a front part of what it was given, and only an error stops it
\* short.
LEMMA TxServed ==
    ASSUME NEW s \in StreamType, NEW ao, ao.st = "pending", NEW E, NEW d,
           NEW wr \in Nat, NEW gt \in Seq(Nat), Tx(s, ao, E, d, wr, gt), OutInOrder(wr, gt),
           NEW k \in Nat, k <= ao.n, k <= Len(s.tx),
           NEW status \in Statuses, status = "ok" => k = ao.n, NEW m \in Numbers
    PROVE  LET g == gt \o SubSeq(s.tx, 1, k)
           IN  /\ g \in Seq(Nat) /\ Len(g) = Len(gt) + k /\ Len(gt) + k <= wr
               /\ \A i \in 1..Len(g) : g[i] = IF i <= Len(gt) THEN gt[i] ELSE i
               /\ OutInOrder(wr, g) /\ Tx(s, Done(status, m), E, d, wr, g)
<1> DEFINE g == gt \o SubSeq(s.tx, 1, k)
           w == SubSeq(s.tx, 1, k)
           q == Done(status, m)
<1>1. /\ s.tx \in Seq(Nat) /\ Len(s.tx) \in Nat /\ Len(gt) \in Nat /\ s.txPending \in Nat
      /\ \A i \in 1..Len(s.tx) : s.tx[i] \in Nat
  BY LenProperties, ElementOfSeq, CapsAssumption DEF StreamType
<1>2. /\ IsActive(ao) /\ E = {} /\ ~d /\ s.txPending > 0 /\ ao.n = s.txPending
      /\ Len(gt) = Acknowledged(s, wr) /\ Len(s.tx) <= wr /\ s.txPending <= Len(s.tx)
  <2>1. IsActive(ao)
    BY DEF IsActive
  <2> QED BY <2>1, Zenon DEF Tx
<1>3. w \in Seq(Nat) /\ Len(w) = k /\ \A i \in 1..k : w[i] = s.tx[i]
  <2>1. k \in 0..Len(s.tx)
    BY <1>1
  <2> QED BY <1>1, <2>1, Front
<1> HIDE DEF w
<1>4. /\ g \in Seq(Nat) /\ Len(g) = Len(gt) + k
      /\ \A i \in 1..(Len(gt) + k) : g[i] = IF i <= Len(gt) THEN gt[i] ELSE w[i - Len(gt)]
  <2>1. /\ gt \o w \in Seq(Nat) /\ Len(gt \o w) = Len(gt) + Len(w)
        /\ \A i \in 1..(Len(gt) + Len(w)) :
              (gt \o w)[i] = IF i <= Len(gt) THEN gt[i] ELSE w[i - Len(gt)]
    <3>1. w \in Seq(Nat)
      BY <1>3
    <3> QED BY <3>1, ConcatProperties, Zenon
  <2> HIDE DEF g
  <2>2. g = gt \o w
    BY DEF g, w
  <2> QED BY <1>3, <2>1, <2>2
<1> HIDE DEF g
<1>5. Len(gt) + k <= wr
  BY <1>1, <1>2 DEF Acknowledged
<1>6. \A i \in 1..Len(g) : g[i] = IF i <= Len(gt) THEN gt[i] ELSE i
  <2> SUFFICES ASSUME NEW i \in 1..Len(g), i > Len(gt) PROVE g[i] = i
    BY <1>1, <1>4
  <2>0. i \in 1..(Len(gt) + k) /\ i \in Int
    BY <1>1, <1>4
  <2>1. i - Len(gt) \in 1..k /\ i - Len(gt) \in 1..Len(s.tx)
    BY <1>1, <2>0
  <2>2. g[i] = s.tx[i - Len(gt)]
    <3>1. ~(i <= Len(gt))
      BY <1>1, <2>0
    <3>2. g[i] = w[i - Len(gt)]
      BY <1>4, <2>0, <3>1
    <3> QED BY <1>3, <2>1, <3>2
  <2>3. s.tx[i - Len(gt)] = Acknowledged(s, wr) + (i - Len(gt))
    BY <2>1 DEF Tx
  <2> QED BY <1>1, <1>2, <2>0, <2>2, <2>3
<1>7. OutInOrder(wr, g)
  <2>1. \A i \in 1..Len(g) : g[i] = i
    <3> SUFFICES ASSUME NEW i \in 1..Len(g) PROVE g[i] = i
      OBVIOUS
    <3>1. i <= Len(gt) => i \in 1..Len(gt)
      BY <1>1, <1>4
    <3>2. i <= Len(gt) => gt[i] = i
      BY <3>1 DEF OutInOrder
    <3> QED BY <1>6, <3>2
  <2> QED BY <1>4, <1>5, <2>1 DEF OutInOrder
<1>8. q.st = "done" /\ IsActive(q) /\ q.status = status /\ q.st # "pending"
  BY RequestsAre
<1> HIDE DEF q
<1>9. Went(s, q, wr, g)
  BY <1>2, <1>4, <1>8 DEF Went
<1>10. Len(g) \in Acknowledged(s, wr) .. (Acknowledged(s, wr) + s.txPending)
  <2>1. PICK a \in Nat : a = Len(gt)
    BY <1>1
  <2>2. Acknowledged(s, wr) = a /\ Len(g) = a + k /\ k <= s.txPending
    BY <1>2, <1>4, <2>1
  <2> QED BY <1>1, <2>2
<1>11. Tx(s, q, E, d, wr, g)
  BY <1>2, <1>8, <1>9, <1>10, Zenon DEF Tx
<1> QED BY <1>4, <1>5, <1>6, <1>7, <1>11 DEF g, q

\* RunL moves the completion into the ring, or loses it.
LEMMA TxPushed ==
    ASSUME NEW s, NEW ao, NEW E, NEW d, NEW wr, NEW gt,
           Tx(s, ao, E, d, wr, gt), NEW e, Reports(e, ao)
    PROVE  E = {} /\ ~d /\ Tx(s, Idle, {e}, FALSE, wr, gt) /\ Tx(s, Idle, {}, TRUE, wr, gt)
<1>1. ao.st = "done" /\ IsActive(ao) /\ ~IsActive(Idle) /\ Idle.st # "pending" /\ Idle.st # "done"
  BY DEF IsActive, Idle, Reports
<1>2. E = {} /\ ~d /\ s.txPending > 0 /\ Went(s, ao, wr, gt)
  BY <1>1, Zenon DEF Tx
<1>3. Went(s, e, wr, gt)
  BY <1>2, Zenon DEF Went, Reports
<1>4. Tx(s, Idle, {e}, FALSE, wr, gt)
  BY <1>1, <1>2, <1>3, Zenon DEF Tx
<1>5. Tx(s, Idle, {}, TRUE, wr, gt)
  BY <1>1, <1>2, Zenon DEF Tx
<1> QED BY <1>2, <1>4, <1>5

\* Whatever a completion says it brought, what is queued is what was landed and fits.
LEMMA LandedFits ==
    ASSUME NEW s \in StreamType, Len(s.rx) <= RxCap, NEW n \in Nat
    PROVE  LET t == Landed(s, n)
           IN  /\ t \in StreamType /\ Len(t.rx) <= RxCap
               /\ t.handle = s.handle /\ t.state = s.state /\ t.tx = s.tx
               /\ t.txPending = s.txPending
<1>1. /\ s.rx \in Seq(Nat) /\ s.land \in [1..RxCap -> Nat]
  BY DEF StreamType
<1>2. PICK m \in Nat : m = Len(s.rx) /\ m <= RxCap
  BY <1>1, LenProperties
<1> DEFINE take == IF n < Free(s) THEN n ELSE Free(s)
<1>3. take \in Nat /\ m + take <= RxCap
  <2>1. PICK f \in Nat : f = Free(s) /\ m + f <= RxCap
    <3>1. Free(s) = RxCap - m
      BY <1>2 DEF Free
    <3>2. RxCap - m \in Nat /\ m + (RxCap - m) <= RxCap
      BY <1>2, CapsAssumption
    <3> QED BY <3>1, <3>2
  <2>2. take = n \/ take = f
    BY <2>1
  <2>3. take <= f
    BY <2>1
  <2> HIDE DEF take
  <2> QED BY <1>2, <2>1, <2>2, <2>3, CapsAssumption
<1> HIDE DEF take
<1> DEFINE w == SubSeq(s.land, 1, take)
<1>4. w \in Seq(Nat) /\ Len(w) = take
  <2>1. \A i \in 1..take : s.land[i] \in Nat
    BY <1>1, <1>2, <1>3, CapsAssumption
  <2>2. w \in Seq(Nat) /\ Len(w) = IF 1 <= take THEN take - 1 + 1 ELSE 0
    BY <1>3, <2>1, SubSeqProperties
  <2> QED BY <1>3, <2>2
<1>5. Landed(s, n) = [s EXCEPT !.rx = @ \o w, !.rxPending = FALSE]
  BY DEF Landed, take, w
<1> HIDE DEF w
<1>6. s.rx \o w \in Seq(Nat) /\ Len(s.rx \o w) = m + take
  BY <1>1, <1>2, <1>4, ConcatProperties
<1> QED BY <1>2, <1>3, <1>5, <1>6 DEF StreamType

\* What an acknowledgement leaves of the bytes to send.
LEMMA Acknowledges ==
    ASSUME NEW s \in StreamType, Len(s.tx) <= TxCap
    PROVE  LET t == [s EXCEPT !.tx = SubSeq(s.tx, s.txPending + 1, Len(s.tx)), !.txPending = 0]
           IN  /\ t \in StreamType /\ Len(t.tx) <= TxCap
               /\ t.handle = s.handle /\ t.state = s.state /\ t.rx = s.rx
               /\ t.rxPending = s.rxPending
<1>1. s.tx \in Seq(Nat) /\ s.txPending \in Nat
  BY CapsAssumption DEF StreamType
<1>2. PICK m \in Nat : m = Len(s.tx) /\ m <= TxCap /\ \A i \in 1..m : s.tx[i] \in Nat
  BY <1>1, LenProperties, ElementOfSeq
<1>3. PICK p \in Nat : p = s.txPending
  BY <1>1
<1> DEFINE w == SubSeq(s.tx, p + 1, m)
<1>4. w \in Seq(Nat) /\ Len(w) <= TxCap
  <2>1. \A i \in (p + 1)..m : s.tx[i] \in Nat
    BY <1>2
  <2>2. w \in Seq(Nat) /\ Len(w) = IF p + 1 <= m THEN m - (p + 1) + 1 ELSE 0
    BY <1>2, <2>1, SubSeqProperties
  <2> QED BY <1>2, <2>2, CapsAssumption
<1>5. 0 \in 0..TxCap
  BY CapsAssumption
<1> DEFINE t == [s EXCEPT !.tx = SubSeq(s.tx, s.txPending + 1, Len(s.tx)), !.txPending = 0]
<1>6. t = [s EXCEPT !.tx = w, !.txPending = 0]
  BY <1>2, <1>3
<1> HIDE DEF w
<1> QED BY <1>4, <1>5, <1>6 DEF StreamType

LEMMA Fields ==
    /\ \A s \in StreamType : \A x \in States :
          LET t == [s EXCEPT !.state = x]
          IN  /\ t \in StreamType /\ t.state = x /\ t.handle = s.handle /\ t.rx = s.rx
              /\ t.rxPending = s.rxPending /\ t.land = s.land /\ t.tx = s.tx
              /\ t.txPending = s.txPending
    /\ \A s \in StreamType : \A x \in [1..RxCap -> Nat] :
          LET t == [s EXCEPT !.land = x]
          IN  /\ t \in StreamType /\ t.land = x /\ t.handle = s.handle /\ t.rx = s.rx
              /\ t.rxPending = s.rxPending /\ t.state = s.state /\ t.tx = s.tx
              /\ t.txPending = s.txPending
    /\ \A b \in SocketType : \A x \in AO :
          /\ LET d == [b EXCEPT !.ctl = x]
             IN  d \in SocketType /\ d.ctl = x /\ d.recv = b.recv /\ d.send = b.send /\ d.owner = b.owner
          /\ LET d == [b EXCEPT !.recv = x]
             IN  d \in SocketType /\ d.recv = x /\ d.ctl = b.ctl /\ d.send = b.send /\ d.owner = b.owner
          /\ LET d == [b EXCEPT !.send = x]
             IN  d \in SocketType /\ d.send = x /\ d.ctl = b.ctl /\ d.recv = b.recv /\ d.owner = b.owner
BY DEF StreamType, SocketType
-----------------------------------------------------------------------------
\* The ring

\* the events that end a request of a stream
InRing(q, c, kind) == {q[i] : i \in {j \in DOMAIN q : q[j].of = c /\ q[j].kind = kind}}
\* those of a stream name its slot h, and there is one of a kind
Mine(q, c, h) == /\ \A i \in DOMAIN q : q[i].of = c => q[i].handle = h
                 /\ \A i, j \in DOMAIN q :
                       q[i].of = c /\ q[j].of = c /\ q[i].kind = q[j].kind => i = j

LEMMA RingPush ==
    ASSUME NEW q \in Seq(Event), NEW e \in Event
    PROVE  /\ InRing(q, e.of, e.kind) = {} => InRing(Append(q, e), e.of, e.kind) = {e}
           /\ \A c, kind : c # e.of \/ kind # e.kind =>
                 InRing(Append(q, e), c, kind) = InRing(q, c, kind)
           /\ \A c, h : c # e.of /\ Mine(q, c, h) => Mine(Append(q, e), c, h)
           /\ InRing(q, e.of, e.kind) = {} /\ Mine(q, e.of, e.handle)
                 => Mine(Append(q, e), e.of, e.handle)
<1> DEFINE p == Append(q, e)
<1>1. PICK n \in Nat : n = Len(q) /\ DOMAIN q = 1..n
  BY LenProperties
<1>2. /\ DOMAIN p = 1..(n + 1) /\ p[n + 1] = e /\ \A i \in 1..n : p[i] = q[i]
  <2>1. /\ p \in Seq(Event) /\ Len(p) = n + 1 /\ \A i \in 1..n : p[i] = q[i]
        /\ p[n + 1] = e
    BY <1>1, AppendProperties
  <2> HIDE DEF p
  <2> QED BY <2>1, LenProperties
<1> HIDE DEF p
<1>3. 1..(n + 1) = (1..n) \cup {n + 1} /\ n + 1 \notin 1..n
  OBVIOUS
<1>4. ASSUME InRing(q, e.of, e.kind) = {}
      PROVE  InRing(p, e.of, e.kind) = {e}
  <2>1. \A i \in 1..n : ~(q[i].of = e.of /\ q[i].kind = e.kind)
    BY <1>1, <1>4, Zenon DEF InRing
  <2>2. {j \in DOMAIN p : p[j].of = e.of /\ p[j].kind = e.kind} = {n + 1}
    BY <1>2, <1>3, <2>1
  <2> QED BY <1>2, <2>2, Zenon DEF InRing
<1>5. ASSUME NEW c, NEW kind, c # e.of \/ kind # e.kind
      PROVE  InRing(p, c, kind) = InRing(q, c, kind)
  <2>1. {j \in DOMAIN p : p[j].of = c /\ p[j].kind = kind}
            = {j \in DOMAIN q : q[j].of = c /\ q[j].kind = kind}
    BY <1>1, <1>2, <1>3, <1>5
  <2>2. \A j \in DOMAIN q : p[j] = q[j]
    BY <1>1, <1>2
  <2> QED BY <2>1, <2>2 DEF InRing
<1>6. ASSUME NEW c, NEW h, c # e.of, Mine(q, c, h)
      PROVE  Mine(p, c, h)
  <2>1. \A i \in DOMAIN p : p[i].of = c => i \in DOMAIN q /\ p[i] = q[i]
    BY <1>1, <1>2, <1>3, <1>6
  <2> QED BY <1>6, <2>1 DEF Mine
<1>7. ASSUME InRing(q, e.of, e.kind) = {}, Mine(q, e.of, e.handle)
      PROVE  Mine(p, e.of, e.handle)
  <2>1. \A i \in 1..n : ~(q[i].of = e.of /\ q[i].kind = e.kind)
    BY <1>1, <1>7, Zenon DEF InRing
  <2>2. /\ \A i \in 1..n : q[i].of = e.of => q[i].handle = e.handle
        /\ \A i, j \in 1..n : q[i].of = e.of /\ q[j].of = e.of /\ q[i].kind = q[j].kind => i = j
    BY <1>1, <1>7, Zenon DEF Mine
  <2>3. \A i \in 1..(n + 1) : p[i].of = e.of => p[i].handle = e.handle
    BY <1>2, <1>3, <2>2
  <2>4. ASSUME NEW i \in 1..(n + 1), NEW j \in 1..(n + 1),
               p[i].of = e.of, p[j].of = e.of, p[i].kind = p[j].kind
        PROVE  i = j
    <3>1. CASE i \in 1..n /\ j \in 1..n
      BY <1>2, <2>2, <2>4, <3>1
    <3>2. CASE i = n + 1 \/ j = n + 1
      BY <1>2, <1>3, <2>1, <2>4, <3>2
    <3> QED BY <1>3, <3>1, <3>2
  <2> QED BY <1>2, <2>3, <2>4, Zenon DEF Mine
<1> QED BY <1>4, <1>5, <1>6, <1>7 DEF p

LEMMA RingPop ==
    ASSUME NEW q \in Seq(Event), q # <<>>
    PROVE  LET e == Head(q)
           IN  /\ e \in Event /\ Tail(q) \in Seq(Event) /\ e \in InRing(q, e.of, e.kind)
               /\ \A h : Mine(q, e.of, h) => /\ h = e.handle
                                            /\ InRing(q, e.of, e.kind) = {e}
                                            /\ InRing(Tail(q), e.of, e.kind) = {}
               /\ \A c, h : Mine(q, c, h) => Mine(Tail(q), c, h)
               /\ \A c, kind : c # e.of \/ kind # e.kind =>
                     InRing(Tail(q), c, kind) = InRing(q, c, kind)
<1> DEFINE e == Head(q)
           p == Tail(q)
<1>1. PICK n \in Nat : n = Len(q) /\ DOMAIN q = 1..n
  BY LenProperties
<1>2. e \in Event /\ p \in Seq(Event) /\ Len(p) = n - 1 /\ \A i \in 1..(n - 1) : p[i] = q[i + 1]
  <2>1. /\ e \in Event /\ p \in Seq(Event) /\ Len(p) = Len(q) - 1
        /\ \A i \in 1..Len(p) : p[i] = q[i + 1]
    BY HeadTailProperties
  <2> QED BY <1>1, <2>1
<1>3. e = q[1] /\ n > 0
  <2>1. n > 0
    BY <1>1, EmptySeq
  <2>2. e = q[1]
    OBVIOUS
  <2> QED BY <2>1, <2>2
<1> HIDE DEF e, p
<1>4. DOMAIN p = 1..(n - 1)
  BY <1>2, LenProperties
<1>5. /\ 1 \in 1..n /\ \A i \in 1..(n - 1) : i + 1 \in 1..n /\ i + 1 # 1
      /\ \A i \in 1..n : i # 1 => i - 1 \in 1..(n - 1) /\ (i - 1) + 1 = i
      /\ \A i, j \in 1..(n - 1) : i + 1 = j + 1 => i = j
  BY <1>3
<1>6. e \in InRing(q, e.of, e.kind)
  BY <1>1, <1>3, <1>5 DEF InRing
<1>7. ASSUME NEW c, NEW h, Mine(q, c, h)
      PROVE  Mine(p, c, h)
  <2>1. /\ \A i \in 1..n : q[i].of = c => q[i].handle = h
        /\ \A i, j \in 1..n : q[i].of = c /\ q[j].of = c /\ q[i].kind = q[j].kind => i = j
    BY <1>1, <1>7, Zenon DEF Mine
  <2>2. \A i \in 1..(n - 1) : p[i].of = c => p[i].handle = h
    BY <1>2, <1>5, <2>1
  <2>3. ASSUME NEW i \in 1..(n - 1), NEW j \in 1..(n - 1),
               p[i].of = c, p[j].of = c, p[i].kind = p[j].kind
        PROVE  i = j
    <3>1. p[i] = q[i + 1] /\ p[j] = q[j + 1]
      BY <1>2
    <3>2. i + 1 = j + 1
      BY <1>5, <2>1, <2>3, <3>1
    <3> QED BY <1>5, <3>2
  <2> QED BY <1>4, <2>2, <2>3, Zenon DEF Mine
<1>8. ASSUME NEW h, Mine(q, e.of, h)
      PROVE  /\ h = e.handle /\ InRing(q, e.of, e.kind) = {e}
             /\ InRing(p, e.of, e.kind) = {}
  <2>1. /\ \A i \in 1..n : q[i].of = e.of => q[i].handle = h
        /\ \A i, j \in 1..n : q[i].of = e.of /\ q[j].of = e.of /\ q[i].kind = q[j].kind => i = j
    BY <1>1, <1>8, Zenon DEF Mine
  <2>2. h = e.handle
    BY <1>3, <1>5, <2>1
  <2>3. InRing(q, e.of, e.kind) = {e}
    <3>1. {j \in DOMAIN q : q[j].of = e.of /\ q[j].kind = e.kind} = {1}
      BY <1>1, <1>3, <1>5, <2>1
    <3> QED BY <1>3, <3>1, Zenon DEF InRing
  <2>4. InRing(p, e.of, e.kind) = {}
    <3>1. \A j \in 1..(n - 1) : ~(p[j].of = e.of /\ p[j].kind = e.kind)
      BY <1>2, <1>3, <1>5, <2>1
    <3> QED BY <1>4, <3>1, Zenon DEF InRing
  <2> QED BY <2>2, <2>3, <2>4
<1>9. ASSUME NEW c, NEW kind, c # e.of \/ kind # e.kind
      PROVE  InRing(p, c, kind) = InRing(q, c, kind)
  <2>1. ASSUME NEW x \in InRing(p, c, kind) PROVE x \in InRing(q, c, kind)
    <3>1. PICK j \in 1..(n - 1) : p[j].of = c /\ p[j].kind = kind /\ x = p[j]
      BY <1>4, <2>1, Zenon DEF InRing
    <3>2. j + 1 \in DOMAIN q /\ q[j + 1] = p[j]
      BY <1>1, <1>2, <1>5
    <3> QED BY <3>1, <3>2 DEF InRing
  <2>2. ASSUME NEW x \in InRing(q, c, kind) PROVE x \in InRing(p, c, kind)
    <3>1. PICK j \in 1..n : q[j].of = c /\ q[j].kind = kind /\ x = q[j]
      BY <1>1, <2>2, Zenon DEF InRing
    <3>2. j # 1
      BY <1>3, <1>9, <3>1
    <3>3. j - 1 \in DOMAIN p /\ p[j - 1] = q[j]
      BY <1>2, <1>4, <1>5, <3>2
    <3> QED BY <3>1, <3>3 DEF InRing
  <2> QED BY <2>1, <2>2
<1> QED BY <1>2, <1>6, <1>7, <1>8, <1>9 DEF e, p

-----------------------------------------------------------------------------
\* Types

\* a slot belongs to the stream that has its number as its handle
Linked(h) == IF sock[h].owner = NoStream THEN sock[h] = FreeSocket
             ELSE stream[sock[h].owner].handle = h

\* A stream that is open and its slot know each other. The types need nothing else: the
\* events may be anybody's.
Tied == /\ \A c \in Streams : IsOpen(c) => c <= opened /\ sock[stream[c].handle].owner = c
        /\ \A h \in Slots : Linked(h)
TypeInv == TypeOK /\ Tied

LEMMA TypesKnown ==
    ASSUME TypeInv
    PROVE  /\ stream \in [Streams -> StreamType] /\ sock \in [Slots -> SocketType]
           /\ \A c \in Streams : Len(stream[c].rx) <= RxCap /\ Len(stream[c].tx) <= TxCap
           /\ ring \in Seq(Event) /\ Len(ring) <= Capacity /\ gui \in {"scheduler", "step"}
           /\ lost \subseteq Streams \X Kinds /\ misled \subseteq Streams
           /\ opened \in 0..MaxStreams /\ opened \in Nat /\ NoHandle \notin Slots
           /\ taken \in [Streams -> Nat] /\ read \in [Streams -> Seq(Nat)]
           /\ wrote \in [Streams -> Nat] /\ got \in [Streams -> Seq(Nat)]
<1>1. NoHandle \notin Slots
  BY BoundsAssumption DEF Slots, NoHandle
<1>2. opened \in 0..MaxStreams /\ MaxStreams \in Nat
  BY BoundsAssumption DEF TypeInv, TypeOK
<1>3. opened \in Nat
  BY <1>2
<1> QED BY <1>1, <1>2, <1>3 DEF TypeInv, TypeOK, StreamType, SocketType

LEMMA TiesKnown ==
    ASSUME TypeInv
    PROVE  /\ \A c \in Streams : IsOpen(c) =>
                 /\ stream[c].handle \in Slots /\ sock[stream[c].handle].owner = c
                 /\ sock[stream[c].handle] \in SocketType
           /\ \A h \in Slots : sock[h].owner # NoStream =>
                 /\ sock[h].owner \in Streams /\ stream[sock[h].owner].handle = h
                 /\ IsOpen(sock[h].owner)
           /\ \A h \in Slots : sock[h].owner = NoStream => sock[h] = FreeSocket
           /\ \A c, d \in Streams : IsOpen(c) /\ stream[c].handle = stream[d].handle => c = d
<1>1. \A c \in Streams : IsOpen(c) =>
         stream[c].handle \in Slots /\ sock[stream[c].handle].owner = c
  BY TypesKnown DEF TypeInv, Tied, IsOpen, StreamType
<1>2. \A h \in Slots : sock[h].owner # NoStream =>
         /\ sock[h].owner \in Streams /\ stream[sock[h].owner].handle = h
         /\ IsOpen(sock[h].owner)
  BY TypesKnown DEF TypeInv, Tied, Linked, IsOpen, SocketType
<1>3. \A h \in Slots : sock[h].owner = NoStream => sock[h] = FreeSocket
  BY DEF TypeInv, Tied, Linked
<1>4. \A c, d \in Streams : IsOpen(c) /\ stream[c].handle = stream[d].handle => c = d
  BY <1>1 DEF IsOpen
<1> QED BY <1>1, <1>2, <1>3, <1>4, TypesKnown

\* A step of one stream and its socket, given by the values it leaves.
LEMMA OneStaysTied ==
    ASSUME TypeInv, NEW c \in Streams,
           NEW t \in StreamType, Len(t.rx) <= RxCap, Len(t.tx) <= TxCap,
           t.handle = stream[c].handle, stream' = [stream EXCEPT ![c] = t],
           NEW b \in SocketType,
           IF IsOpen(c) THEN b.owner = c /\ sock' = [sock EXCEPT ![t.handle] = b]
                        ELSE sock' = sock,
           ring' \in Seq(Event), Len(ring') <= Capacity, lost' \subseteq Streams \X Kinds,
           misled' \subseteq Streams, gui' \in {"scheduler", "step"}, opened' = opened,
           taken' \in [Streams -> Nat], read' \in [Streams -> Seq(Nat)],
           wrote' \in [Streams -> Nat], got' \in [Streams -> Seq(Nat)]
    PROVE  TypeInv'
<1>1. \A d \in Streams : stream'[d] = IF d = c THEN t ELSE stream[d]
  BY TypesKnown
<1>2. \A g \in Slots : sock'[g] = IF IsOpen(c) /\ g = t.handle THEN b ELSE sock[g]
  BY TypesKnown
<1>3. \A d \in Streams : stream'[d].handle = stream[d].handle
  BY <1>1
<1>4. \A g \in Slots : sock'[g].owner = sock[g].owner
  <2>1. IsOpen(c) => sock[t.handle].owner = c
    BY TiesKnown
  <2> QED BY <1>2, <2>1
<1>5. TypeOK'
  <2>1. stream' \in [Streams -> StreamType]
    BY TypesKnown
  <2>15. sock' \in [Slots -> SocketType]
    <3>1. CASE IsOpen(c)
      <4>1. sock' = [sock EXCEPT ![t.handle] = b]
        BY <3>1
      <4> QED BY <4>1, TypesKnown
    <3>2. CASE ~IsOpen(c)
      <4>1. sock' = sock
        BY <3>2
      <4> QED BY <4>1, TypesKnown
    <3> QED BY <3>1, <3>2
  <2>2. \A d \in Streams : Len(stream'[d].rx) <= RxCap /\ Len(stream'[d].tx) <= TxCap
    <3>1. ASSUME NEW d \in Streams PROVE Len(stream'[d].rx) <= RxCap /\ Len(stream'[d].tx) <= TxCap
      <4>1. CASE d = c
        BY <1>1, <4>1
      <4>2. CASE d # c
        <5>1. stream'[d] = stream[d]
          BY <1>1, <4>2
        <5> QED BY <5>1, TypesKnown
      <4> QED BY <4>1, <4>2
    <3> QED BY <3>1
  <2> QED BY <2>1, <2>15, <2>2, TypesKnown DEF TypeOK, StreamType, SocketType
<1>6. ASSUME NEW d \in Streams, stream'[d].handle # NoHandle
      PROVE  d <= opened' /\ sock'[stream'[d].handle].owner = d
  <2>1. IsOpen(d) /\ stream'[d].handle = stream[d].handle
    BY <1>3, <1>6 DEF IsOpen
  <2>2. d <= opened /\ stream[d].handle \in Slots /\ sock[stream[d].handle].owner = d
    BY <2>1, TiesKnown DEF TypeInv, Tied
  <2> QED BY <1>4, <2>1, <2>2
<1>7. ASSUME NEW g \in Slots PROVE Linked(g)'
  <2>1. CASE sock[g].owner = NoStream
    <3>1. sock'[g] = sock[g]
      BY <1>2, <2>1, TiesKnown DEF Streams, NoStream
    <3> QED BY <2>1, <3>1, TiesKnown DEF Linked
  <2>2. CASE sock[g].owner # NoStream
    <3>1. stream'[sock'[g].owner].handle = g /\ sock'[g].owner # NoStream
      BY <1>3, <1>4, <2>2, TiesKnown
    <3> QED BY <3>1 DEF Linked
  <2> QED BY <2>1, <2>2
<1> QED BY <1>5, <1>6, <1>7 DEF TypeInv, Tied, IsOpen

\* The pumps, told nothing but types.
LEMMA PumpTypes ==
    ASSUME NEW s \in StreamType, Len(s.rx) <= RxCap, Len(s.tx) <= TxCap, NEW ao \in AO
    PROVE  /\ RecvAfter(s, ao) \in AO /\ SendAfter(s, ao) \in AO
           /\ \A t \in {RxPumped(s, ao), TxPumped(s, ao), RxPumpedOrFailed(s, ao),
                        TxPumpedOrFailed(s, ao)} :
                 /\ t \in StreamType /\ t.handle = s.handle /\ t.rx = s.rx /\ t.tx = s.tx
<1>1. Len(s.rx) \in Nat /\ Len(s.tx) \in Nat
  BY LenProperties DEF StreamType
<1>2. Len(s.tx) \in 0..TxCap /\ Len(s.tx) \in Numbers
  BY <1>1, CapsAssumption DEF Numbers
<1>3. Free(s) \in Numbers
  BY <1>1, CapsAssumption DEF Free, Numbers
<1>4. RecvAfter(s, ao) \in AO
  <2>1. Asked(Free(s)) \in AO
    BY <1>3, RequestsAre DEF Statuses
  <2> QED BY <2>1 DEF RecvAfter
<1>5. SendAfter(s, ao) \in AO
  <2>1. Asked(Len(s.tx)) \in AO
    BY <1>2, RequestsAre DEF Statuses
  <2> QED BY <2>1 DEF SendAfter
<1> DEFINE Fit(t) == t \in StreamType /\ t.handle = s.handle /\ t.rx = s.rx /\ t.tx = s.tx
<1>6. Fit(s) /\ Fit(Failed(s))
  <2>1. "Failed" \in States
    BY DEF States
  <2> QED BY <2>1, Fields DEF Failed
<1>7. Fit([s EXCEPT !.rxPending = TRUE])
  BY DEF StreamType
<1>8. Fit([s EXCEPT !.txPending = Len(s.tx)])
  BY <1>2 DEF StreamType
<1> HIDE DEF Fit
<1>9. Fit(RxPumped(s, ao)) /\ Fit(TxPumped(s, ao))
  BY <1>6, <1>7, <1>8 DEF RxPumped, TxPumped
<1>10. Fit(RxPumpedOrFailed(s, ao)) /\ Fit(TxPumpedOrFailed(s, ao))
  BY <1>6, <1>9 DEF RxPumpedOrFailed, TxPumpedOrFailed
<1> QED BY <1>4, <1>5, <1>9, <1>10 DEF Fit

\* So with a completion: whatever an event says, what it leaves fits.
LEMMA TakenTypes ==
    ASSUME NEW s \in StreamType, Len(s.rx) <= RxCap, Len(s.tx) <= TxCap, NEW e \in Event
    PROVE  \A t \in {Taken(s, e), Broken(s, e)} :
              /\ t \in StreamType /\ t.handle = s.handle
              /\ Len(t.rx) <= RxCap /\ Len(t.tx) <= TxCap
<1>1. e.kind \in Kinds /\ e.n \in Nat
  BY CapsAssumption DEF Event
<1>2. <<>> \in Seq(Nat) /\ Len(<<>>) = 0 /\ 0 \in 0..TxCap
  BY CapsAssumption, EmptySeq
<1> DEFINE Fit(t) == /\ t \in StreamType /\ t.handle = s.handle
                     /\ Len(t.rx) <= RxCap /\ Len(t.tx) <= TxCap
<1>3. \A x \in States : Fit([s EXCEPT !.state = x])
  BY Fields
<1>4. Fit(Landed(s, e.n))
  BY <1>1, LandedFits
<1>5. Fit([s EXCEPT !.tx = SubSeq(s.tx, s.txPending + 1, Len(s.tx)), !.txPending = 0])
  <2> DEFINE t == [s EXCEPT !.tx = SubSeq(s.tx, s.txPending + 1, Len(s.tx)), !.txPending = 0]
  <2>1. t \in StreamType /\ Len(t.tx) <= TxCap /\ t.handle = s.handle /\ t.rx = s.rx
    BY Acknowledges, Zenon
  <2> HIDE DEF t
  <2>2. Fit(t)
    BY <2>1
  <2> QED BY <2>2 DEF t
<1>6. Fit([s EXCEPT !.rxPending = FALSE,
                    !.state = IF e.status = "eof" THEN "Closed" ELSE "Failed"])
  BY DEF StreamType, States
<1>7. Fit([Failed(s) EXCEPT !.tx = <<>>, !.txPending = 0])
  <2>1. PICK f \in StreamType : /\ f = Failed(s) /\ f.handle = s.handle /\ f.rx = s.rx
    BY Fields DEF Failed, States
  <2> DEFINE t == [f EXCEPT !.tx = <<>>, !.txPending = 0]
  <2>2. t \in StreamType /\ t.handle = s.handle /\ t.rx = s.rx /\ t.tx = <<>>
    BY <1>2, <2>1 DEF StreamType
  <2> HIDE DEF t
  <2>3. Fit(t)
    BY <1>2, <2>2, CapsAssumption
  <2> QED BY <2>1, <2>3 DEF t
<1>8. "Connected" \in States /\ "Failed" \in States
  BY DEF States
<1> HIDE DEF Fit
<1>9. Fit(Taken(s, e))
  BY <1>1, <1>3, <1>4, <1>5, <1>8 DEF Taken, Kinds
<1>10. Fit(Broken(s, e))
  BY <1>1, <1>3, <1>6, <1>7, <1>8 DEF Broken, Failed, Kinds
<1> QED BY <1>9, <1>10 DEF Fit

LEMMA HandledTypes ==
    ASSUME NEW s \in StreamType, Len(s.rx) <= RxCap, Len(s.tx) <= TxCap, NEW e \in Event,
           NEW b \in SocketType
    PROVE  /\ Handled(s, e, b) \in StreamType /\ Handled(s, e, b).handle = s.handle
           /\ Len(Handled(s, e, b).rx) <= RxCap /\ Len(Handled(s, e, b).tx) <= TxCap
           /\ SockHandled(s, e, b) \in SocketType /\ SockHandled(s, e, b).owner = b.owner
<1>1. b.send \in AO /\ b.recv \in AO
  BY DEF SocketType
<1>2. CASE e.status # "ok"
  BY <1>2, TakenTypes DEF Handled, SockHandled
<1>3. CASE e.status = "ok"
  <2> DEFINE t == Taken(s, e)
  <2>1. t \in StreamType /\ t.handle = s.handle /\ Len(t.rx) <= RxCap /\ Len(t.tx) <= TxCap
    BY TakenTypes
  <2>2. Handled(s, e, b) = IF e.kind = "sent" THEN TxPumpedOrFailed(t, b.send)
                                              ELSE RxPumpedOrFailed(t, b.recv)
    BY <1>3 DEF Handled
  <2>3. SockHandled(s, e, b) = IF e.kind = "sent" THEN [b EXCEPT !.send = SendAfter(t, b.send)]
                                                  ELSE [b EXCEPT !.recv = RecvAfter(t, b.recv)]
    BY <1>3 DEF SockHandled
  <2> HIDE DEF t
  <2>4. \A u \in {TxPumpedOrFailed(t, b.send), RxPumpedOrFailed(t, b.recv)} :
           /\ u \in StreamType /\ u.handle = s.handle
           /\ Len(u.rx) <= RxCap /\ Len(u.tx) <= TxCap
    BY <1>1, <2>1, PumpTypes
  <2>5. SendAfter(t, b.send) \in AO /\ RecvAfter(t, b.recv) \in AO
    BY <1>1, <2>1, PumpTypes
  <2>6. SockHandled(s, e, b) \in SocketType /\ SockHandled(s, e, b).owner = b.owner
    <3> DEFINE x == [b EXCEPT !.send = SendAfter(t, b.send)]
               y == [b EXCEPT !.recv = RecvAfter(t, b.recv)]
    <3>1. x \in SocketType /\ y \in SocketType /\ x.owner = b.owner /\ y.owner = b.owner
      BY <2>5, Fields
    <3> HIDE DEF x, y
    <3>2. SockHandled(s, e, b) = IF e.kind = "sent" THEN x ELSE y
      BY <2>3 DEF x, y
    <3> QED BY <3>1, <3>2
  <2> QED BY <2>2, <2>4, <2>6
<1> QED BY <1>2, <1>3

LEMMA RunLTypes ==
    ASSUME TypeInv, NEW h \in Slots, RunL(h)
    PROVE  TypeInv'
<1>1. /\ gui' = gui /\ opened' = opened /\ stream' = stream /\ misled' = misled
      /\ taken' = taken /\ read' = read /\ wrote' = wrote /\ got' = got
  BY DEF RunL, CtlRunL, ReaderRunL, WriterRunL, Pushes, app
<1>2. PICK kind \in Kinds, ao \in {sock[h].ctl, sock[h].recv, sock[h].send} :
         Pushes(h, kind, ao)
  BY DEF RunL, CtlRunL, ReaderRunL, WriterRunL, Kinds
<1>3. sock[h] \in SocketType /\ ao \in AO /\ ao.st = "done"
  BY <1>2, TypesKnown DEF SocketType, Pushes
<1>4. PICK c \in Streams : c = sock[h].owner /\ IsOpen(c) /\ stream[c].handle = h
  <2>1. sock[h].owner # NoStream
    <3>1. sock[h] # FreeSocket
      BY <1>2, <1>3 DEF FreeSocket, Idle
    <3> QED BY <3>1, TiesKnown
  <2> QED BY <2>1, TiesKnown
<1>5. ring' \in Seq(Event) /\ Len(ring') <= Capacity
  <2> DEFINE e == [kind |-> kind, handle |-> h, status |-> ao.status, n |-> ao.n,
                   of |-> sock[h].owner]
  <2>1. e \in Event
    BY <1>3, <1>4 DEF Event, AO
  <2> HIDE DEF e
  <2>2. ring' = IF Fits(ring) THEN Append(ring, e) ELSE ring
    BY <1>2 DEF Pushes, Pushed, e
  <2>3. Append(ring, e) \in Seq(Event) /\ Len(Append(ring, e)) = Len(ring) + 1 /\ Len(ring) \in Nat
    BY <2>1, TypesKnown, AppendProperties, LenProperties
  <2>4. Fits(ring) => Len(ring) + 1 <= Capacity
    BY <2>3, CapacityAssumption DEF Fits
  <2> QED BY <2>2, <2>3, <2>4, TypesKnown
<1>6. lost' \subseteq Streams \X Kinds
  <2>1. lost' = IF Fits(ring) THEN lost ELSE lost \cup {<<c, kind>>}
    BY <1>2, <1>4 DEF Pushes
  <2> QED BY <2>1, TypesKnown
<1>7. PICK b \in SocketType : b.owner = c /\ sock' = [sock EXCEPT ![h] = b]
  <2>1. Idle \in AO
    BY RequestsAre, CapsAssumption DEF Numbers, Statuses
  <2>2. \/ sock' = [sock EXCEPT ![h] = [sock[h] EXCEPT !.ctl = Idle]]
        \/ sock' = [sock EXCEPT ![h] = [sock[h] EXCEPT !.recv = Idle]]
        \/ sock' = [sock EXCEPT ![h] = [sock[h] EXCEPT !.send = Idle]]
    BY TypesKnown DEF RunL, CtlRunL, ReaderRunL, WriterRunL
  <2> DEFINE F == {[sock[h] EXCEPT !.ctl = Idle], [sock[h] EXCEPT !.recv = Idle],
                   [sock[h] EXCEPT !.send = Idle]}
  <2>3. \A b \in F : b \in SocketType /\ b.owner = c
    <3>1. PICK q \in SocketType : q = sock[h] /\ q.owner = c
      BY <1>3, <1>4
    <3>2. [q EXCEPT !.ctl = Idle] \in SocketType /\ [q EXCEPT !.ctl = Idle].owner = c
      BY <2>1, <3>1 DEF SocketType
    <3>3. [q EXCEPT !.recv = Idle] \in SocketType /\ [q EXCEPT !.recv = Idle].owner = c
      BY <2>1, <3>1 DEF SocketType
    <3>4. [q EXCEPT !.send = Idle] \in SocketType /\ [q EXCEPT !.send = Idle].owner = c
      BY <2>1, <3>1 DEF SocketType
    <3> QED BY <3>1, <3>2, <3>3, <3>4
  <2>4. \E b \in F : sock' = [sock EXCEPT ![h] = b]
    BY <2>2
  <2> HIDE DEF F
  <2> QED BY <2>3, <2>4
<1> DEFINE t == stream[c]
<1>8. t \in StreamType /\ Len(t.rx) <= RxCap /\ Len(t.tx) <= TxCap /\ t.handle = stream[c].handle
  BY TypesKnown
<1>9. stream' = [stream EXCEPT ![c] = t]
  BY <1>1, TypesKnown
<1>10. b.owner = c /\ sock' = [sock EXCEPT ![t.handle] = b]
  BY <1>4, <1>7
<1> HIDE DEF t
<1> QED BY <1>1, <1>4, <1>5, <1>6, <1>8, <1>9, <1>10, TypesKnown, OneStaysTied

\* A step of the socket server, on an object that a stream owns.
LEMMA NetworkTypes ==
    ASSUME TypeInv, Network
    PROVE  TypeInv'
<1>1. ASSUME NEW h \in Slots, sock[h].ctl.st = "pending" \/ sock[h].recv.st = "pending"
                                                        \/ sock[h].send.st = "pending"
      PROVE  /\ sock[h].owner \in Streams /\ IsOpen(sock[h].owner)
             /\ stream[sock[h].owner].handle = h /\ sock[h] \in SocketType
  <2>1. sock[h] # FreeSocket
    BY <1>1 DEF FreeSocket, Idle
  <2> QED BY <2>1, TiesKnown, TypesKnown
<1>2. ASSUME NEW h \in Slots, NEW c \in Streams, c = sock[h].owner, IsOpen(c),
             stream[c].handle = h, NEW t \in StreamType, t.handle = h,
             t.rx = stream[c].rx, t.tx = stream[c].tx, stream' = [stream EXCEPT ![c] = t],
             NEW b \in SocketType, b.owner = c, sock' = [sock EXCEPT ![h] = b],
             UNCHANGED <<ring, gui, app, lost, misled>>,
             taken' \in [Streams -> Nat], got' \in [Streams -> Seq(Nat)]
      PROVE  TypeInv'
  <2>1. Len(t.rx) <= RxCap /\ Len(t.tx) <= TxCap
    BY <1>2, TypesKnown
  <2>2. sock' = [sock EXCEPT ![t.handle] = b]
    BY <1>2
  <2>3. /\ ring' \in Seq(Event) /\ Len(ring') <= Capacity /\ lost' \subseteq Streams \X Kinds
        /\ gui' \in {"scheduler", "step"} /\ opened' = opened /\ misled' \subseteq Streams
        /\ read' \in [Streams -> Seq(Nat)] /\ wrote' \in [Streams -> Nat]
    BY <1>2, TypesKnown DEF app
  <2> QED BY <1>2, <2>1, <2>2, <2>3, OneStaysTied
<1>3. ASSUME NEW c \in Streams PROVE stream' = stream => stream' = [stream EXCEPT ![c] = stream[c]]
  BY TypesKnown
<1>4. \A status \in Statuses : \A n \in Numbers : Done(status, n) \in AO
  BY RequestsAre
<1>45. 0 \in Numbers /\ \A k \in 1..RxCap : k \in Numbers
  BY CapsAssumption DEF Numbers
<1>5. ASSUME NEW h \in Slots, NEW status \in {"ok", "error"}, ConnectEnds(h, status)
      PROVE  TypeInv'
  <2> DEFINE c == sock[h].owner
             b == [sock[h] EXCEPT !.ctl = Done(status, 0)]
  <2>1. c \in Streams /\ IsOpen(c) /\ stream[c].handle = h /\ sock[h] \in SocketType
    BY <1>1, <1>5 DEF ConnectEnds
  <2>2. b \in SocketType /\ b.owner = c
    <3>1. Done(status, 0) \in AO
      BY <1>4, <1>45 DEF Statuses
    <3> QED BY <2>1, <3>1, Fields, Zenon
  <2>3. /\ sock' = [sock EXCEPT ![h] = b] /\ stream' = stream
        /\ UNCHANGED <<ring, gui, app, lost, misled>> /\ UNCHANGED <<taken, got>>
    BY <1>5 DEF ConnectEnds
  <2> HIDE DEF b, c
  <2> QED BY <1>2, <1>3, <2>1, <2>2, <2>3, TypesKnown DEF c
<1>6. ASSUME NEW h \in Slots, NEW status \in {"eof", "error"}, ReadStops(h, status)
      PROVE  TypeInv'
  <2> DEFINE c == sock[h].owner
             b == [sock[h] EXCEPT !.recv = Done(status, 0)]
  <2>1. c \in Streams /\ IsOpen(c) /\ stream[c].handle = h /\ sock[h] \in SocketType
    BY <1>1, <1>6 DEF ReadStops
  <2>2. b \in SocketType /\ b.owner = c
    <3>1. Done(status, 0) \in AO
      BY <1>4, <1>45 DEF Statuses
    <3> QED BY <2>1, <3>1, Fields, Zenon
  <2>3. /\ sock' = [sock EXCEPT ![h] = b] /\ stream' = stream
        /\ UNCHANGED <<ring, gui, app, lost, misled>> /\ UNCHANGED <<taken, got>>
    BY <1>6 DEF ReadStops
  <2> HIDE DEF b, c
  <2> QED BY <1>2, <1>3, <2>1, <2>2, <2>3, TypesKnown DEF c
<1>7. ASSUME NEW h \in Slots, NEW k \in 1..RxCap, ReadEnds(h, k)
      PROVE  TypeInv'
  <2> DEFINE c == sock[h].owner
             b == [sock[h] EXCEPT !.recv = Done("ok", k)]
             l == [i \in 1..RxCap |-> IF i <= k THEN taken[c] + i ELSE stream[c].land[i]]
             t == [stream[c] EXCEPT !.land = l]
  <2>1. c \in Streams /\ IsOpen(c) /\ stream[c].handle = h /\ sock[h] \in SocketType
    BY <1>1, <1>7 DEF ReadEnds
  <2>2. b \in SocketType /\ b.owner = c
    <3>1. Done("ok", k) \in AO
      BY <1>4, <1>45 DEF Statuses
    <3> QED BY <2>1, <3>1, Fields, Zenon
  <2>3. l \in [1..RxCap -> Nat]
    <3>1. taken[c] \in Nat /\ stream[c].land \in [1..RxCap -> Nat]
      BY <2>1, TypesKnown DEF StreamType
    <3>2. ASSUME NEW i \in 1..RxCap PROVE l[i] \in Nat
      <4>1. i \in Nat /\ stream[c].land[i] \in Nat
        BY <3>1, CapsAssumption
      <4> QED BY <3>1, <4>1
    <3> QED BY <3>2
  <2>4. /\ sock' = [sock EXCEPT ![h] = b] /\ UNCHANGED <<ring, gui, app, lost, misled>> /\ got' = got
        /\ taken' = [taken EXCEPT ![c] = @ + k]
    BY <1>7 DEF ReadEnds
  <2>5. stream' = [stream EXCEPT ![c] = t]
    BY <1>7, TypesKnown DEF ReadEnds
  <2>6. taken' \in [Streams -> Nat]
    <3>1. taken[c] + k \in Nat
      BY <2>1, TypesKnown, CapsAssumption
    <3> QED BY <2>4, <3>1, TypesKnown
  <2>7. /\ t \in StreamType /\ t.handle = h /\ t.rx = stream[c].rx /\ t.tx = stream[c].tx
    <3>1. stream[c] \in StreamType
      BY <2>1, TypesKnown
    <3> HIDE DEF b, c, l
    <3>2. t \in StreamType
      BY <2>3, <3>1 DEF StreamType
    <3>3. t.handle = stream[c].handle /\ t.rx = stream[c].rx /\ t.tx = stream[c].tx
      BY <3>1 DEF StreamType
    <3> QED BY <2>1, <3>2, <3>3
  <2> HIDE DEF b, c, t, l
  <2> QED BY <1>2, <2>1, <2>2, <2>4, <2>5, <2>6, <2>7, TypesKnown DEF c
<1>8. ASSUME NEW h \in Slots, NEW status \in {"ok", "error"}, NEW k \in 0..TxCap,
             SendEnds(h, status, k)
      PROVE  TypeInv'
  <2> DEFINE c == sock[h].owner
             n == IF status = "ok" THEN sock[h].send.n ELSE 0
             b == [sock[h] EXCEPT !.send = Done(status, n)]
  <2>1. c \in Streams /\ IsOpen(c) /\ stream[c].handle = h /\ sock[h] \in SocketType
    BY <1>1, <1>8 DEF SendEnds
  <2>2. n \in Numbers
    <3>1. sock[h].send \in AO
      BY <2>1 DEF SocketType
    <3>2. sock[h].send.n \in Numbers
      BY <3>1 DEF AO, Numbers
    <3> QED BY <1>45, <3>2
  <2> HIDE DEF n
  <2>3. b \in SocketType /\ b.owner = c
    <3>1. Done(status, n) \in AO
      BY <1>4, <2>2 DEF Statuses
    <3> QED BY <2>1, <3>1, Fields, Zenon
  <2>4. /\ sock' = [sock EXCEPT ![h] = b] /\ UNCHANGED <<ring, gui, app, lost, misled>>
        /\ UNCHANGED <<stream, taken>> /\ k <= Len(stream[c].tx)
        /\ got' = [got EXCEPT ![c] = @ \o SubSeq(stream[c].tx, 1, k)]
    BY <1>8 DEF SendEnds, n
  <2>5. got' \in [Streams -> Seq(Nat)]
    <3>1. stream[c].tx \in Seq(Nat) /\ got[c] \in Seq(Nat)
      BY <2>1, TypesKnown DEF StreamType
    <3>2. k \in 0..Len(stream[c].tx)
      BY <2>4, <3>1, LenProperties
    <3>3. SubSeq(stream[c].tx, 1, k) \in Seq(Nat)
      BY <3>1, <3>2, Front
    <3>4. got[c] \o SubSeq(stream[c].tx, 1, k) \in Seq(Nat)
      BY <3>1, <3>3, ConcatProperties
    <3> QED BY <2>4, <3>4, TypesKnown
  <2> HIDE DEF b, c
  <2> QED BY <1>2, <1>3, <2>1, <2>3, <2>4, <2>5, TypesKnown DEF c
<1> QED BY <1>5, <1>6, <1>7, <1>8 DEF Network

LEMMA ConnectTypes ==
    ASSUME TypeInv, NEW c \in Streams, Connect(c)
    PROVE  TypeInv'
<1> DEFINE h == stream[c].handle
           t == [stream[c] EXCEPT !.state = "Connecting"]
           b == [sock[h] EXCEPT !.ctl = Asked(0)]
<1>1. /\ IsOpen(c) /\ stream' = [stream EXCEPT ![c] = t] /\ sock' = [sock EXCEPT ![h] = b]
      /\ UNCHANGED <<ring, gui, opened, lost, misled>> /\ UNCHANGED <<taken, read, wrote, got>>
  BY DEF Connect, IsOpen, app
<1>2. Asked(0) \in AO /\ "Connecting" \in States
  BY RequestsAre, CapsAssumption DEF Numbers, States, Statuses
<1>3. t \in StreamType /\ t.handle = h /\ t.rx = stream[c].rx /\ t.tx = stream[c].tx
  BY <1>2, TypesKnown, Fields
<1>4. b \in SocketType /\ b.owner = c
  <2>1. sock[h] \in SocketType /\ sock[h].owner = c
    BY <1>1, TiesKnown
  <2> QED BY <1>2, <2>1, Fields, Zenon
<1> HIDE DEF t, b
<1>5. Len(t.rx) <= RxCap /\ Len(t.tx) <= TxCap
  BY <1>3, TypesKnown
<1>6. b.owner = c /\ sock' = [sock EXCEPT ![t.handle] = b]
  BY <1>1, <1>3, <1>4
<1> QED BY <1>1, <1>3, <1>4, <1>5, <1>6, TypesKnown, OneStaysTied

LEMMA WriteTypes ==
    ASSUME TypeInv, NEW c \in Streams, NEW k \in 1..TxCap, Write(c, k)
    PROVE  TypeInv'
<1> DEFINE s == stream[c]
           h == s.handle
           room == TxCap - Len(s.tx)
           n == IF room < k THEN room ELSE k
           f == Filled(s, wrote[c], n)
           ao == sock[h].send
           t == TxPumped(f, ao)
           b == [sock[h] EXCEPT !.send = SendAfter(f, ao)]
<1>1. /\ IsOpen(c) /\ stream' = [stream EXCEPT ![c] = t] /\ sock' = [sock EXCEPT ![h] = b]
      /\ wrote' = [wrote EXCEPT ![c] = @ + n]
      /\ UNCHANGED <<ring, gui, opened, lost, misled>> /\ UNCHANGED <<taken, read, got>>
  BY DEF Write, IsOpen, Filled
<1>2. /\ s \in StreamType /\ s.tx \in Seq(Nat) /\ Len(s.rx) <= RxCap /\ wrote[c] \in Nat
      /\ sock[h] \in SocketType /\ sock[h].owner = c /\ ao \in AO
  BY <1>1, TypesKnown, TiesKnown DEF StreamType, SocketType
<1>3. n \in Nat /\ Len(s.tx) + n <= TxCap
  <2>1. PICK a \in Nat : a = Len(s.tx) /\ a <= TxCap
    BY <1>2, TypesKnown, LenProperties
  <2>2. PICK g \in Nat : g = TxCap - a
    <3>1. TxCap - a \in Nat
      BY <2>1, CapsAssumption
    <3> QED BY <3>1
  <2>3. n = (IF g < k THEN g ELSE k) /\ k \in Nat
    BY <2>1, <2>2, CapsAssumption
  <2> HIDE DEF n
  <2>4. n \in Nat /\ n <= g
    BY <2>2, <2>3
  <2> QED BY <2>1, <2>2, <2>4, CapsAssumption
<1> HIDE DEF n
<1>4. f \in StreamType /\ f.handle = h /\ f.rx = s.rx /\ Len(f.tx) <= TxCap
  <2> DEFINE w == [i \in 1..n |-> wrote[c] + i]
  <2>1. w \in Seq(Nat) /\ Len(w) = n
    <3>1. \A i \in 1..n : wrote[c] + i \in Nat
      BY <1>2, <1>3
    <3>2. w \in [1..n -> Nat]
      BY <3>1
    <3> QED BY <1>3, <3>2, SeqDef, LenProperties
  <2>2. f = [s EXCEPT !.tx = @ \o w]
    BY DEF Filled
  <2> HIDE DEF w
  <2>3. s.tx \o w \in Seq(Nat) /\ Len(s.tx \o w) = Len(s.tx) + n
    BY <1>2, <2>1, ConcatProperties
  <2> QED BY <1>2, <1>3, <2>2, <2>3 DEF StreamType
<1> HIDE DEF f, ao
<1>5. t \in StreamType /\ t.handle = h /\ t.rx = f.rx /\ t.tx = f.tx /\ SendAfter(f, ao) \in AO
  <2>1. Len(f.rx) <= RxCap
    BY <1>2, <1>4
  <2> QED BY <1>2, <1>4, <2>1, PumpTypes
<1>6. b \in SocketType /\ b.owner = c
  BY <1>2, <1>5, Fields, Zenon
<1> HIDE DEF t, b
<1>7. Len(t.rx) <= RxCap /\ Len(t.tx) <= TxCap
  BY <1>2, <1>4, <1>5
<1>8. b.owner = c /\ sock' = [sock EXCEPT ![t.handle] = b]
  BY <1>1, <1>5, <1>6
<1>9. wrote' \in [Streams -> Nat]
  BY <1>1, <1>2, <1>3, TypesKnown
<1> QED BY <1>1, <1>5, <1>6, <1>7, <1>8, <1>9, TypesKnown, OneStaysTied

LEMMA ReadTypes ==
    ASSUME TypeInv, NEW c \in Streams, NEW k \in 1..RxCap, Read(c, k)
    PROVE  TypeInv'
<1> DEFINE s == stream[c]
           h == s.handle
           n == IF Len(s.rx) < k THEN Len(s.rx) ELSE k
           f == Drained(s, n)
           ao == sock[h].recv
<1>1. /\ IF IsOpen(c)
         THEN /\ stream' = [stream EXCEPT ![c] = RxPumped(f, ao)]
              /\ sock' = [sock EXCEPT ![h] = [sock[h] EXCEPT !.recv = RecvAfter(f, ao)]]
         ELSE stream' = [stream EXCEPT ![c] = f] /\ sock' = sock
      /\ read' = [read EXCEPT ![c] = @ \o SubSeq(s.rx, 1, n)]
      /\ UNCHANGED <<ring, gui, opened, lost, misled>> /\ UNCHANGED <<taken, wrote, got>>
  BY TypesKnown DEF Read, IsOpen, Drained
<1>2. /\ s \in StreamType /\ s.rx \in Seq(Nat) /\ Len(s.rx) <= RxCap /\ Len(s.tx) <= TxCap
      /\ read[c] \in Seq(Nat) /\ Len(s.rx) \in Nat
  BY TypesKnown, LenProperties DEF StreamType
<1>3. n \in 0..Len(s.rx)
  <2>1. PICK a \in Nat : a = Len(s.rx)
    BY <1>2
  <2>2. n = (IF a < k THEN a ELSE k) /\ k \in Nat
    BY <2>1, CapsAssumption
  <2> HIDE DEF n
  <2> QED BY <2>1, <2>2
<1> HIDE DEF n
<1>4. /\ f \in StreamType /\ f.handle = h /\ f.tx = s.tx /\ Len(f.rx) <= RxCap
  <2>1. PICK w \in Seq(Nat) : w = SubSeq(s.rx, n + 1, Len(s.rx)) /\ Len(w) = Len(s.rx) - n
    BY <1>2, <1>3, Rest
  <2>2. f = [s EXCEPT !.rx = w]
    BY <2>1 DEF Drained
  <2>3. Len(w) <= RxCap
    <3>1. PICK a \in Nat : a = Len(s.rx) /\ a <= RxCap
      BY <1>2
    <3>2. n \in 0..a /\ Len(w) = a - n
      BY <1>3, <2>1, <3>1
    <3>3. a - n <= RxCap
      BY <3>1, <3>2, CapsAssumption
    <3> QED BY <3>2, <3>3
  <2> QED BY <1>2, <2>2, <2>3 DEF StreamType
<1>5. read' \in [Streams -> Seq(Nat)]
  <2>1. SubSeq(s.rx, 1, n) \in Seq(Nat)
    BY <1>2, <1>3, Front
  <2>2. read[c] \o SubSeq(s.rx, 1, n) \in Seq(Nat)
    BY <1>2, <2>1, ConcatProperties
  <2> QED BY <1>1, <2>2, TypesKnown
<1> HIDE DEF f, ao
<1>6. CASE ~IsOpen(c)
  <2>1. FreeSocket \in SocketType
    BY RequestsAre, CapsAssumption DEF Numbers, Statuses, FreeSocket, SocketType
  <2>2. Len(f.tx) <= TxCap
    BY <1>2, <1>4
  <2>3. stream' = [stream EXCEPT ![c] = f] /\ sock' = sock
    BY <1>1, <1>6
  <2> QED BY <1>1, <1>4, <1>5, <1>6, <2>1, <2>2, <2>3, TypesKnown, OneStaysTied
<1>7. CASE IsOpen(c)
  <2> DEFINE t == RxPumped(f, ao)
             b == [sock[h] EXCEPT !.recv = RecvAfter(f, ao)]
  <2>1. sock[h] \in SocketType /\ sock[h].owner = c /\ ao \in AO
    BY <1>7, TiesKnown DEF SocketType, ao
  <2>2. t \in StreamType /\ t.handle = h /\ t.rx = f.rx /\ t.tx = f.tx /\ RecvAfter(f, ao) \in AO
    <3>1. Len(f.tx) <= TxCap
      BY <1>2, <1>4
    <3> QED BY <1>4, <2>1, <3>1, PumpTypes
  <2>3. b \in SocketType /\ b.owner = c
    BY <2>1, <2>2, Fields, Zenon
  <2>4. stream' = [stream EXCEPT ![c] = t] /\ sock' = [sock EXCEPT ![h] = b]
    BY <1>1, <1>7
  <2> HIDE DEF t, b
  <2>5. Len(t.rx) <= RxCap /\ Len(t.tx) <= TxCap
    BY <1>2, <1>4, <2>2
  <2>6. b.owner = c /\ sock' = [sock EXCEPT ![t.handle] = b]
    BY <2>2, <2>3, <2>4
  <2> QED BY <1>1, <1>5, <1>7, <2>2, <2>3, <2>4, <2>5, <2>6, TypesKnown, OneStaysTied
<1> QED BY <1>6, <1>7

LEMMA NewTypes ==
    /\ NewStream \in StreamType /\ NewStream.rx = <<>> /\ NewStream.tx = <<>>
    /\ NewStream.handle = NoHandle
    /\ FreeSocket \in SocketType /\ FreeSocket.owner = NoStream
<1>1. /\ 0 \in 0..TxCap /\ [i \in 1..RxCap |-> 0] \in [1..RxCap -> Nat] /\ "Opening" \in States
      /\ <<>> \in Seq(Nat)
  BY CapsAssumption, EmptySeq DEF States
<1>2. Idle \in AO
  BY RequestsAre, CapsAssumption DEF Numbers, Statuses
<1> QED BY <1>1, <1>2 DEF NewStream, StreamType, FreeSocket, SocketType

LEMMA CloseTypes ==
    ASSUME TypeInv, NEW c \in Streams, Close(c)
    PROVE  TypeInv'
<1> DEFINE h == stream[c].handle
           t == [NewStream EXCEPT !.state = "Closed", !.rx = stream[c].rx]
<1>1. /\ IsOpen(c) /\ stream' = [stream EXCEPT ![c] = t]
      /\ sock' = [sock EXCEPT ![h] = FreeSocket]
      /\ UNCHANGED <<ring, gui, opened, lost, misled>> /\ UNCHANGED <<taken, read, wrote, got>>
  BY DEF Close, IsOpen, app
<1>2. h \in Slots /\ sock[h].owner = c
  BY <1>1, TiesKnown
<1>3. t \in StreamType /\ t.handle = NoHandle /\ t.rx = stream[c].rx /\ t.tx = <<>>
  <2>1. stream[c].rx \in Seq(Nat) /\ "Closed" \in States
    BY TypesKnown DEF StreamType, States
  <2> QED BY <2>1, NewTypes DEF StreamType
<1> HIDE DEF t
<1>4. \A d \in Streams : stream'[d] = IF d = c THEN t ELSE stream[d]
  BY <1>1, TypesKnown
<1>5. \A g \in Slots : sock'[g] = IF g = h THEN FreeSocket ELSE sock[g]
  BY <1>1, TypesKnown
<1>6. TypeOK'
  <2>1. stream' \in [Streams -> StreamType]
    BY <1>1, <1>3, TypesKnown
  <2>2. sock' \in [Slots -> SocketType]
    BY <1>1, NewTypes, TypesKnown
  <2>3. ASSUME NEW d \in Streams PROVE Len(stream'[d].rx) <= RxCap /\ Len(stream'[d].tx) <= TxCap
    <3>1. CASE d = c
      <4>1. Len(t.rx) <= RxCap /\ Len(t.tx) <= TxCap
        BY <1>3, TypesKnown, CapsAssumption, EmptySeq
      <4> QED BY <1>4, <3>1, <4>1
    <3>2. CASE d # c
      <4>1. stream'[d] = stream[d]
        BY <1>4, <3>2
      <4> QED BY <4>1, TypesKnown
    <3> QED BY <3>1, <3>2
  <2> QED BY <1>1, <2>1, <2>2, <2>3, TypesKnown DEF TypeOK, StreamType, SocketType
<1>7. ASSUME NEW d \in Streams, stream'[d].handle # NoHandle
      PROVE  d <= opened' /\ sock'[stream'[d].handle].owner = d
  <2>1. d # c /\ stream'[d] = stream[d]
    BY <1>3, <1>4, <1>7
  <2>2. IsOpen(d)
    BY <1>7, <2>1 DEF IsOpen
  <2>3. d <= opened /\ stream[d].handle \in Slots /\ sock[stream[d].handle].owner = d
    BY <2>2, TiesKnown DEF TypeInv, Tied
  <2>4. stream[d].handle # h
    BY <1>2, <2>1, <2>3
  <2> QED BY <1>1, <1>5, <2>1, <2>3, <2>4
<1>8. ASSUME NEW g \in Slots PROVE Linked(g)'
  <2>1. CASE g = h \/ sock[g].owner = NoStream
    <3>1. sock'[g] = FreeSocket
      BY <1>5, <2>1, TiesKnown
    <3> QED BY <3>1, NewTypes DEF Linked
  <2>2. CASE g # h /\ sock[g].owner # NoStream
    <3>1. sock'[g] = sock[g] /\ sock[g].owner \in Streams /\ stream[sock[g].owner].handle = g
      BY <1>5, <2>2, TiesKnown
    <3>2. stream'[sock[g].owner] = stream[sock[g].owner]
      BY <1>4, <2>2, <3>1
    <3> QED BY <2>2, <3>1, <3>2 DEF Linked
  <2> QED BY <2>1, <2>2
<1> QED BY <1>6, <1>7, <1>8 DEF TypeInv, Tied, IsOpen

LEMMA OpenTypes ==
    ASSUME TypeInv, NEW h \in Slots, Open(h)
    PROVE  TypeInv'
<1> DEFINE c == opened + 1
           t == [stream[c] EXCEPT !.handle = h]
           b == [FreeSocket EXCEPT !.owner = c]
<1>1. c \in Streams /\ c > opened /\ opened' = c /\ c \in 0..MaxStreams
  BY TypesKnown, BoundsAssumption DEF Open, Streams
<1>2. ~IsOpen(c)
  BY <1>1, TypesKnown DEF TypeInv, Tied
<1>3. /\ stream' = [stream EXCEPT ![c] = t] /\ sock' = [sock EXCEPT ![h] = b]
      /\ sock[h].owner = NoStream
      /\ UNCHANGED <<ring, gui, lost, misled>> /\ UNCHANGED <<taken, read, wrote, got>>
  BY <1>1, TypesKnown DEF Open, IsNextSlot
<1>4. t \in StreamType /\ t.handle = h /\ t.rx = stream[c].rx /\ t.tx = stream[c].tx
  <2>1. PICK s \in StreamType : s = stream[c]
    BY <1>1, TypesKnown
  <2>2. h \in Slots \cup {NoHandle}
    OBVIOUS
  <2> DEFINE u == [s EXCEPT !.handle = h]
  <2>3. u \in StreamType /\ u.handle = h /\ u.rx = s.rx /\ u.tx = s.tx
    BY <2>2 DEF StreamType
  <2>4. t = u
    BY <2>1
  <2> HIDE DEF t, u
  <2> QED BY <2>1, <2>3, <2>4
<1>5. b \in SocketType /\ b.owner = c
  BY <1>1, NewTypes DEF SocketType
<1>55. \A d \in Streams : d <= opened => d <= c
  BY TypesKnown DEF Streams
<1> HIDE DEF t, b, c
<1>6. \A d \in Streams : stream'[d] = IF d = c THEN t ELSE stream[d]
  BY <1>1, <1>3, TypesKnown
<1>7. \A g \in Slots : sock'[g] = IF g = h THEN b ELSE sock[g]
  BY <1>3, TypesKnown
<1>8. TypeOK'
  <2>1. stream' \in [Streams -> StreamType]
    BY <1>1, <1>3, <1>4, TypesKnown
  <2>2. sock' \in [Slots -> SocketType]
    BY <1>3, <1>5, TypesKnown
  <2>3. ASSUME NEW d \in Streams PROVE Len(stream'[d].rx) <= RxCap /\ Len(stream'[d].tx) <= TxCap
    <3>1. stream'[d].rx = stream[d].rx /\ stream'[d].tx = stream[d].tx
      BY <1>4, <1>6
    <3> QED BY <3>1, TypesKnown
  <2> QED BY <1>1, <1>3, <2>1, <2>2, <2>3, TypesKnown DEF TypeOK, StreamType, SocketType
<1>9. ASSUME NEW d \in Streams, stream'[d].handle # NoHandle
      PROVE  d <= opened' /\ sock'[stream'[d].handle].owner = d
  <2>1. CASE d = c
    <3>1. stream'[d].handle = h /\ sock'[h] = b
      BY <1>4, <1>6, <1>7, <2>1
    <3>2. c <= c
      BY <1>1, BoundsAssumption
    <3> QED BY <1>1, <1>5, <2>1, <3>1, <3>2
  <2>2. CASE d # c
    <3>1. stream'[d] = stream[d]
      BY <1>6, <2>2
    <3>2. IsOpen(d)
      BY <1>9, <3>1 DEF IsOpen
    <3>3. d <= opened /\ stream[d].handle \in Slots /\ sock[stream[d].handle].owner = d
      BY <3>2, TiesKnown DEF TypeInv, Tied
    <3>4. stream[d].handle # h
      BY <1>3, <3>3 DEF Streams, NoStream
    <3> QED BY <1>1, <1>55, <1>7, <3>1, <3>3, <3>4
  <2> QED BY <2>1, <2>2
<1>10. ASSUME NEW g \in Slots PROVE Linked(g)'
  <2>1. CASE g = h
    <3>1. sock'[g].owner = c /\ stream'[c].handle = g
      BY <1>1, <1>4, <1>5, <1>6, <1>7, <2>1
    <3>2. c # NoStream
      BY <1>1 DEF Streams, NoStream
    <3> QED BY <3>1, <3>2 DEF Linked
  <2>2. CASE g # h /\ sock[g].owner = NoStream
    <3>1. sock'[g] = FreeSocket
      BY <1>7, <2>2, TiesKnown
    <3> QED BY <3>1, NewTypes DEF Linked
  <2>3. CASE g # h /\ sock[g].owner # NoStream
    <3>1. /\ sock'[g] = sock[g] /\ sock[g].owner \in Streams /\ stream[sock[g].owner].handle = g
          /\ IsOpen(sock[g].owner)
      BY <1>7, <2>3, TiesKnown
    <3>2. stream'[sock[g].owner] = stream[sock[g].owner]
      BY <1>2, <1>6, <3>1
    <3> QED BY <2>3, <3>1, <3>2 DEF Linked
  <2> QED BY <2>1, <2>2, <2>3
<1> QED BY <1>8, <1>9, <1>10 DEF TypeInv, Tied, IsOpen

\* An event may be nobody's, or of a stream that had the slot before: what it is handed to
\* keeps its type all the same.
LEMMA PollTypes ==
    ASSUME TypeInv, Poll
    PROVE  TypeInv'
<1> DEFINE e == Head(ring)
<1>1. /\ ring # <<>> /\ ring' = Tail(ring)
      /\ stream' = [c \in Streams |-> IF stream[c].handle = e.handle
                                      THEN Handled(stream[c], e, sock[stream[c].handle])
                                      ELSE stream[c]]
      /\ sock' = [h \in Slots |-> IF \E c \in Held(h) : stream[c].handle = e.handle
                                  THEN SockHandled(stream[sock[h].owner], e, sock[h])
                                  ELSE sock[h]]
      /\ misled' = misled \cup {c \in Streams : stream[c].handle = e.handle /\ e.of # c}
      /\ UNCHANGED <<gui, opened, lost>> /\ UNCHANGED <<taken, read, wrote, got>>
  BY DEF Poll, Takes, app
<1>15. /\ gui' = gui /\ opened' = opened /\ lost' = lost /\ misled' \subseteq Streams
       /\ taken' = taken /\ read' = read /\ wrote' = wrote /\ got' = got
  BY <1>1, TypesKnown
<1>2. e \in Event /\ e.handle \in Slots /\ ring' \in Seq(Event) /\ Len(ring') <= Capacity
  <2>1. e \in Event /\ Tail(ring) \in Seq(Event) /\ Len(Tail(ring)) = Len(ring) - 1
    BY <1>1, TypesKnown, HeadTailProperties
  <2>2. PICK n \in Nat : n = Len(ring) /\ n <= Capacity
    BY TypesKnown, LenProperties
  <2>3. n - 1 <= Capacity
    BY <2>2, CapacityAssumption
  <2> QED BY <1>1, <2>1, <2>2, <2>3 DEF Event
<1> HIDE DEF e
<1>3. ASSUME NEW c \in Streams
      PROVE  /\ stream'[c] \in StreamType /\ stream'[c].handle = stream[c].handle
             /\ Len(stream'[c].rx) <= RxCap /\ Len(stream'[c].tx) <= TxCap
  <2>1. CASE stream[c].handle = e.handle
    <3>1. sock[stream[c].handle] \in SocketType
      BY <1>2, <2>1, TypesKnown
    <3>2. stream'[c] = Handled(stream[c], e, sock[stream[c].handle])
      BY <1>1, <2>1
    <3> QED BY <1>2, <3>1, <3>2, HandledTypes, TypesKnown
  <2>2. CASE stream[c].handle # e.handle
    <3>1. stream'[c] = stream[c]
      BY <1>1, <2>2
    <3> QED BY <3>1, TypesKnown
  <2> QED BY <2>1, <2>2
<1>4. ASSUME NEW h \in Slots
      PROVE  /\ sock'[h] \in SocketType /\ sock'[h].owner = sock[h].owner
             /\ sock[h].owner = NoStream => sock'[h] = sock[h]
  <2>1. CASE \E c \in Held(h) : stream[c].handle = e.handle
    <3>1. PICK c \in Streams : stream[c].handle = h
      BY <2>1 DEF Held
    <3>2. IsOpen(c) /\ sock[h].owner = c
      BY <3>1, TiesKnown, TypesKnown DEF IsOpen
    <3>3. sock'[h] = SockHandled(stream[c], e, sock[h])
      BY <1>1, <2>1, <3>2
    <3>4. sock[h].owner # NoStream
      BY <3>2 DEF Streams, NoStream
    <3> QED BY <1>2, <3>3, <3>4, HandledTypes, TypesKnown
  <2>2. CASE ~\E c \in Held(h) : stream[c].handle = e.handle
    <3>1. sock'[h] = sock[h]
      BY <1>1, <2>2
    <3> QED BY <3>1, TypesKnown
  <2> QED BY <2>1, <2>2
<1>5. TypeOK'
  <2>1. stream' \in [Streams -> StreamType]
    BY <1>1, <1>3
  <2>2. sock' \in [Slots -> SocketType]
    BY <1>1, <1>4
  <2>3. \A c \in Streams : Len(stream'[c].rx) <= RxCap /\ Len(stream'[c].tx) <= TxCap
    BY <1>3
  <2> QED BY <1>15, <1>2, <2>1, <2>2, <2>3, TypesKnown DEF TypeOK, StreamType, SocketType
<1>6. ASSUME NEW d \in Streams, stream'[d].handle # NoHandle
      PROVE  d <= opened' /\ sock'[stream'[d].handle].owner = d
  <2>1. IsOpen(d) /\ stream'[d].handle = stream[d].handle
    BY <1>3, <1>6 DEF IsOpen
  <2>2. d <= opened /\ stream[d].handle \in Slots /\ sock[stream[d].handle].owner = d
    BY <2>1, TiesKnown DEF TypeInv, Tied
  <2> QED BY <1>15, <1>4, <2>1, <2>2
<1>7. ASSUME NEW g \in Slots PROVE Linked(g)'
  <2>1. CASE sock[g].owner = NoStream
    BY <1>4, <2>1, TiesKnown DEF Linked
  <2>2. CASE sock[g].owner # NoStream
    <3>1. sock[g].owner \in Streams /\ stream[sock[g].owner].handle = g
      BY <2>2, TiesKnown
    <3>2. stream'[sock'[g].owner].handle = g /\ sock'[g].owner # NoStream
      BY <1>3, <1>4, <2>2, <3>1
    <3> QED BY <3>2 DEF Linked
  <2> QED BY <2>1, <2>2
<1> QED BY <1>5, <1>6, <1>7 DEF TypeInv, Tied, IsOpen

LEMMA InitTypes == Init => TypeInv
<1> SUFFICES ASSUME Init PROVE TypeInv
  OBVIOUS
<1>1. /\ stream = [c \in Streams |-> NewStream] /\ sock = [h \in Slots |-> FreeSocket]
      /\ ring = <<>> /\ gui = "scheduler" /\ opened = 0
      /\ taken = [c \in Streams |-> 0]
      /\ read = [c \in Streams |-> <<>>] /\ wrote = [c \in Streams |-> 0]
      /\ got = [c \in Streams |-> <<>>] /\ lost = {} /\ misled = {}
  BY DEF Init
<1> HIDE DEF Init
<1>2. <<>> \in Seq(Nat) /\ <<>> \in Seq(Event) /\ Len(<<>>) = 0
  BY EmptySeq
<1>3. TypeOK
  <2>1. stream \in [Streams -> StreamType] /\ sock \in [Slots -> SocketType]
    BY <1>1, NewTypes
  <2>2. \A c \in Streams : Len(stream[c].rx) <= RxCap /\ Len(stream[c].tx) <= TxCap
    BY <1>1, <1>2, NewTypes, CapsAssumption
  <2>3. Len(ring) <= Capacity /\ opened \in 0..MaxStreams
    BY <1>1, <1>2, CapacityAssumption, BoundsAssumption
  <2> QED BY <1>1, <1>2, <2>1, <2>2, <2>3 DEF TypeOK, StreamType, SocketType
<1>4. Tied
  BY <1>1, NewTypes DEF Tied, Linked, IsOpen
<1> QED BY <1>3, <1>4 DEF TypeInv

LEMMA TypesStay == TypeInv /\ [Next]_vars => TypeInv'
<1> SUFFICES ASSUME TypeInv, [Next]_vars PROVE TypeInv'
  OBVIOUS
<1>1. ASSUME UNCHANGED <<stream, sock, ring, opened, taken, read, wrote, got, lost, misled>>,
             gui' \in {"scheduler", "step"}
      PROVE  TypeInv'
  <2>1. TypeOK'
    BY <1>1 DEF TypeInv, TypeOK
  <2>2. Tied'
    BY <1>1 DEF TypeInv, Tied, IsOpen, Linked
  <2> QED BY <2>1, <2>2 DEF TypeInv
<1>2. CASE UNCHANGED vars
  BY <1>1, <1>2, TypesKnown DEF vars, app
<1>3. CASE Gui
  <2>1. CASE StepBegins \/ StepEnds
    BY <1>1, <2>1 DEF StepBegins, StepEnds, app
  <2> QED BY <1>3, <2>1, RunLTypes, PollTypes DEF Gui
<1>4. CASE App
  BY <1>4, OpenTypes, ConnectTypes, CloseTypes, WriteTypes, ReadTypes DEF App
<1>5. CASE Network
  BY <1>5, NetworkTypes
<1> QED BY <1>2, <1>3, <1>4, <1>5 DEF Next

\* The values are of their types, and each open stream and its socket name each other: the
\* slot a stream holds is owned by it, through every close and every slot given away again.
THEOREM TypesHold == Spec => []TypeInv
  BY InitTypes, TypesStay, PTL DEF Spec

\* What a stream buffers stays within the capacities it was given, and the ring within its
\* own, for any numbers of streams, slots and bytes, whoever's events a stream takes.
THEOREM TypeHolds == Spec => []TypeOK
<1>1. TypeInv => TypeOK
  BY DEF TypeInv
<1> QED BY <1>1, TypesHold, PTL

-----------------------------------------------------------------------------
\* The inductive invariant

\* All of a sound stream: C, R and S are its events in the ring, dr and ds say whether one
\* was dropped
Whole(s, b, C, R, S, dr, ds, tk, rd, wr, gt) ==
    /\ Ctl(s, b.ctl, C)
    /\ Rx(s, b.recv, R, dr, tk, rd)
    /\ Tx(s, b.send, S, ds, wr, gt)
    /\ s.state \in {"Opening", "Connecting"} => ~s.rxPending /\ wr = 0

Kept(c) ==
    IsOpen(c) =>
        /\ Mine(ring, c, stream[c].handle)
        /\ Whole(stream[c], sock[stream[c].handle], InRing(ring, c, "connected"),
                 InRing(ring, c, "recv"), InRing(ring, c, "sent"),
                 <<c, "recv">> \in lost, <<c, "sent">> \in lost,
                 taken[c], read[c], wrote[c], got[c])

Ordered(c) == InOrder(stream[c], taken[c], read[c]) /\ OutInOrder(wrote[c], got[c])

\* a stream that was not opened yet, of which nothing can be in the ring either
Fresh(c) ==
    c > opened =>
        /\ ~IsOpen(c) /\ stream[c].state = "Opening" /\ ~stream[c].rxPending
        /\ stream[c].txPending = 0 /\ Len(stream[c].tx) = 0
        /\ taken[c] = 0 /\ wrote[c] = 0
        /\ \A kind \in Kinds : InRing(ring, c, kind) = {} /\ <<c, kind>> \notin lost
        /\ c \notin misled

Safe(c) == c \notin misled => Kept(c) /\ Ordered(c)

IInv == TypeInv /\ \A c \in Streams : Safe(c) /\ Fresh(c)

\* What a step does that is none of a stream's: it leaves the stream and its socket, and of
\* the ring what a sound stream has there. An event of another may come or go.
Alone(c) ==
    /\ stream'[c] = stream[c] /\ taken'[c] = taken[c] /\ read'[c] = read[c]
    /\ wrote'[c] = wrote[c] /\ got'[c] = got[c]
    /\ IsOpen(c) => sock'[stream[c].handle] = sock[stream[c].handle]
    /\ Sound(c) \/ c > opened => \A kind \in Kinds :
          /\ InRing(ring', c, kind) = InRing(ring, c, kind)
          /\ <<c, kind>> \in lost' <=> <<c, kind>> \in lost
    /\ \A h : Mine(ring, c, h) => Mine(ring', c, h)
    /\ c \in misled' <=> c \in misled

\* A step that leaves a stream alone leaves what is known of it.
LEMMA LeftAlone ==
    ASSUME IInv, NEW c \in Streams, opened' \in Nat, opened <= opened', Alone(c)
    PROVE  Safe(c)' /\ Fresh(c)'
<1>1. /\ Safe(c) /\ Fresh(c) /\ c \in Int /\ opened \in Nat
  BY TypesKnown DEF IInv, Streams
<1>2. /\ stream'[c] = stream[c] /\ taken'[c] = taken[c] /\ read'[c] = read[c]
      /\ wrote'[c] = wrote[c] /\ got'[c] = got[c]
      /\ IsOpen(c) => sock'[stream[c].handle] = sock[stream[c].handle]
      /\ \A h : Mine(ring, c, h) => Mine(ring', c, h)
      /\ c \in misled' <=> c \in misled
  BY DEF Alone
<1>3. ASSUME Sound(c) \/ c > opened
      PROVE  \A kind \in Kinds : /\ InRing(ring', c, kind) = InRing(ring, c, kind)
                                 /\ <<c, kind>> \in lost' <=> <<c, kind>> \in lost
  BY <1>3 DEF Alone
<1>4. Fresh(c)'
  <2>1. c > opened' => c > opened
    BY <1>1
  <2> QED BY <1>1, <1>2, <1>3, <2>1 DEF Fresh, IsOpen
<1>5. ASSUME c \notin misled PROVE Ordered(c)'
  BY <1>1, <1>2, <1>5 DEF Safe, Ordered
<1>6. ASSUME c \notin misled, IsOpen(c) PROVE Kept(c)'
  <2>1. /\ InRing(ring', c, "connected") = InRing(ring, c, "connected")
        /\ InRing(ring', c, "recv") = InRing(ring, c, "recv")
        /\ InRing(ring', c, "sent") = InRing(ring, c, "sent")
        /\ (<<c, "recv">> \in lost') = (<<c, "recv">> \in lost)
        /\ (<<c, "sent">> \in lost') = (<<c, "sent">> \in lost)
    BY <1>3, <1>6 DEF Sound, Kinds
  <2>2. /\ Mine(ring, c, stream[c].handle)
        /\ Whole(stream[c], sock[stream[c].handle], InRing(ring, c, "connected"),
                 InRing(ring, c, "recv"), InRing(ring, c, "sent"),
                 <<c, "recv">> \in lost, <<c, "sent">> \in lost,
                 taken[c], read[c], wrote[c], got[c])
    BY <1>1, <1>6 DEF Safe, Kept
  <2>3. sock'[stream'[c].handle] = sock[stream[c].handle] /\ Mine(ring', c, stream'[c].handle)
    BY <1>2, <1>6, <2>2
  <2> QED BY <1>2, <2>1, <2>2, <2>3 DEF Kept
<1>7. ASSUME c \notin misled PROVE Kept(c)'
  <2>1. IsOpen(c)' <=> IsOpen(c)
    BY <1>2 DEF IsOpen
  <2> QED BY <1>6, <1>7, <2>1 DEF Kept
<1> QED BY <1>2, <1>4, <1>5, <1>7 DEF Safe

\* What the invariant says of one stream.
LEMMA Known ==
    ASSUME IInv, NEW c \in Streams
    PROVE  /\ stream[c] \in StreamType /\ Len(stream[c].rx) <= RxCap /\ Len(stream[c].tx) <= TxCap
           /\ taken[c] \in Nat /\ read[c] \in Seq(Nat) /\ wrote[c] \in Nat /\ got[c] \in Seq(Nat)
           /\ c \notin misled =>
                 InOrder(stream[c], taken[c], read[c]) /\ OutInOrder(wrote[c], got[c])
           /\ Fresh(c)
           /\ stream = [stream EXCEPT ![c] = stream[c]] /\ taken = [taken EXCEPT ![c] = taken[c]]
           /\ read = [read EXCEPT ![c] = read[c]] /\ wrote = [wrote EXCEPT ![c] = wrote[c]]
           /\ got = [got EXCEPT ![c] = got[c]]
<1>1. Safe(c) /\ Fresh(c) /\ TypeInv
  BY DEF IInv
<1> QED BY <1>1, TypesKnown DEF Safe, Ordered

LEMMA KnownOpen ==
    ASSUME IInv, NEW c \in Streams, IsOpen(c), c \notin misled
    PROVE  LET h == stream[c].handle
               b == sock[h]
           IN  /\ h \in Slots /\ b \in SocketType /\ b.owner = c
               /\ b.ctl \in AO /\ b.recv \in AO /\ b.send \in AO
               /\ Mine(ring, c, h)
               /\ Whole(stream[c], b, InRing(ring, c, "connected"), InRing(ring, c, "recv"),
                        InRing(ring, c, "sent"), <<c, "recv">> \in lost, <<c, "sent">> \in lost,
                        taken[c], read[c], wrote[c], got[c])
<1>1. TypeInv /\ Kept(c)
  BY DEF IInv, Safe
<1>2. /\ stream[c].handle \in Slots /\ sock[stream[c].handle].owner = c
      /\ sock[stream[c].handle] \in SocketType
  BY <1>1, TiesKnown
<1> QED BY <1>1, <1>2 DEF Kept, SocketType

\* A stream that is open was opened.
LEMMA OpenedBefore ==
    ASSUME TypeInv, NEW c \in Streams, IsOpen(c)
    PROVE  c <= opened /\ c \in Nat /\ opened \in Nat /\ ~(c > opened)
<1>1. c <= opened /\ c \in Nat /\ opened \in Nat
  BY TypesKnown, BoundsAssumption DEF TypeInv, Tied, Streams
<1> QED BY <1>1

LEMMA RingKnown ==
    ASSUME IInv
    PROVE  /\ ring \in Seq(Event) /\ Len(ring) <= Capacity
           /\ lost \subseteq Streams \X Kinds /\ gui \in {"scheduler", "step"}
           /\ opened \in Nat /\ misled \subseteq Streams
BY TypesKnown DEF IInv

\* A step of one stream leaves the others alone. If it leaves this one sound, what is known
\* of it stays; if it is misled nothing has to.
Apart(c) == /\ opened' \in Nat /\ opened <= opened'
            /\ \A d \in Streams \ {c} : Alone(d)

LEMMA Moves ==
    ASSUME IInv, TypeInv', NEW c \in Streams, Apart(c), Safe(c)', Fresh(c)'
    PROVE  IInv'
<1>1. ASSUME NEW d \in Streams \ {c} PROVE Safe(d)' /\ Fresh(d)'
  BY LeftAlone DEF Apart
<1> QED BY <1>1 DEF IInv

LEMMA MisledMoves ==
    ASSUME IInv, TypeInv', NEW c \in Streams, IsOpen(c) \/ c \in misled, Apart(c), c \in misled'
    PROVE  IInv'
<1>1. Safe(c)'
  BY DEF Safe
<1>2. opened \in Nat /\ opened' \in Nat /\ opened <= opened' /\ c \in Int /\ ~(c > opened)
  <2>1. c \in misled => ~(c > opened)
    BY DEF IInv, Fresh
  <2> QED BY <2>1, OpenedBefore, RingKnown DEF IInv, Apart, Streams
<1>3. ~(c > opened')
  BY <1>2
<1>4. Fresh(c)'
  BY <1>3 DEF Fresh
<1> QED BY <1>1, <1>4, Moves

\* A step of a sound stream and its socket, given by the values it leaves.
LEMMA OneMoves ==
    ASSUME IInv, NEW c \in Streams, c \notin misled,
           NEW t \in StreamType, Len(t.rx) <= RxCap, Len(t.tx) <= TxCap,
           t.handle = stream[c].handle, stream' = [stream EXCEPT ![c] = t],
           NEW b \in SocketType,
           IF IsOpen(c) THEN b.owner = c /\ sock' = [sock EXCEPT ![t.handle] = b]
                        ELSE sock' = sock,
           ring' \in Seq(Event), Len(ring') <= Capacity,
           \A d \in Streams \ {c} : Sound(d) \/ d > opened => \A kind \in Kinds :
               InRing(ring', d, kind) = InRing(ring, d, kind),
           \A d \in Streams \ {c} : \A h : Mine(ring, d, h) => Mine(ring', d, h),
           lost' \subseteq Streams \X Kinds,
           \A d \in Streams \ {c} : \A kind \in Kinds : <<d, kind>> \in lost' <=> <<d, kind>> \in lost,
           gui' \in {"scheduler", "step"}, opened' = opened, misled' = misled,
           NEW tk \in Nat, taken' = [taken EXCEPT ![c] = tk],
           NEW rd \in Seq(Nat), read' = [read EXCEPT ![c] = rd],
           NEW wr \in Nat, wrote' = [wrote EXCEPT ![c] = wr],
           NEW gt \in Seq(Nat), got' = [got EXCEPT ![c] = gt],
           InOrder(t, tk, rd), OutInOrder(wr, gt), Fresh(c)',
           IsOpen(c) => /\ Mine(ring', c, t.handle)
                        /\ Whole(t, b, InRing(ring', c, "connected"),
                              InRing(ring', c, "recv"), InRing(ring', c, "sent"),
                              <<c, "recv">> \in lost', <<c, "sent">> \in lost', tk, rd, wr, gt)
    PROVE  IInv'
<1>0. TypeInv /\ opened \in Nat
  BY RingKnown DEF IInv
<1>1. /\ stream'[c] = t /\ taken'[c] = tk /\ read'[c] = rd /\ wrote'[c] = wr /\ got'[c] = gt
      /\ \A d \in Streams \ {c} : /\ stream'[d] = stream[d] /\ taken'[d] = taken[d]
                                  /\ read'[d] = read[d] /\ wrote'[d] = wrote[d]
                                  /\ got'[d] = got[d]
  BY <1>0, TypesKnown
<1>2. /\ IsOpen(c) => t.handle \in Slots /\ sock'[t.handle] = b
      /\ \A g \in Slots : g # t.handle \/ ~IsOpen(c) => sock'[g] = sock[g]
  BY <1>0, TypesKnown, TiesKnown
<1>3. TypeInv'
  <2>1. /\ taken' \in [Streams -> Nat] /\ read' \in [Streams -> Seq(Nat)]
        /\ wrote' \in [Streams -> Nat] /\ got' \in [Streams -> Seq(Nat)]
        /\ misled' \subseteq Streams
    BY <1>0, TypesKnown
  <2> QED BY <1>0, <2>1, OneStaysTied
<1>4. ASSUME NEW d \in Streams \ {c} PROVE Alone(d)
  <2>1. IsOpen(d) => sock'[stream[d].handle] = sock[stream[d].handle]
    <3>1. IsOpen(d) => stream[d].handle # t.handle /\ stream[d].handle \in Slots
      BY <1>0, TiesKnown
    <3> QED BY <1>2, <3>1
  <2>2. \A kind \in Kinds : <<d, kind>> \in lost' <=> <<d, kind>> \in lost
    OBVIOUS
  <2>3. \A h : Mine(ring, d, h) => Mine(ring', d, h)
    OBVIOUS
  <2>4. Sound(d) \/ d > opened =>
            \A kind \in Kinds : InRing(ring', d, kind) = InRing(ring, d, kind)
    OBVIOUS
  <2> QED BY <1>1, <2>1, <2>2, <2>3, <2>4, Zenon DEF Alone
<1>5. Apart(c)
  BY <1>0, <1>4 DEF Apart
<1>6. Safe(c)'
  <2>1. Ordered(c)'
    BY <1>1 DEF Ordered
  <2>2. Kept(c)'
    BY <1>1, <1>2 DEF Kept, IsOpen
  <2> QED BY <2>1, <2>2 DEF Safe
<1> QED BY <1>3, <1>5, <1>6, Moves

\* OneMoves, for a stream that is open while the ring stays as it is.
LEMMA OpenMoves ==
    ASSUME IInv, NEW c \in Streams, IsOpen(c), c \notin misled,
           NEW t \in StreamType, Len(t.rx) <= RxCap, Len(t.tx) <= TxCap,
           t.handle = stream[c].handle, stream' = [stream EXCEPT ![c] = t],
           NEW b \in SocketType, b.owner = c, sock' = [sock EXCEPT ![t.handle] = b],
           UNCHANGED <<ring, gui, opened, lost, misled>>,
           NEW tk \in Nat, taken' = [taken EXCEPT ![c] = tk],
           NEW rd \in Seq(Nat), read' = [read EXCEPT ![c] = rd],
           NEW wr \in Nat, wrote' = [wrote EXCEPT ![c] = wr],
           NEW gt \in Seq(Nat), got' = [got EXCEPT ![c] = gt],
           InOrder(t, tk, rd), OutInOrder(wr, gt),
           Whole(t, b, InRing(ring, c, "connected"), InRing(ring, c, "recv"),
                 InRing(ring, c, "sent"), <<c, "recv">> \in lost, <<c, "sent">> \in lost,
                 tk, rd, wr, gt)
    PROVE  IInv'
<1>1. ring' = ring /\ gui' = gui /\ opened' = opened /\ lost' = lost /\ misled' = misled
  OBVIOUS
<1>2. /\ ring' \in Seq(Event) /\ Len(ring') <= Capacity
      /\ lost' \subseteq Streams \X Kinds /\ gui' \in {"scheduler", "step"}
  BY <1>1, RingKnown
<1>3. /\ \A d, kind : InRing(ring', d, kind) = InRing(ring, d, kind)
      /\ \A d, h : Mine(ring, d, h) => Mine(ring', d, h)
  BY <1>1
<1>4. Fresh(c)'
  BY <1>1, OpenedBefore DEF Fresh, IInv
<1>5. \A d \in Streams \ {c} : \A kind \in Kinds : <<d, kind>> \in lost' <=> <<d, kind>> \in lost
  BY <1>1
<1>6. /\ Mine(ring', c, t.handle)
      /\ Whole(t, b, InRing(ring', c, "connected"), InRing(ring', c, "recv"),
               InRing(ring', c, "sent"), <<c, "recv">> \in lost', <<c, "sent">> \in lost',
               tk, rd, wr, gt)
  BY <1>1, KnownOpen
<1>7. IF IsOpen(c) THEN b.owner = c /\ sock' = [sock EXCEPT ![t.handle] = b] ELSE sock' = sock
  OBVIOUS
<1>8. \A d \in Streams \ {c} : Sound(d) \/ d > opened => \A kind \in Kinds :
         InRing(ring', d, kind) = InRing(ring, d, kind)
  BY <1>3
<1>9. \A d \in Streams \ {c} : \A h : Mine(ring, d, h) => Mine(ring', d, h)
  BY <1>3
<1> QED BY <1>1, <1>2, <1>4, <1>5, <1>6, <1>7, <1>8, <1>9, OneMoves

\* An object that is active belongs to an open stream.
LEMMA OwnerIsOpen ==
    ASSUME IInv, NEW h \in Slots, \E ao \in AOs(h) : IsActive(ao)
    PROVE  /\ sock[h].owner \in Streams /\ IsOpen(sock[h].owner)
           /\ stream[sock[h].owner].handle = h
<1>1. sock[h] # FreeSocket
  BY DEF AOs, IsActive, FreeSocket, Idle
<1> QED BY <1>1, TiesKnown DEF IInv

LEMMA ConnectKeeps ==
    ASSUME IInv, NEW c \in Streams, c \notin misled, Connect(c)
    PROVE  IInv'
<1> DEFINE s == stream[c]
           h == s.handle
           t == [s EXCEPT !.state = "Connecting"]
           b == [sock[h] EXCEPT !.ctl = Asked(0)]
           C == InRing(ring, c, "connected")
           R == InRing(ring, c, "recv")
           S == InRing(ring, c, "sent")
           dr == <<c, "recv">> \in lost
           ds == <<c, "sent">> \in lost
<1>1. /\ IsOpen(c) /\ s.state = "Opening" /\ ~IsActive(sock[h].ctl)
      /\ stream' = [stream EXCEPT ![c] = t] /\ sock' = [sock EXCEPT ![h] = b]
      /\ UNCHANGED <<ring, gui, opened, lost, misled>> /\ UNCHANGED <<taken, read, wrote, got>>
  BY DEF Connect, IsOpen, app
<1>2. Asked(0) \in AO /\ "Connecting" \in States
  BY RequestsAre, CapsAssumption DEF Numbers, States, Statuses
<1>3. /\ t \in StreamType /\ t.state = "Connecting" /\ t.handle = h /\ t.rx = s.rx
      /\ t.rxPending = s.rxPending /\ t.land = s.land /\ t.tx = s.tx
      /\ t.txPending = s.txPending
  BY <1>2, Known, Fields
<1>4. /\ b \in SocketType /\ b.ctl = Asked(0) /\ b.recv = sock[h].recv
      /\ b.send = sock[h].send /\ b.owner = c
  <2>1. sock[h] \in SocketType /\ sock[h].owner = c
    BY <1>1, KnownOpen
  <2> QED BY <1>2, <2>1, Fields
<1>5. Whole(s, sock[h], C, R, S, dr, ds, taken[c], read[c], wrote[c], got[c])
  BY <1>1, KnownOpen
<1> HIDE DEF t, b, C, R, S, dr, ds
<1>6. Whole(t, b, C, R, S, dr, ds, taken[c], read[c], wrote[c], got[c])
  <2>1. Ctl(s, sock[h].ctl, C) /\ s.state # "Connecting"
    BY <1>1, <1>5 DEF Whole
  <2>2. Ctl(t, b.ctl, C)
    BY <1>3, <2>1, Zenon DEF Ctl
  <2>3. Rx(t, b.recv, R, dr, taken[c], read[c])
    BY <1>3, <1>4, <1>5, RxSame, Zenon DEF Whole
  <2>4. Tx(s, sock[h].send, S, ds, wrote[c], got[c]) /\ t.state # "Connected"
    BY <1>3, <1>5 DEF Whole
  <2>5. Tx(t, b.send, S, ds, wrote[c], got[c])
    BY <1>3, <1>4, <2>4, TxSame
  <2>6. ~t.rxPending /\ wrote[c] = 0
    BY <1>1, <1>3, <1>5, Zenon DEF Whole
  <2> QED BY <2>2, <2>3, <2>5, <2>6, Zenon DEF Whole
<1>7. InOrder(t, taken[c], read[c])
  BY <1>3, Known, RxSame
<1> QED BY <1>1, <1>3, <1>4, <1>6, <1>7, Known, OpenMoves DEF C, R, S, dr, ds

LEMMA ConnectEndsKeeps ==
    ASSUME IInv, NEW h \in Slots, NEW status \in {"ok", "error"}, ConnectEnds(h, status),
           sock[h].owner \notin misled
    PROVE  IInv'
<1> DEFINE c == sock[h].owner
           b == [sock[h] EXCEPT !.ctl = Done(status, 0)]
           C == InRing(ring, c, "connected")
           R == InRing(ring, c, "recv")
           S == InRing(ring, c, "sent")
           dr == <<c, "recv">> \in lost
           ds == <<c, "sent">> \in lost
<1>1. /\ sock[h].ctl.st = "pending" /\ sock' = [sock EXCEPT ![h] = b] /\ stream' = stream
      /\ UNCHANGED <<ring, gui, opened, lost, misled>> /\ UNCHANGED <<taken, read, wrote, got>>
  BY DEF ConnectEnds, app
<1>2. c \in Streams /\ IsOpen(c) /\ stream[c].handle = h /\ c \notin misled
  BY <1>1, OwnerIsOpen DEF AOs, IsActive
<1>3. Done(status, 0) \in AO /\ IsActive(Done(status, 0))
  BY RequestsAre, CapsAssumption DEF Numbers, Statuses
<1>4. /\ b \in SocketType /\ b.ctl = Done(status, 0) /\ b.recv = sock[h].recv
      /\ b.send = sock[h].send /\ b.owner = c
  <2>1. sock[h] \in SocketType
    BY <1>2, KnownOpen
  <2> QED BY <1>3, <2>1, Fields
<1>5. Whole(stream[c], sock[h], C, R, S, dr, ds, taken[c], read[c], wrote[c], got[c])
  BY <1>2, KnownOpen
<1> HIDE DEF b, C, R, S, dr, ds
<1>6. Whole(stream[c], b, C, R, S, dr, ds, taken[c], read[c], wrote[c], got[c])
  <2>1. Ctl(stream[c], sock[h].ctl, C) /\ IsActive(sock[h].ctl)
    BY <1>1, <1>5 DEF Whole, IsActive
  <2>2. Ctl(stream[c], b.ctl, C)
    BY <1>3, <1>4, <2>1, Zenon DEF Ctl
  <2> QED BY <1>4, <1>5, <2>2, Zenon DEF Whole
<1> HIDE DEF c
<1>7. IInv'
  <2>1. stream' = [stream EXCEPT ![c] = stream[c]] /\ stream[c] \in StreamType
    BY <1>1, <1>2, Known
  <2> QED BY <1>1, <1>2, <1>4, <1>6, <2>1, Known, OpenMoves DEF C, R, S, dr, ds
<1> QED BY <1>7

LEMMA WriteKeeps ==
    ASSUME IInv, NEW c \in Streams, c \notin misled, NEW k \in 1..TxCap, Write(c, k)
    PROVE  IInv' /\ stream'[c].state = "Connected" /\ IsOpen(c)
           /\ \E n \in Nat : wrote' = [wrote EXCEPT ![c] = @ + n]
<1> DEFINE s == stream[c]
           h == s.handle
           room == TxCap - Len(s.tx)
           n == IF room < k THEN room ELSE k
           f == Filled(s, wrote[c], n)
           t == TxPumped(f, sock[h].send)
           x == SendAfter(f, sock[h].send)
           b == [sock[h] EXCEPT !.send = x]
           C == InRing(ring, c, "connected")
           R == InRing(ring, c, "recv")
           S == InRing(ring, c, "sent")
           dr == <<c, "recv">> \in lost
           ds == <<c, "sent">> \in lost
<1>1. /\ IsOpen(c) /\ s.state = "Connected"
      /\ stream' = [stream EXCEPT ![c] = t] /\ sock' = [sock EXCEPT ![h] = b]
      /\ wrote' = [wrote EXCEPT ![c] = wrote[c] + n]
      /\ UNCHANGED <<ring, gui, opened, lost, misled>> /\ UNCHANGED <<taken, read, got>>
  BY DEF Write, IsOpen, Filled
<1>2. n \in Nat /\ Len(s.tx) + n <= TxCap
  <2>1. PICK a \in Nat : a = Len(s.tx)
    BY Known, LenProperties DEF StreamType
  <2>2. a <= TxCap /\ n = IF TxCap - a < k THEN TxCap - a ELSE k
    BY <2>1, Known
  <2>3. k \in Nat /\ TxCap \in Nat
    BY CapsAssumption
  <2> HIDE DEF n
  <2>4. n \in Nat /\ a + n <= TxCap
    BY <2>2, <2>3
  <2> QED BY <2>1, <2>4
<1>3. Whole(s, sock[h], C, R, S, dr, ds, taken[c], read[c], wrote[c], got[c])
  BY <1>1, KnownOpen
<1>4. /\ s \in StreamType /\ Len(s.rx) <= RxCap /\ Len(s.tx) <= TxCap
      /\ taken[c] \in Nat /\ read[c] \in Seq(Nat) /\ wrote[c] \in Nat /\ got[c] \in Seq(Nat)
      /\ InOrder(s, taken[c], read[c]) /\ OutInOrder(wrote[c], got[c])
  BY Known
<1>5. sock[h] \in SocketType /\ sock[h].send \in AO /\ sock[h].owner = c
  BY <1>1, KnownOpen
<1> HIDE DEF n, C, R, S, dr, ds
<1>6. /\ f \in StreamType /\ Len(f.tx) <= TxCap
      /\ f.rx = s.rx /\ f.rxPending = s.rxPending /\ f.land = s.land
      /\ f.handle = h /\ f.state = s.state
      /\ Tx(f, sock[h].send, S, ds, wrote[c] + n, got[c]) /\ OutInOrder(wrote[c] + n, got[c])
  <2>1. Tx(s, sock[h].send, S, ds, wrote[c], got[c])
    BY <1>3 DEF Whole
  <2> QED BY <1>2, <1>4, <2>1, TxFilled
<1> HIDE DEF f
<1>7. /\ t \in StreamType /\ x \in AO /\ t.rx = f.rx /\ t.state = f.state
      /\ t.rxPending = f.rxPending /\ t.land = f.land /\ t.tx = f.tx /\ t.handle = f.handle
      /\ Tx(t, x, S, ds, wrote[c] + n, got[c])
  <2>1. ds \in BOOLEAN /\ wrote[c] + n \in Nat
    BY <1>2, <1>4 DEF ds
  <2> QED BY <1>4, <1>5, <1>6, <2>1, PumpTx
<1> HIDE DEF t, x
<1>8. /\ b \in SocketType /\ b.ctl = sock[h].ctl /\ b.recv = sock[h].recv /\ b.send = x
      /\ b.owner = c
  BY <1>5, <1>7, Fields
<1> HIDE DEF b
<1>9. Whole(t, b, C, R, S, dr, ds, taken[c], read[c], wrote[c] + n, got[c])
  <2>1. Ctl(s, sock[h].ctl, C)
    BY <1>3 DEF Whole
  <2>2. Ctl(t, b.ctl, C)
    BY <1>6, <1>7, <1>8, <2>1, Zenon DEF Ctl
  <2>3. Rx(t, b.recv, R, dr, taken[c], read[c])
    BY <1>3, <1>6, <1>7, <1>8, RxSame, Zenon DEF Whole
  <2>4. t.state \notin {"Opening", "Connecting"}
    BY <1>1, <1>6, <1>7
  <2> QED BY <1>7, <1>8, <2>2, <2>3, <2>4, Zenon DEF Whole
<1>10. InOrder(t, taken[c], read[c])
  BY <1>4, <1>6, <1>7, RxSame
<1>11. IInv'
  <2>1. Len(t.rx) <= RxCap /\ Len(t.tx) <= TxCap /\ t.handle = h /\ wrote[c] + n \in Nat
    BY <1>2, <1>4, <1>6, <1>7
  <2> QED BY <1>1, <1>4, <1>6, <1>7, <1>8, <1>9, <1>10, <2>1, Known, OpenMoves DEF C, R, S, dr, ds
<1>12. stream'[c].state = "Connected"
  <2>1. stream'[c] = t
    BY <1>1, TypesKnown DEF IInv
  <2> QED BY <1>1, <1>6, <1>7, <2>1
<1> QED BY <1>1, <1>2, <1>11, <1>12

LEMMA ReadKeeps ==
    ASSUME IInv, NEW c \in Streams, c \notin misled, NEW k \in 1..RxCap, Read(c, k)
    PROVE  /\ IInv' /\ stream'[c].state = stream[c].state
           /\ \E n \in Nat : \E r \in Seq(Nat) :
                 /\ Len(read[c]) + n <= taken[c] /\ read' = [read EXCEPT ![c] = r]
                 /\ Len(r) = Len(read[c]) + n
                 /\ \A i \in 1..Len(r) : r[i] = IF i <= Len(read[c]) THEN read[c][i] ELSE i
<1> DEFINE s == stream[c]
           h == s.handle
           n == IF Len(s.rx) < k THEN Len(s.rx) ELSE k
           f == Drained(s, n)
           r == read[c] \o SubSeq(s.rx, 1, n)
           t == RxPumped(f, sock[h].recv)
           x == RecvAfter(f, sock[h].recv)
           b == [sock[h] EXCEPT !.recv = x]
           C == InRing(ring, c, "connected")
           R == InRing(ring, c, "recv")
           S == InRing(ring, c, "sent")
           dr == <<c, "recv">> \in lost
           ds == <<c, "sent">> \in lost
<1>1. /\ read' = [read EXCEPT ![c] = r]
      /\ IF IsOpen(c) THEN stream' = [stream EXCEPT ![c] = t] /\ sock' = [sock EXCEPT ![h] = b]
                      ELSE stream' = [stream EXCEPT ![c] = f] /\ sock' = sock
      /\ UNCHANGED <<ring, gui, opened, lost, misled>> /\ UNCHANGED <<taken, wrote, got>>
  BY DEF Read, IsOpen, Drained
<1>2. /\ s \in StreamType /\ Len(s.rx) <= RxCap /\ Len(s.tx) <= TxCap
      /\ taken[c] \in Nat /\ read[c] \in Seq(Nat) /\ wrote[c] \in Nat /\ got[c] \in Seq(Nat)
      /\ InOrder(s, taken[c], read[c]) /\ OutInOrder(wrote[c], got[c]) /\ Fresh(c)
  BY Known
<1>3. n \in 0..Len(s.rx)
  <2>1. PICK a \in Nat : a = Len(s.rx)
    BY <1>2, LenProperties DEF StreamType
  <2>2. n = (IF a < k THEN a ELSE k) /\ k \in Nat
    BY <2>1, CapsAssumption
  <2> HIDE DEF n
  <2> QED BY <2>1, <2>2
<1> HIDE DEF n, C, R, S, dr, ds
<1>4. /\ f \in StreamType /\ Len(f.rx) <= RxCap /\ r \in Seq(Nat)
      /\ Len(r) = Len(read[c]) + n
      /\ \A i \in 1..Len(r) : r[i] = IF i <= Len(read[c]) THEN read[c][i] ELSE i
      /\ InOrder(f, taken[c], r)
      /\ f.handle = h /\ f.state = s.state /\ f.tx = s.tx /\ f.txPending = s.txPending
      /\ \A ao \in AO : \A E, d :
            Rx(s, ao, E, d, taken[c], read[c]) => Rx(f, ao, E, d, taken[c], r)
  <2>1. LET g == Drained(s, n)
            q == read[c] \o SubSeq(s.rx, 1, n)
        IN  /\ g \in StreamType /\ Len(g.rx) <= RxCap /\ q \in Seq(Nat)
            /\ Len(q) = Len(read[c]) + n
            /\ \A i \in 1..Len(q) : q[i] = IF i <= Len(read[c]) THEN read[c][i] ELSE i
            /\ InOrder(g, taken[c], q)
            /\ g.handle = s.handle /\ g.state = s.state /\ g.tx = s.tx
            /\ g.txPending = s.txPending
            /\ \A ao \in AO : \A E, d :
                  Rx(s, ao, E, d, taken[c], read[c]) => Rx(g, ao, E, d, taken[c], q)
    <3> HIDE DEF s
    <3> QED BY <1>2, <1>3, RxDrained, Zenon
  <2> QED BY <2>1, Zenon DEF f, r, h
<1>5. f.rxPending = s.rxPending
  BY <1>2 DEF Drained, StreamType
<1> HIDE DEF f, r
<1>6. \E m \in Nat : \E q \in Seq(Nat) :
          /\ Len(read[c]) + m <= taken[c] /\ read' = [read EXCEPT ![c] = q]
          /\ Len(q) = Len(read[c]) + m
          /\ \A i \in 1..Len(q) : q[i] = IF i <= Len(read[c]) THEN read[c][i] ELSE i
  <2>1. n \in Nat
    BY <1>3
  <2>2. Len(read[c]) + n <= taken[c]
    <3>1. PICK a \in Nat, d \in Nat : a = Len(f.rx) /\ d = Len(read[c])
      BY <1>2, <1>4, LenProperties DEF StreamType
    <3>2. Len(r) + Len(f.rx) <= taken[c] /\ Len(r) = Len(read[c]) + n
      BY <1>4 DEF InOrder
    <3>3. PICK e \in Nat : e = taken[c]
      BY <1>2
    <3>4. (d + n) + a <= e
      BY <3>1, <3>2, <3>3
    <3>5. d + n <= e
      BY <2>1, <3>4
    <3> QED BY <3>1, <3>3, <3>5
  <2> QED BY <1>1, <1>4, <2>1, <2>2
<1>7. CASE ~IsOpen(c)
  <2>1. Fresh(c)'
    <3>1. stream'[c] = f
      BY <1>1, <1>7, TypesKnown DEF IInv
    <3> QED BY <1>1, <1>2, <1>4, <1>5, <3>1, Zenon DEF Fresh, IsOpen
  <2>2. /\ ring' \in Seq(Event) /\ Len(ring') <= Capacity
        /\ lost' \subseteq Streams \X Kinds /\ gui' \in {"scheduler", "step"}
    BY <1>1, RingKnown
  <2>3. /\ \A d \in Streams \ {c} : Sound(d) \/ d > opened => \A kind \in Kinds :
              InRing(ring', d, kind) = InRing(ring, d, kind)
        /\ \A d \in Streams \ {c} : \A g : Mine(ring, d, g) => Mine(ring', d, g)
    BY <1>1
  <2>4. NoStream \in Streams \cup {NoStream} /\ FreeSocket \in SocketType
    BY RequestsAre, CapsAssumption DEF Numbers, Statuses, FreeSocket, SocketType
  <2>5. IF IsOpen(c) THEN FreeSocket.owner = c /\ sock' = [sock EXCEPT ![f.handle] = FreeSocket]
                     ELSE sock' = sock
    BY <1>1, <1>7
  <2>6. \A d \in Streams \ {c} : \A kind \in Kinds : <<d, kind>> \in lost' <=> <<d, kind>> \in lost
    BY <1>1
  <2>7. taken' = [taken EXCEPT ![c] = taken[c]] /\ wrote' = [wrote EXCEPT ![c] = wrote[c]]
        /\ got' = [got EXCEPT ![c] = got[c]]
    BY <1>1, Known
  <2>8. stream' = [stream EXCEPT ![c] = f] /\ Len(f.tx) <= TxCap
    BY <1>1, <1>2, <1>4, <1>7
  <2>9. IInv'
    BY <1>1, <1>2, <1>4, <1>7, <2>1, <2>2, <2>3, <2>4, <2>5, <2>6, <2>7, <2>8, OneMoves
  <2>10. stream'[c].state = stream[c].state
    BY <1>4, <2>8, TypesKnown DEF IInv
  <2> QED BY <1>6, <2>9, <2>10
<1>8. CASE IsOpen(c)
  <2>1. sock[h] \in SocketType /\ sock[h].recv \in AO /\ sock[h].owner = c
    BY <1>8, KnownOpen
  <2>2. Whole(s, sock[h], C, R, S, dr, ds, taken[c], read[c], wrote[c], got[c])
    BY <1>8, KnownOpen DEF C, R, S, dr, ds
  <2>3. Rx(f, sock[h].recv, R, dr, taken[c], r)
    BY <1>4, <2>1, <2>2, Zenon DEF Whole
  <2>4. /\ t \in StreamType /\ x \in AO /\ t.rx = f.rx /\ t.state = f.state
        /\ t.tx = f.tx /\ t.txPending = f.txPending /\ t.handle = f.handle
        /\ Rx(t, x, R, dr, taken[c], r)
    <3>1. dr \in BOOLEAN
      BY DEF dr
    <3> QED BY <1>2, <1>4, <2>1, <2>3, <3>1, PumpRx
  <2>5. f.state # "Connected" => t = f
    BY DEF RxPumped, Recvs, WantsRead
  <2> HIDE DEF t, x
  <2>6. /\ b \in SocketType /\ b.ctl = sock[h].ctl /\ b.send = sock[h].send /\ b.recv = x
        /\ b.owner = c
    BY <2>1, <2>4, Fields
  <2> HIDE DEF b
  <2>7. Whole(t, b, C, R, S, dr, ds, taken[c], r, wrote[c], got[c])
    <3>1. Ctl(t, b.ctl, C)
      <4>1. Ctl(s, sock[h].ctl, C)
        BY <2>2 DEF Whole
      <4> QED BY <1>4, <2>4, <2>6, <4>1, Zenon DEF Ctl
    <3>2. Tx(s, sock[h].send, S, ds, wrote[c], got[c])
      BY <2>2 DEF Whole
    <3>3. Tx(t, b.send, S, ds, wrote[c], got[c])
      BY <1>4, <2>4, <2>6, <3>2, TxSame
    <3>4. t.state \in {"Opening", "Connecting"} => ~t.rxPending /\ wrote[c] = 0
      <4>1. s.state \in {"Opening", "Connecting"} => ~s.rxPending /\ wrote[c] = 0
        BY <2>2, Zenon DEF Whole
      <4> QED BY <1>4, <1>5, <2>4, <2>5, <4>1
    <3> QED BY <2>4, <2>6, <3>1, <3>3, <3>4, Zenon DEF Whole
  <2>8. InOrder(t, taken[c], r)
    BY <1>4, <2>4 DEF InOrder
  <2>9. taken' = [taken EXCEPT ![c] = taken[c]] /\ wrote' = [wrote EXCEPT ![c] = wrote[c]]
        /\ got' = [got EXCEPT ![c] = got[c]]
    BY <1>1, Known
  <2>10. /\ stream' = [stream EXCEPT ![c] = t] /\ sock' = [sock EXCEPT ![t.handle] = b]
         /\ Len(t.rx) <= RxCap /\ Len(t.tx) <= TxCap /\ t.handle = h
    BY <1>1, <1>2, <1>4, <1>8, <2>4
  <2>11. IInv'
    BY <1>1, <1>2, <1>4, <1>8, <2>4, <2>6, <2>7, <2>8, <2>9, <2>10, OpenMoves DEF C, R, S, dr, ds
  <2>12. stream'[c].state = stream[c].state
    BY <1>4, <2>4, <2>10, TypesKnown DEF IInv
  <2> QED BY <1>6, <2>11, <2>12
<1> QED BY <1>7, <1>8

\* What a buffer read into holds, and what a read may write there, are numbers.
LEMMA LandingIsNumbered ==
    ASSUME NEW land \in [1..RxCap -> Nat], NEW a \in Nat
    PROVE \A i \in 1..RxCap : a + i \in Nat /\ land[i] \in Nat
BY CapsAssumption

LEMMA ReadEndsKeeps ==
    ASSUME IInv, NEW h \in Slots, NEW k \in 1..RxCap, ReadEnds(h, k),
           sock[h].owner \notin misled
    PROVE  /\ IInv' /\ sock[h].owner \in Streams
           /\ stream'[sock[h].owner].state = stream[sock[h].owner].state
<1> DEFINE c == sock[h].owner
           s == stream[c]
           l == [i \in 1..RxCap |-> IF i <= k THEN taken[c] + i ELSE s.land[i]]
           t == [s EXCEPT !.land = l]
           x == Done("ok", k)
           b == [sock[h] EXCEPT !.recv = x]
           C == InRing(ring, c, "connected")
           R == InRing(ring, c, "recv")
           S == InRing(ring, c, "sent")
           dr == <<c, "recv">> \in lost
           ds == <<c, "sent">> \in lost
<1>1. /\ sock[h].recv.st = "pending" /\ k <= sock[h].recv.n
      /\ sock' = [sock EXCEPT ![h] = b] /\ stream' = [stream EXCEPT ![c] = t]
      /\ taken' = [taken EXCEPT ![c] = taken[c] + k]
      /\ UNCHANGED <<ring, gui, opened, lost, misled>> /\ UNCHANGED <<read, wrote, got>>
  BY DEF ReadEnds, app
<1>2. c \in Streams /\ IsOpen(c) /\ s.handle = h /\ c \notin misled
  BY <1>1, OwnerIsOpen DEF AOs, IsActive
<1>3. k \in Nat /\ k \in Numbers /\ k <= RxCap
  BY CapsAssumption DEF Numbers
<1>4. x \in AO
  BY <1>3, RequestsAre DEF Statuses
<1>5. /\ s \in StreamType /\ Len(s.rx) <= RxCap /\ Len(s.tx) <= TxCap
      /\ taken[c] \in Nat /\ read[c] \in Seq(Nat) /\ wrote[c] \in Nat /\ got[c] \in Seq(Nat)
      /\ InOrder(s, taken[c], read[c]) /\ OutInOrder(wrote[c], got[c])
  BY <1>2, Known
<1>6. sock[h] \in SocketType /\ sock[h].recv \in AO /\ sock[h].owner = c
  BY <1>2, KnownOpen
<1>7. Whole(s, sock[h], C, R, S, dr, ds, taken[c], read[c], wrote[c], got[c])
  BY <1>2, KnownOpen
<1> HIDE DEF c
<1>8. l \in [1..RxCap -> Nat] /\ \A i \in 1..k : l[i] = taken[c] + i
  <2> HIDE DEF s
  <2>1. \A i \in 1..RxCap : taken[c] + i \in Nat /\ s.land[i] \in Nat
    <3>1. s.land \in [1..RxCap -> Nat]
      BY <1>5 DEF StreamType
    <3>2. taken[c] \in Nat
      BY <1>5
    <3> HIDE DEF l, t, x, b, C, R, S, dr, ds
    <3> QED BY <3>1, <3>2, LandingIsNumbered
  <2>2. l \in [1..RxCap -> Nat]
    BY <2>1
  <2>3. \A i \in 1..k : i \in 1..RxCap /\ i <= k
    BY <1>3, CapsAssumption
  <2> QED BY <2>2, <2>3
<1> HIDE DEF s, l, x, C, R, S, dr, ds
<1>9. /\ t \in StreamType /\ t.state = s.state /\ t.handle = h /\ t.rx = s.rx
      /\ t.rxPending = s.rxPending /\ t.land = l /\ t.tx = s.tx
      /\ t.txPending = s.txPending
  BY <1>2, <1>5, <1>8, Fields
<1>10. /\ b \in SocketType /\ b.ctl = sock[h].ctl /\ b.recv = x
       /\ b.send = sock[h].send /\ b.owner = c
  BY <1>4, <1>6, Fields
<1> HIDE DEF t, b
<1>11. Whole(t, b, C, R, S, dr, ds, taken[c] + k, read[c], wrote[c], got[c])
  <2>1. Ctl(t, b.ctl, C)
    BY <1>7, <1>9, <1>10, Zenon DEF Ctl, Whole
  <2>2. Rx(s, sock[h].recv, R, dr, taken[c], read[c])
    BY <1>7 DEF Whole
  <2>3. Rx(t, b.recv, R, dr, taken[c] + k, read[c])
    <3>1. "ok" \in Statuses
      BY DEF Statuses
    <3>2. \A i \in 1..k : t.land[i] = taken[c] + i
      BY <1>8, <1>9
    <3>3. Rx(t, Done("ok", k), R, dr, taken[c] + k, read[c])
      BY <1>1, <1>3, <1>5, <1>6, <1>9, <2>2, <3>1, <3>2, RxServed
    <3> QED BY <1>10, <3>3 DEF x
  <2>4. Tx(s, sock[h].send, S, ds, wrote[c], got[c])
    BY <1>7 DEF Whole
  <2>5. Tx(t, b.send, S, ds, wrote[c], got[c])
    BY <1>9, <1>10, <2>4, TxSame
  <2>6. t.state \in {"Opening", "Connecting"} => ~t.rxPending /\ wrote[c] = 0
    BY <1>7, <1>9, Zenon DEF Whole
  <2> QED BY <2>1, <2>3, <2>5, <2>6, Zenon DEF Whole
<1>12. InOrder(t, taken[c] + k, read[c])
  <2>1. Len(read[c]) + Len(s.rx) <= taken[c] + k
    <3>1. PICK a \in Nat, d \in Nat, e \in Nat : a = Len(s.rx) /\ d = Len(read[c]) /\ e = taken[c]
      BY <1>5, LenProperties DEF StreamType
    <3>2. d + a <= e
      BY <1>5, <3>1 DEF InOrder
    <3>3. d + a <= e + k
      BY <1>3, <3>2
    <3> QED BY <3>1, <3>3
  <2> QED BY <1>5, <1>9, <2>1 DEF InOrder
<1>13. IInv'
  <2>1. /\ read' = [read EXCEPT ![c] = read[c]] /\ wrote' = [wrote EXCEPT ![c] = wrote[c]]
        /\ got' = [got EXCEPT ![c] = got[c]]
    BY <1>1, <1>2, Known
  <2>2. /\ Len(t.rx) <= RxCap /\ Len(t.tx) <= TxCap /\ t.handle = stream[c].handle
        /\ taken[c] + k \in Nat
    BY <1>2, <1>3, <1>5, <1>9 DEF s
  <2> QED BY <1>1, <1>2, <1>5, <1>9, <1>10, <1>11, <1>12, <2>1, <2>2, OpenMoves
          DEF C, R, S, dr, ds
<1>14. stream'[c].state = stream[c].state
  BY <1>1, <1>2, <1>9, TypesKnown DEF IInv, s
<1> QED BY <1>2, <1>13, <1>14 DEF c

LEMMA ReadStopsKeeps ==
    ASSUME IInv, NEW h \in Slots, NEW status \in {"eof", "error"}, ReadStops(h, status),
           sock[h].owner \notin misled
    PROVE  IInv'
<1> DEFINE c == sock[h].owner
           s == stream[c]
           x == Done(status, 0)
           b == [sock[h] EXCEPT !.recv = x]
           C == InRing(ring, c, "connected")
           R == InRing(ring, c, "recv")
           S == InRing(ring, c, "sent")
           dr == <<c, "recv">> \in lost
           ds == <<c, "sent">> \in lost
<1>1. /\ sock[h].recv.st = "pending" /\ sock' = [sock EXCEPT ![h] = b] /\ stream' = stream
      /\ UNCHANGED <<ring, gui, opened, lost, misled>> /\ UNCHANGED <<taken, read, wrote, got>>
  BY DEF ReadStops, app
<1>2. c \in Streams /\ IsOpen(c) /\ s.handle = h /\ c \notin misled
  BY <1>1, OwnerIsOpen DEF AOs, IsActive
<1>3. 0 \in Numbers /\ status \in Statuses
  BY CapsAssumption DEF Numbers, Statuses
<1>4. x \in AO
  BY <1>3, RequestsAre
<1>5. /\ s \in StreamType /\ Len(s.rx) <= RxCap /\ Len(s.tx) <= TxCap
      /\ taken[c] \in Nat /\ read[c] \in Seq(Nat)
  BY <1>2, Known
<1>6. sock[h] \in SocketType /\ sock[h].recv \in AO /\ sock[h].owner = c
  BY <1>2, KnownOpen
<1>7. Whole(s, sock[h], C, R, S, dr, ds, taken[c], read[c], wrote[c], got[c])
  BY <1>2, KnownOpen
<1> HIDE DEF c, x, C, R, S, dr, ds
<1>8. /\ b \in SocketType /\ b.ctl = sock[h].ctl /\ b.recv = x
      /\ b.send = sock[h].send /\ b.owner = c
  BY <1>4, <1>6, Fields
<1> HIDE DEF s, b
<1>9. Rx(s, b.recv, R, dr, taken[c], read[c])
  <2>1. Rx(s, sock[h].recv, R, dr, taken[c], read[c])
    BY <1>7 DEF Whole
  <2>2. 0 \in Nat /\ 0 <= sock[h].recv.n /\ \A i \in 1..0 : s.land[i] = taken[c] + i
    BY <1>6, CapsAssumption DEF AO
  <2>3. taken[c] + 0 = taken[c]
    BY <1>5
  <2>4. Rx(s, Done(status, 0), R, dr, taken[c] + 0, read[c])
    BY <1>1, <1>3, <1>5, <1>6, <2>1, <2>2, RxServed
  <2> QED BY <1>8, <2>3, <2>4 DEF x
<1>10. Whole(s, b, C, R, S, dr, ds, taken[c], read[c], wrote[c], got[c])
  BY <1>7, <1>8, <1>9, Zenon DEF Whole
<1> QED
  <2>1. stream' = [stream EXCEPT ![c] = s] /\ stream[c] = s /\ s.handle = h
    BY <1>1, <1>2, Known DEF s
  <2> QED BY <1>1, <1>2, <1>5, <1>8, <1>10, <2>1, Known, OpenMoves DEF C, R, S, dr, ds

LEMMA SendEndsKeeps ==
    ASSUME IInv, NEW h \in Slots, NEW status \in {"ok", "error"}, NEW k \in 0..TxCap,
           SendEnds(h, status, k), sock[h].owner \notin misled
    PROVE  /\ IInv' /\ stream' = stream
           /\ \E c \in Streams : \E g \in Seq(Nat) :
                 /\ Len(got[c]) + k <= wrote[c] /\ got' = [got EXCEPT ![c] = g]
                 /\ Len(g) = Len(got[c]) + k
                 /\ \A i \in 1..Len(g) : g[i] = IF i <= Len(got[c]) THEN got[c][i] ELSE i
<1> DEFINE c == sock[h].owner
           s == stream[c]
           m == IF status = "ok" THEN sock[h].send.n ELSE 0
           x == Done(status, m)
           g == got[c] \o SubSeq(s.tx, 1, k)
           b == [sock[h] EXCEPT !.send = x]
           C == InRing(ring, c, "connected")
           R == InRing(ring, c, "recv")
           S == InRing(ring, c, "sent")
           dr == <<c, "recv">> \in lost
           ds == <<c, "sent">> \in lost
<1>1. /\ sock[h].send.st = "pending" /\ k <= sock[h].send.n /\ k <= Len(s.tx)
      /\ status = "ok" => k = sock[h].send.n
      /\ sock' = [sock EXCEPT ![h] = b] /\ stream' = stream /\ got' = [got EXCEPT ![c] = g]
      /\ UNCHANGED <<ring, gui, opened, lost, misled>> /\ UNCHANGED <<taken, read, wrote>>
  BY DEF SendEnds, app
<1>2. c \in Streams /\ IsOpen(c) /\ s.handle = h /\ c \notin misled
  BY <1>1, OwnerIsOpen DEF AOs, IsActive
<1>3. /\ s \in StreamType /\ Len(s.rx) <= RxCap /\ Len(s.tx) <= TxCap
      /\ taken[c] \in Nat /\ read[c] \in Seq(Nat) /\ wrote[c] \in Nat /\ got[c] \in Seq(Nat)
      /\ InOrder(s, taken[c], read[c]) /\ OutInOrder(wrote[c], got[c])
  BY <1>2, Known
<1>4. sock[h] \in SocketType /\ sock[h].send \in AO /\ sock[h].owner = c
  BY <1>2, KnownOpen
<1>5. m \in Numbers /\ status \in Statuses /\ k \in Nat
  BY <1>4, CapsAssumption DEF Numbers, Statuses, AO
<1>6. Whole(s, sock[h], C, R, S, dr, ds, taken[c], read[c], wrote[c], got[c])
  BY <1>2, KnownOpen
<1> HIDE DEF c, m, C, R, S, dr, ds
<1>7. x \in AO
  BY <1>5, RequestsAre
<1> HIDE DEF s
<1>8. /\ g \in Seq(Nat) /\ Len(g) = Len(got[c]) + k /\ Len(got[c]) + k <= wrote[c]
      /\ \A i \in 1..Len(g) : g[i] = IF i <= Len(got[c]) THEN got[c][i] ELSE i
      /\ OutInOrder(wrote[c], g) /\ Tx(s, x, S, ds, wrote[c], g)
  <2>1. Tx(s, sock[h].send, S, ds, wrote[c], got[c])
    BY <1>6 DEF Whole
  <2>2. LET q == got[c] \o SubSeq(s.tx, 1, k)
        IN  /\ q \in Seq(Nat) /\ Len(q) = Len(got[c]) + k /\ Len(got[c]) + k <= wrote[c]
            /\ \A i \in 1..Len(q) : q[i] = IF i <= Len(got[c]) THEN got[c][i] ELSE i
            /\ OutInOrder(wrote[c], q) /\ Tx(s, Done(status, m), S, ds, wrote[c], q)
    <3>1. PICK ao : ao = sock[h].send
      OBVIOUS
    <3>2. /\ ao.st = "pending" /\ k <= ao.n /\ k <= Len(s.tx) /\ (status = "ok" => k = ao.n)
          /\ Tx(s, ao, S, ds, wrote[c], got[c])
      BY <1>1, <2>1, <3>1
    <3>3. s \in StreamType /\ wrote[c] \in Nat /\ got[c] \in Seq(Nat) /\ OutInOrder(wrote[c], got[c])
      BY <1>3
    <3> HIDE DEF g, x
    <3>4. PICK gt \in Seq(Nat), wr \in Nat : gt = got[c] /\ wr = wrote[c]
      BY <3>3
    <3>5. s \in StreamType /\ OutInOrder(wr, gt) /\ Tx(s, ao, S, ds, wr, gt)
      BY <3>2, <3>3, <3>4
    <3>6. status \in Statuses /\ k \in Nat /\ m \in Numbers
      BY <1>5
    <3>7. LET q == gt \o SubSeq(s.tx, 1, k)
          IN  /\ q \in Seq(Nat) /\ Len(q) = Len(gt) + k /\ Len(gt) + k <= wr
              /\ \A i \in 1..Len(q) : q[i] = IF i <= Len(gt) THEN gt[i] ELSE i
              /\ OutInOrder(wr, q) /\ Tx(s, Done(status, m), S, ds, wr, q)
      BY <3>2, <3>5, <3>6, TxServed, Zenon
    <3> QED BY <3>4, <3>7, Zenon
  <2> QED BY <2>2, Zenon DEF x, g
<1> HIDE DEF x, g
<1>9. /\ b \in SocketType /\ b.ctl = sock[h].ctl /\ b.recv = sock[h].recv
      /\ b.send = x /\ b.owner = c
  BY <1>4, <1>7, Fields
<1> HIDE DEF b
<1>10. Whole(s, b, C, R, S, dr, ds, taken[c], read[c], wrote[c], g)
  BY <1>6, <1>8, <1>9, Zenon DEF Whole
<1>11. IInv'
  <2>1. stream' = [stream EXCEPT ![c] = s] /\ stream[c] = s /\ s.handle = h
    BY <1>1, <1>2, Known DEF s
  <2>2. /\ taken' = [taken EXCEPT ![c] = taken[c]] /\ wrote' = [wrote EXCEPT ![c] = wrote[c]]
        /\ read' = [read EXCEPT ![c] = read[c]]
    BY <1>1, <1>2, Known
  <2> QED BY <1>1, <1>2, <1>3, <1>8, <1>9, <1>10, <2>1, <2>2, OpenMoves DEF C, R, S, dr, ds
<1> QED BY <1>1, <1>2, <1>8, <1>11

-----------------------------------------------------------------------------
\* The RunL of the active objects

\* The event goes in when the ring has room, and else is counted as lost.
LEMMA PushRing ==
    ASSUME IInv, NEW h \in Slots, NEW kind \in Kinds, NEW ao \in AO, Pushes(h, kind, ao),
           sock[h].owner \in Streams
    PROVE  LET c == sock[h].owner
           IN  /\ ring' \in Seq(Event) /\ Len(ring') <= Capacity
               /\ \A d, w : d # c \/ w # kind => InRing(ring', d, w) = InRing(ring, d, w)
               /\ \A d, g : d # c /\ Mine(ring, d, g) => Mine(ring', d, g)
               /\ lost' \subseteq Streams \X Kinds
               /\ \A d \in Streams : \A w \in Kinds : d # c \/ w # kind =>
                     (<<d, w>> \in lost' <=> <<d, w>> \in lost)
               /\ InRing(ring, c, kind) = {} =>
                     /\ Mine(ring, c, h) => Mine(ring', c, h)
                     /\ \/ /\ \E e : /\ e.n = ao.n /\ e.status = ao.status
                                     /\ InRing(ring', c, kind) = {e}
                           /\ lost' = lost
                        \/ InRing(ring', c, kind) = {} /\ <<c, kind>> \in lost'
<1>0. PICK c \in Streams : c = sock[h].owner
  OBVIOUS
<1> DEFINE e == [kind |-> kind, handle |-> h, status |-> ao.status, n |-> ao.n, of |-> c]
<1>1. /\ ring' = Pushed(ring, e)
      /\ lost' = IF Fits(ring) THEN lost ELSE lost \cup {<<c, kind>>}
  BY <1>0 DEF Pushes
<1>2. /\ e \in Event /\ e.handle = h /\ e.kind = kind /\ e.n = ao.n /\ e.status = ao.status
      /\ e.of = c
  BY DEF Event, AO
<1>3. /\ ring \in Seq(Event) /\ Len(ring) <= Capacity /\ lost \subseteq Streams \X Kinds
  BY RingKnown
<1> HIDE DEF e
<1>4. /\ lost' \subseteq Streams \X Kinds
      /\ \A d \in Streams : \A w \in Kinds : d # c \/ w # kind =>
            (<<d, w>> \in lost' <=> <<d, w>> \in lost)
  BY <1>1, <1>3
<1>5. CASE Fits(ring)
  <2>1. ring' = Append(ring, e) /\ lost' = lost
    BY <1>1, <1>5 DEF Pushed
  <2>2. Append(ring, e) \in Seq(Event) /\ Len(Append(ring, e)) = Len(ring) + 1
    BY <1>2, <1>3, AppendProperties
  <2>3. Len(ring) + 1 <= Capacity
    BY <1>3, <1>5, LenProperties, CapacityAssumption DEF Fits
  <2>4. /\ InRing(ring, c, kind) = {} => InRing(ring', c, kind) = {e}
        /\ \A d, w : d # c \/ w # kind => InRing(ring', d, w) = InRing(ring, d, w)
        /\ \A d, g : d # c /\ Mine(ring, d, g) => Mine(ring', d, g)
        /\ InRing(ring, c, kind) = {} /\ Mine(ring, c, h) => Mine(ring', c, h)
    <3>1. /\ InRing(ring, e.of, e.kind) = {} => InRing(Append(ring, e), e.of, e.kind) = {e}
          /\ \A d, w : d # e.of \/ w # e.kind =>
                InRing(Append(ring, e), d, w) = InRing(ring, d, w)
          /\ \A d, g : d # e.of /\ Mine(ring, d, g) => Mine(Append(ring, e), d, g)
          /\ InRing(ring, e.of, e.kind) = {} /\ Mine(ring, e.of, e.handle)
                => Mine(Append(ring, e), e.of, e.handle)
      BY <1>2, <1>3, RingPush
    <3> QED BY <1>2, <2>1, <3>1
  <2>5. ring' \in Seq(Event) /\ Len(ring') <= Capacity
    BY <2>1, <2>2, <2>3
  <2> QED BY <1>0, <1>2, <1>4, <2>1, <2>4, <2>5
<1>6. CASE ~Fits(ring)
  <2>1. ring' = ring /\ <<c, kind>> \in lost'
    BY <1>1, <1>6 DEF Pushed
  <2> QED BY <1>0, <1>3, <1>4, <2>1
<1> QED BY <1>5, <1>6

LEMMA RunLKeeps ==
    ASSUME IInv, NEW h \in Slots, RunL(h), sock[h].owner \notin misled
    PROVE  IInv'
<1>1. /\ gui' = gui /\ opened' = opened /\ stream' = stream /\ misled' = misled
      /\ taken' = taken /\ read' = read /\ wrote' = wrote /\ got' = got
  BY DEF RunL, CtlRunL, ReaderRunL, WriterRunL, Pushes, app
<1>2. sock[h].ctl.st = "done" \/ sock[h].recv.st = "done" \/ sock[h].send.st = "done"
  BY DEF RunL, CtlRunL, ReaderRunL, WriterRunL, Pushes
<1>25. PICK c \in Streams : c = sock[h].owner /\ IsOpen(c) /\ stream[c].handle = h
  BY <1>2, OwnerIsOpen DEF AOs, IsActive
<1> DEFINE s == stream[c]
           C == InRing(ring, c, "connected")
           R == InRing(ring, c, "recv")
           S == InRing(ring, c, "sent")
           dr == <<c, "recv">> \in lost
           ds == <<c, "sent">> \in lost
<1>3. c \in Streams /\ IsOpen(c) /\ s.handle = h /\ c \notin misled
  BY <1>25
<1>4. /\ sock[h] \in SocketType /\ sock[h].owner = c
      /\ sock[h].ctl \in AO /\ sock[h].recv \in AO /\ sock[h].send \in AO
      /\ Mine(ring, c, h)
  BY <1>3, KnownOpen
<1>5. Whole(s, sock[h], C, R, S, dr, ds, taken[c], read[c], wrote[c], got[c])
  BY <1>3, KnownOpen
<1>6. /\ Idle \in AO /\ ~IsActive(Idle)
  BY RequestsAre, CapsAssumption DEF Numbers, Statuses
<1>65. ASSUME NEW kind \in Kinds, NEW ao \in AO, Pushes(h, kind, ao), InRing(ring, c, kind) = {}
       PROVE  /\ ring' \in Seq(Event) /\ Len(ring') <= Capacity
              /\ \A d, w : d # c \/ w # kind => InRing(ring', d, w) = InRing(ring, d, w)
              /\ \A d, g : d # c /\ Mine(ring, d, g) => Mine(ring', d, g)
              /\ Mine(ring', c, h) /\ lost' \subseteq Streams \X Kinds
              /\ \A d \in Streams : \A w \in Kinds : d # c \/ w # kind =>
                    (<<d, w>> \in lost' <=> <<d, w>> \in lost)
              /\ \/ /\ \E e : e.n = ao.n /\ e.status = ao.status /\ InRing(ring', c, kind) = {e}
                    /\ lost' = lost
                 \/ InRing(ring', c, kind) = {} /\ <<c, kind>> \in lost'
  <2>1. sock[h].owner = c /\ sock[h].owner \in Streams /\ Mine(ring, c, h)
    BY <1>25, <1>4
  <2>2. LET o == sock[h].owner
        IN  /\ ring' \in Seq(Event) /\ Len(ring') <= Capacity
            /\ \A d, w : d # o \/ w # kind => InRing(ring', d, w) = InRing(ring, d, w)
            /\ \A d, g : d # o /\ Mine(ring, d, g) => Mine(ring', d, g)
            /\ lost' \subseteq Streams \X Kinds
            /\ \A d \in Streams : \A w \in Kinds : d # o \/ w # kind =>
                  (<<d, w>> \in lost' <=> <<d, w>> \in lost)
            /\ InRing(ring, o, kind) = {} =>
                  /\ Mine(ring, o, h) => Mine(ring', o, h)
                  /\ \/ /\ \E e : /\ e.n = ao.n /\ e.status = ao.status
                                  /\ InRing(ring', o, kind) = {e}
                        /\ lost' = lost
                     \/ InRing(ring', o, kind) = {} /\ <<o, kind>> \in lost'
    BY <1>65, <2>1, PushRing, Zenon
  <2> QED BY <1>65, <2>1, <2>2, Zenon
<1>7. ASSUME NEW b \in SocketType, b.owner = c, sock' = [sock EXCEPT ![h] = b],
             NEW kind \in Kinds, NEW ao \in AO, Pushes(h, kind, ao), InRing(ring, c, kind) = {},
             Whole(s, b, InRing(ring', c, "connected"), InRing(ring', c, "recv"),
                   InRing(ring', c, "sent"), <<c, "recv">> \in lost', <<c, "sent">> \in lost',
                   taken[c], read[c], wrote[c], got[c])
      PROVE  IInv'
  <2>1. /\ ring' \in Seq(Event) /\ Len(ring') <= Capacity /\ Mine(ring', c, h)
        /\ \A d \in Streams \ {c} : Sound(d) \/ d > opened => \A w \in Kinds :
              InRing(ring', d, w) = InRing(ring, d, w)
        /\ \A d \in Streams \ {c} : \A g : Mine(ring, d, g) => Mine(ring', d, g)
        /\ lost' \subseteq Streams \X Kinds
        /\ \A d \in Streams \ {c} : \A w \in Kinds : <<d, w>> \in lost' <=> <<d, w>> \in lost
    <3>1. /\ ring' \in Seq(Event) /\ Len(ring') <= Capacity /\ Mine(ring', c, h)
          /\ \A d, w : d # c \/ w # kind => InRing(ring', d, w) = InRing(ring, d, w)
          /\ \A d, g : d # c /\ Mine(ring, d, g) => Mine(ring', d, g)
          /\ lost' \subseteq Streams \X Kinds
          /\ \A d \in Streams : \A w \in Kinds : d # c \/ w # kind =>
                (<<d, w>> \in lost' <=> <<d, w>> \in lost)
      BY <1>7, <1>65
    <3> QED BY <3>1
  <2>2. Fresh(c)'
    <3>1. ~(c > opened')
      BY <1>1, <1>3, OpenedBefore DEF IInv
    <3> QED BY <3>1 DEF Fresh
  <2>3. gui' \in {"scheduler", "step"}
    BY <1>1, RingKnown
  <2>4. IF IsOpen(c) THEN b.owner = c /\ sock' = [sock EXCEPT ![s.handle] = b] ELSE sock' = sock
    BY <1>3, <1>7
  <2>5. stream' = [stream EXCEPT ![c] = s] /\ taken' = [taken EXCEPT ![c] = taken[c]]
        /\ read' = [read EXCEPT ![c] = read[c]] /\ wrote' = [wrote EXCEPT ![c] = wrote[c]]
        /\ got' = [got EXCEPT ![c] = got[c]]
    BY <1>1, <1>3, Known
  <2>6. /\ s \in StreamType /\ Len(s.rx) <= RxCap /\ Len(s.tx) <= TxCap
        /\ taken[c] \in Nat /\ read[c] \in Seq(Nat) /\ wrote[c] \in Nat /\ got[c] \in Seq(Nat)
        /\ InOrder(s, taken[c], read[c]) /\ OutInOrder(wrote[c], got[c])
    BY <1>3, Known
  <2>9. s.handle = stream[c].handle
    OBVIOUS
  <2> HIDE DEF s
  <2>10. /\ b.owner = c /\ opened' = opened /\ misled' = misled /\ c \notin misled
         /\ IsOpen(c) =>
               /\ Mine(ring', c, s.handle)
               /\ Whole(s, b, InRing(ring', c, "connected"), InRing(ring', c, "recv"),
                        InRing(ring', c, "sent"), <<c, "recv">> \in lost',
                        <<c, "sent">> \in lost', taken[c], read[c], wrote[c], got[c])
    BY <1>1, <1>3, <1>7, <2>1, <2>9
  <2> QED BY <2>1, <2>2, <2>3, <2>4, <2>5, <2>6, <2>9, <2>10, OneMoves
<1>8. CASE CtlRunL(h)
  <2> DEFINE b == [sock[h] EXCEPT !.ctl = Idle]
  <2>1. Pushes(h, "connected", sock[h].ctl) /\ sock' = [sock EXCEPT ![h] = b]
        /\ sock[h].ctl.st = "done"
    BY <1>8 DEF CtlRunL, Pushes
  <2>2. b \in SocketType /\ b.ctl = Idle /\ b.recv = sock[h].recv /\ b.send = sock[h].send
        /\ b.owner = c
    BY <1>4, <1>6, Fields
  <2> HIDE DEF b
  <2>3. Ctl(s, sock[h].ctl, C) /\ C = {} /\ s.state = "Connecting"
    BY <1>5, <2>1 DEF Whole, Ctl, IsActive
  <2>4. "connected" \in Kinds /\ "recv" \in Kinds /\ "sent" \in Kinds
    BY DEF Kinds
  <2>5. /\ InRing(ring', c, "recv") = R /\ InRing(ring', c, "sent") = S
        /\ (<<c, "recv">> \in lost') = dr /\ (<<c, "sent">> \in lost') = ds
    <3>1. /\ \A d, w : d # c \/ w # "connected" => InRing(ring', d, w) = InRing(ring, d, w)
          /\ \A d \in Streams : \A w \in Kinds : d # c \/ w # "connected" =>
                (<<d, w>> \in lost' <=> <<d, w>> \in lost)
      BY <1>4, <1>65, <2>1, <2>3, <2>4
    <3>2. (<<c, "recv">> \in lost') <=> dr
      BY <1>3, <2>4, <3>1
    <3>3. (<<c, "sent">> \in lost') <=> ds
      BY <1>3, <2>4, <3>1
    <3> QED BY <3>1, <3>2, <3>3
  <2>6. \A E : Ctl(s, Idle, E)
    BY <1>6, <2>3 DEF Ctl
  <2>7. Whole(s, b, InRing(ring', c, "connected"), R, S, dr, ds,
              taken[c], read[c], wrote[c], got[c])
    BY <1>5, <2>2, <2>6, Zenon DEF Whole
  <2>8. Whole(s, b, InRing(ring', c, "connected"), InRing(ring', c, "recv"),
              InRing(ring', c, "sent"), <<c, "recv">> \in lost', <<c, "sent">> \in lost',
              taken[c], read[c], wrote[c], got[c])
    BY <2>5, <2>7
  <2> QED BY <1>4, <1>7, <2>1, <2>2, <2>3, <2>4, <2>8
<1>9. CASE ReaderRunL(h)
  <2> DEFINE b == [sock[h] EXCEPT !.recv = Idle]
  <2>1. Pushes(h, "recv", sock[h].recv) /\ sock' = [sock EXCEPT ![h] = b]
        /\ sock[h].recv.st = "done"
    BY <1>9 DEF ReaderRunL, Pushes
  <2>2. b \in SocketType /\ b.recv = Idle /\ b.ctl = sock[h].ctl /\ b.send = sock[h].send
        /\ b.owner = c
    BY <1>4, <1>6, Fields
  <2> HIDE DEF b, R, dr
  <2>3. Rx(s, sock[h].recv, R, dr, taken[c], read[c])
    BY <1>5 DEF Whole
  <2>4. R = {} /\ ~dr /\ Rx(s, Idle, {}, TRUE, taken[c], read[c])
        /\ \A e : e.n = sock[h].recv.n /\ e.status = sock[h].recv.status =>
              Rx(s, Idle, {e}, FALSE, taken[c], read[c])
    <3>1. PICK ao : ao = sock[h].recv
      OBVIOUS
    <3>2. ao.st = "done" /\ Rx(s, ao, R, dr, taken[c], read[c])
      BY <2>1, <2>3, <3>1
    <3>3. PICK m, p : m = taken[c] /\ p = read[c]
      OBVIOUS
    <3> HIDE DEF s
    <3>4. ASSUME NEW e, e.n = ao.n, e.status = ao.status
          PROVE  /\ R = {} /\ ~dr /\ Rx(s, Idle, {}, TRUE, m, p)
                 /\ Rx(s, Idle, {e}, FALSE, m, p)
      <4>1. Rx(s, ao, R, dr, m, p)
        BY <3>2, <3>3
      <4>2. Reports(e, ao)
        BY <3>2, <3>4 DEF Reports
      <4> QED BY <4>1, <4>2, RxPushed, Zenon
    <3> QED BY <3>1, <3>3, <3>4
  <2>5. "connected" \in Kinds /\ "recv" \in Kinds /\ "sent" \in Kinds
    BY DEF Kinds
  <2>6. /\ InRing(ring', c, "connected") = C /\ InRing(ring', c, "sent") = S
        /\ (<<c, "sent">> \in lost') = ds
    <3>1. /\ \A d, w : d # c \/ w # "recv" => InRing(ring', d, w) = InRing(ring, d, w)
          /\ \A d \in Streams : \A w \in Kinds : d # c \/ w # "recv" =>
                (<<d, w>> \in lost' <=> <<d, w>> \in lost)
      BY <1>4, <1>65, <2>1, <2>4, <2>5 DEF R
    <3>2. (<<c, "sent">> \in lost') <=> ds
      BY <1>3, <2>5, <3>1
    <3> QED BY <3>1, <3>2
  <2>7. Rx(s, Idle, InRing(ring', c, "recv"), <<c, "recv">> \in lost', taken[c], read[c])
    <3>1. \/ /\ \E e : /\ e.n = sock[h].recv.n /\ e.status = sock[h].recv.status
                       /\ InRing(ring', c, "recv") = {e}
             /\ lost' = lost
          \/ InRing(ring', c, "recv") = {} /\ <<c, "recv">> \in lost'
      BY <1>4, <1>65, <2>1, <2>4, <2>5 DEF R
    <3>2. CASE InRing(ring', c, "recv") = {} /\ <<c, "recv">> \in lost'
      <4>1. (<<c, "recv">> \in lost') = TRUE
        BY <3>2
      <4> QED BY <2>4, <3>2, <4>1
    <3>3. CASE /\ \E e : /\ e.n = sock[h].recv.n /\ e.status = sock[h].recv.status
                         /\ InRing(ring', c, "recv") = {e}
               /\ lost' = lost
      <4>1. PICK e : /\ e.n = sock[h].recv.n /\ e.status = sock[h].recv.status
                     /\ InRing(ring', c, "recv") = {e}
        BY <3>3
      <4>2. (<<c, "recv">> \in lost') = FALSE
        BY <2>4, <3>3 DEF dr
      <4> QED BY <2>4, <4>1, <4>2
    <3> QED BY <3>1, <3>2, <3>3
  <2>8. Whole(s, b, C, InRing(ring', c, "recv"), S, <<c, "recv">> \in lost', ds,
              taken[c], read[c], wrote[c], got[c])
    BY <1>5, <2>2, <2>7, Zenon DEF Whole
  <2>9. Whole(s, b, InRing(ring', c, "connected"), InRing(ring', c, "recv"),
              InRing(ring', c, "sent"), <<c, "recv">> \in lost', <<c, "sent">> \in lost',
              taken[c], read[c], wrote[c], got[c])
    BY <2>6, <2>8
  <2> QED BY <1>4, <1>7, <2>1, <2>2, <2>4, <2>5, <2>9 DEF R
<1>10. CASE WriterRunL(h)
  <2> DEFINE b == [sock[h] EXCEPT !.send = Idle]
  <2>1. Pushes(h, "sent", sock[h].send) /\ sock' = [sock EXCEPT ![h] = b]
        /\ sock[h].send.st = "done"
    BY <1>10 DEF WriterRunL, Pushes
  <2>2. b \in SocketType /\ b.send = Idle /\ b.ctl = sock[h].ctl /\ b.recv = sock[h].recv
        /\ b.owner = c
    BY <1>4, <1>6, Fields
  <2> HIDE DEF b, S, ds
  <2>3. Tx(s, sock[h].send, S, ds, wrote[c], got[c])
    BY <1>5 DEF Whole
  <2>4. S = {} /\ ~ds /\ Tx(s, Idle, {}, TRUE, wrote[c], got[c])
        /\ \A e : e.n = sock[h].send.n /\ e.status = sock[h].send.status =>
              Tx(s, Idle, {e}, FALSE, wrote[c], got[c])
    <3>1. PICK ao : ao = sock[h].send
      OBVIOUS
    <3>2. ao.st = "done" /\ Tx(s, ao, S, ds, wrote[c], got[c])
      BY <2>1, <2>3, <3>1
    <3>3. PICK m, p : m = wrote[c] /\ p = got[c]
      OBVIOUS
    <3> HIDE DEF s
    <3>4. ASSUME NEW e, e.n = ao.n, e.status = ao.status
          PROVE  /\ S = {} /\ ~ds /\ Tx(s, Idle, {}, TRUE, m, p)
                 /\ Tx(s, Idle, {e}, FALSE, m, p)
      <4>1. Tx(s, ao, S, ds, m, p)
        BY <3>2, <3>3
      <4>2. Reports(e, ao)
        BY <3>2, <3>4 DEF Reports
      <4> QED BY <4>1, <4>2, TxPushed, Zenon
    <3> QED BY <3>1, <3>3, <3>4
  <2>5. "connected" \in Kinds /\ "recv" \in Kinds /\ "sent" \in Kinds
    BY DEF Kinds
  <2>6. /\ InRing(ring', c, "connected") = C /\ InRing(ring', c, "recv") = R
        /\ (<<c, "recv">> \in lost') = dr
    <3>1. /\ \A d, w : d # c \/ w # "sent" => InRing(ring', d, w) = InRing(ring, d, w)
          /\ \A d \in Streams : \A w \in Kinds : d # c \/ w # "sent" =>
                (<<d, w>> \in lost' <=> <<d, w>> \in lost)
      BY <1>4, <1>65, <2>1, <2>4, <2>5 DEF S
    <3>2. (<<c, "recv">> \in lost') <=> dr
      BY <1>3, <2>5, <3>1
    <3> QED BY <3>1, <3>2
  <2>7. Tx(s, Idle, InRing(ring', c, "sent"), <<c, "sent">> \in lost', wrote[c], got[c])
    <3>1. \/ /\ \E e : /\ e.n = sock[h].send.n /\ e.status = sock[h].send.status
                       /\ InRing(ring', c, "sent") = {e}
             /\ lost' = lost
          \/ InRing(ring', c, "sent") = {} /\ <<c, "sent">> \in lost'
      BY <1>4, <1>65, <2>1, <2>4, <2>5 DEF S
    <3>2. CASE InRing(ring', c, "sent") = {} /\ <<c, "sent">> \in lost'
      <4>1. (<<c, "sent">> \in lost') = TRUE
        BY <3>2
      <4> QED BY <2>4, <3>2, <4>1
    <3>3. CASE /\ \E e : /\ e.n = sock[h].send.n /\ e.status = sock[h].send.status
                         /\ InRing(ring', c, "sent") = {e}
               /\ lost' = lost
      <4>1. PICK e : /\ e.n = sock[h].send.n /\ e.status = sock[h].send.status
                     /\ InRing(ring', c, "sent") = {e}
        BY <3>3
      <4>2. (<<c, "sent">> \in lost') = FALSE
        BY <2>4, <3>3 DEF ds
      <4> QED BY <2>4, <4>1, <4>2
    <3> QED BY <3>1, <3>2, <3>3
  <2>8. Whole(s, b, C, R, InRing(ring', c, "sent"), dr, <<c, "sent">> \in lost',
              taken[c], read[c], wrote[c], got[c])
    BY <1>5, <2>2, <2>7, Zenon DEF Whole
  <2>9. Whole(s, b, InRing(ring', c, "connected"), InRing(ring', c, "recv"),
              InRing(ring', c, "sent"), <<c, "recv">> \in lost', <<c, "sent">> \in lost',
              taken[c], read[c], wrote[c], got[c])
    BY <2>6, <2>8
  <2> QED BY <1>4, <1>7, <2>1, <2>2, <2>4, <2>5, <2>9 DEF S
<1> QED BY <1>8, <1>9, <1>10 DEF RunL

-----------------------------------------------------------------------------
\* Whatever a step does to its own stream, the others are left alone

LEMMA OneApart ==
    ASSUME IInv, NEW c \in Streams, opened' = opened, misled' = misled,
           \A d \in Streams \ {c} : /\ stream'[d] = stream[d] /\ taken'[d] = taken[d]
                                    /\ read'[d] = read[d] /\ wrote'[d] = wrote[d]
                                    /\ got'[d] = got[d],
           \A g \in Slots : g # stream[c].handle => sock'[g] = sock[g],
           \A d \in Streams \ {c} : \A kind \in Kinds :
               /\ InRing(ring', d, kind) = InRing(ring, d, kind)
               /\ <<d, kind>> \in lost' <=> <<d, kind>> \in lost,
           \A d \in Streams \ {c} : \A g : Mine(ring, d, g) => Mine(ring', d, g)
    PROVE  Apart(c)
<1>1. ASSUME NEW d \in Streams \ {c} PROVE Alone(d)
  <2>1. IsOpen(d) => stream[d].handle \in Slots /\ stream[d].handle # stream[c].handle
    BY TiesKnown DEF IInv
  <2>2. IsOpen(d) => sock'[stream[d].handle] = sock[stream[d].handle]
    BY <2>1
  <2>3. \A kind \in Kinds : /\ InRing(ring', d, kind) = InRing(ring, d, kind)
                            /\ <<d, kind>> \in lost' <=> <<d, kind>> \in lost
    OBVIOUS
  <2>4. \A g : Mine(ring, d, g) => Mine(ring', d, g)
    OBVIOUS
  <2> QED BY <2>2, <2>3, <2>4, Zenon DEF Alone
<1>2. opened' \in Nat /\ opened <= opened'
  BY RingKnown
<1> QED BY <1>1, <1>2 DEF Apart

LEMMA AppApart ==
    ASSUME IInv, NEW c \in Streams,
           \/ Connect(c) \/ Close(c)
           \/ \E k \in 1..TxCap : Write(c, k)
           \/ \E k \in 1..RxCap : Read(c, k)
    PROVE  Apart(c) /\ misled' = misled
<1>1. opened' = opened /\ misled' = misled /\ ring' = ring /\ lost' = lost
      /\ taken' = taken /\ got' = got
  BY Zenon DEF Connect, Close, Write, Read, app
<1>2. \A d \in Streams \ {c} : stream'[d] = stream[d] /\ read'[d] = read[d] /\ wrote'[d] = wrote[d]
  <2>1. stream \in [Streams -> StreamType] /\ read \in [Streams -> Seq(Nat)]
        /\ wrote \in [Streams -> Nat]
    BY TypesKnown DEF IInv
  <2>2. \E t : stream' = [stream EXCEPT ![c] = t]
    BY Zenon DEF Connect, Close, Write, Read
  <2>3. \E t : read' = [read EXCEPT ![c] = t] \/ read' = read
    BY Zenon DEF Connect, Close, Write, Read, app
  <2>4. \E t : wrote' = [wrote EXCEPT ![c] = t] \/ wrote' = wrote
    BY Zenon DEF Connect, Close, Write, Read, app
  <2> QED BY <2>1, <2>2, <2>3, <2>4
<1>3. \A g \in Slots : g # stream[c].handle => sock'[g] = sock[g]
  <2>1. sock \in [Slots -> SocketType]
    BY TypesKnown DEF IInv
  <2>2. \E b : sock' = [sock EXCEPT ![stream[c].handle] = b] \/ sock' = sock
    <3>1. CASE Connect(c)
      <4>1. sock' = [sock EXCEPT ![stream[c].handle] =
                        [sock[stream[c].handle] EXCEPT !.ctl = Asked(0)]]
        BY <3>1 DEF Connect
      <4> QED BY <4>1
    <3>2. CASE Close(c)
      BY <3>2 DEF Close
    <3>3. CASE \E k \in 1..TxCap : Write(c, k)
      <4>1. \E x : sock' = [sock EXCEPT ![stream[c].handle].send = x]
        BY <3>3, Zenon DEF Write
      <4>2. PICK x : sock' = [sock EXCEPT ![stream[c].handle].send = x]
        BY <4>1
      <4>3. sock' = [sock EXCEPT ![stream[c].handle] =
                        [sock[stream[c].handle] EXCEPT !.send = x]]
        BY <4>2
      <4> QED BY <4>3
    <3>4. CASE \E k \in 1..RxCap : Read(c, k)
      <4>1. \E x : sock' = [sock EXCEPT ![stream[c].handle].recv = x] \/ sock' = sock
        BY <3>4, Zenon DEF Read
      <4>2. PICK x : sock' = [sock EXCEPT ![stream[c].handle].recv = x] \/ sock' = sock
        BY <4>1
      <4>3. sock' = [sock EXCEPT ![stream[c].handle] =
                        [sock[stream[c].handle] EXCEPT !.recv = x]] \/ sock' = sock
        BY <4>2
      <4> QED BY <4>3
    <3> QED BY <3>1, <3>2, <3>3, <3>4
  <2> QED BY <2>1, <2>2
<1> QED BY <1>1, <1>2, <1>3, OneApart

\* The socket whose object it is belongs to an open stream.
LEMMA SocketApart ==
    ASSUME IInv, NEW h \in Slots,
           \/ RunL(h)
           \/ \E status : ConnectEnds(h, status) \/ ReadStops(h, status)
           \/ \E k : ReadEnds(h, k)
           \/ \E status, k : SendEnds(h, status, k)
    PROVE  /\ sock[h].owner \in Streams /\ IsOpen(sock[h].owner)
           /\ Apart(sock[h].owner) /\ misled' = misled
<1>1. \E ao \in AOs(h) : IsActive(ao)
  BY Zenon DEF AOs, IsActive, RunL, CtlRunL, ReaderRunL, WriterRunL, Pushes, ConnectEnds, ReadStops,
         ReadEnds, SendEnds
<1>2. PICK c \in Streams : c = sock[h].owner /\ IsOpen(c) /\ stream[c].handle = h
  BY <1>1, OwnerIsOpen
<1>3. opened' = opened /\ misled' = misled /\ read' = read /\ wrote' = wrote
  BY Zenon DEF RunL, CtlRunL, ReaderRunL, WriterRunL, Pushes, ConnectEnds, ReadStops, ReadEnds, SendEnds,
         app
<1>4. \A d \in Streams \ {c} : stream'[d] = stream[d] /\ taken'[d] = taken[d] /\ got'[d] = got[d]
  <2>1. stream \in [Streams -> StreamType] /\ got \in [Streams -> Seq(Nat)]
        /\ taken \in [Streams -> Nat]
    BY TypesKnown DEF IInv
  <2>2. CASE stream' = stream /\ taken' = taken /\ got' = got
    BY <2>2
  <2>3. CASE \E k : ReadEnds(h, k)
    <3>1. PICK k : ReadEnds(h, k)
      BY <2>3
    <3>2. \E x : stream' = [stream EXCEPT ![sock[h].owner].land = x]
      BY <3>1, Zenon DEF ReadEnds
    <3>3. PICK x : stream' = [stream EXCEPT ![sock[h].owner].land = x]
      BY <3>2
    <3>4. taken' = [taken EXCEPT ![sock[h].owner] = taken[sock[h].owner] + k] /\ got' = got
      BY <3>1 DEF ReadEnds
    <3> QED BY <1>2, <2>1, <3>3, <3>4
  <2>4. CASE \E status, k : SendEnds(h, status, k)
    <3>1. PICK status, k : SendEnds(h, status, k)
      BY <2>4
    <3>2. \E x : got' = [got EXCEPT ![sock[h].owner] = x]
      BY <3>1, Zenon DEF SendEnds
    <3>3. stream' = stream /\ taken' = taken
      BY <3>1, Zenon DEF SendEnds
    <3> QED BY <1>2, <2>1, <3>2, <3>3
  <2> QED BY <2>2, <2>3, <2>4 DEF RunL, CtlRunL, ReaderRunL, WriterRunL, Pushes, ConnectEnds,
                                  ReadStops
<1>5. \A g \in Slots : g # stream[c].handle => sock'[g] = sock[g]
  <2>1. sock \in [Slots -> SocketType]
    BY TypesKnown DEF IInv
  <2>2. \E x : \/ sock' = [sock EXCEPT ![h].ctl = x] \/ sock' = [sock EXCEPT ![h].recv = x]
               \/ sock' = [sock EXCEPT ![h].send = x]
    BY Zenon DEF RunL, CtlRunL, ReaderRunL, WriterRunL, ConnectEnds, ReadStops, ReadEnds, SendEnds
  <2> QED BY <1>2, <2>1, <2>2
<1>6. \A d \in Streams \ {c} :
         /\ \A kind \in Kinds : /\ InRing(ring', d, kind) = InRing(ring, d, kind)
                                /\ <<d, kind>> \in lost' <=> <<d, kind>> \in lost
         /\ \A g : Mine(ring, d, g) => Mine(ring', d, g)
  <2>1. CASE RunL(h)
    <3>1. PICK kind \in Kinds, ao \in AOs(h) : Pushes(h, kind, ao)
      BY <2>1 DEF RunL, CtlRunL, ReaderRunL, WriterRunL, Kinds, AOs
    <3>2. ao \in AO
      BY TypesKnown DEF IInv, AOs, SocketType
    <3>3. LET o == sock[h].owner
          IN  /\ \A d, w : d # o \/ w # kind => InRing(ring', d, w) = InRing(ring, d, w)
              /\ \A d, g : d # o /\ Mine(ring, d, g) => Mine(ring', d, g)
              /\ \A d \in Streams : \A w \in Kinds : d # o \/ w # kind =>
                    (<<d, w>> \in lost' <=> <<d, w>> \in lost)
      BY <1>2, <3>1, <3>2, PushRing
    <3> QED BY <1>2, <3>3
  <2>2. CASE ~RunL(h)
    <3>1. ring' = ring /\ lost' = lost
      BY <2>2, Zenon DEF ConnectEnds, ReadStops, ReadEnds, SendEnds
    <3> QED BY <3>1
  <2> QED BY <2>1, <2>2
<1>7. Apart(c)
  BY <1>3, <1>4, <1>5, <1>6, OneApart
<1> QED BY <1>2, <1>3, <1>7

-----------------------------------------------------------------------------
\* on_event

\* Only a stream that has connected reads or sends.
LEMMA PastConnecting ==
    ASSUME NEW s \in StreamType, NEW b \in SocketType, NEW C, NEW R, NEW S, NEW dr, NEW ds,
           NEW tk, NEW rd, NEW wr \in Nat, NEW gt \in Seq(Nat), OutInOrder(wr, gt),
           Whole(s, b, C, R, S, dr, ds, tk, rd, wr, gt), R # {} \/ S # {}
    PROVE  s.state \notin {"Opening", "Connecting"} /\ ~IsActive(b.ctl) /\ C = {}
<1>1. s.state \notin {"Opening", "Connecting"}
  <2> SUFFICES ASSUME s.state \in {"Opening", "Connecting"} PROVE FALSE
    OBVIOUS
  <2>1. ~s.rxPending /\ wr = 0 /\ Rx(s, b.recv, R, dr, tk, rd) /\ Tx(s, b.send, S, ds, wr, gt)
    BY Zenon DEF Whole
  <2>2. R = {}
    BY <2>1, Zenon DEF Rx
  <2>3. Tx(s, b.send, S, ds, 0, gt) /\ OutInOrder(0, gt)
    BY <2>1
  <2>4. s.txPending = 0
    BY <2>3, TxUnused
  <2>5. ~(s.txPending > 0)
    BY <2>4
  <2>6. S = {}
    BY <2>3, <2>5, Zenon DEF Tx
  <2> QED BY <2>2, <2>6
<1>2. Ctl(s, b.ctl, C)
  BY DEF Whole
<1>3. s.state # "Connecting"
  BY <1>1
<1> QED BY <1>1, <1>2, <1>3, Zenon DEF Ctl

\* Whatever the completion, the stream that takes it is left whole; one that is over stays so.
LEMMA HandledKeeps ==
    ASSUME NEW s \in StreamType, Len(s.rx) <= RxCap, Len(s.tx) <= TxCap,
           NEW b \in SocketType, NEW e \in Event,
           NEW C, NEW R, NEW S, NEW dr \in BOOLEAN, NEW ds \in BOOLEAN,
           NEW tk \in Nat, NEW rd \in Seq(Nat), NEW wr \in Nat, NEW gt \in Seq(Nat),
           InOrder(s, tk, rd), OutInOrder(wr, gt),
           Whole(s, b, C, R, S, dr, ds, tk, rd, wr, gt),
           e.kind = "connected" => C = {e}, e.kind = "recv" => R = {e}, e.kind = "sent" => S = {e}
    PROVE  LET t == Handled(s, e, b)
               d == SockHandled(s, e, b)
           IN  /\ t \in StreamType /\ Len(t.rx) <= RxCap /\ Len(t.tx) <= TxCap
               /\ t.handle = s.handle /\ d \in SocketType /\ d.owner = b.owner
               /\ InOrder(t, tk, rd) /\ (s.state \in Over => t.state \in Over)
               /\ Whole(t, d, IF e.kind = "connected" THEN {} ELSE C,
                        IF e.kind = "recv" THEN {} ELSE R, IF e.kind = "sent" THEN {} ELSE S,
                        dr, ds, tk, rd, wr, gt)
<1> DEFINE t == Handled(s, e, b)
           d == SockHandled(s, e, b)
<1>1. /\ b.ctl \in AO /\ b.recv \in AO /\ b.send \in AO
      /\ e.kind \in Kinds /\ e.status \in Statuses /\ e.n \in Nat
      /\ s.state \in States
  BY CapsAssumption DEF SocketType, Event, StreamType
<1>2. /\ Ctl(s, b.ctl, C) /\ Rx(s, b.recv, R, dr, tk, rd) /\ Tx(s, b.send, S, ds, wr, gt)
      /\ s.state \in {"Opening", "Connecting"} => ~s.rxPending /\ wr = 0
  BY Zenon DEF Whole
<1>3. CASE e.kind = "connected" /\ e.status = "ok"
  <2> DEFINE u == [s EXCEPT !.state = "Connected"]
             x == RecvAfter(u, b.recv)
  <2>1. t = RxPumpedOrFailed(u, b.recv) /\ d = [b EXCEPT !.recv = x]
    BY <1>3 DEF Handled, SockHandled, Taken
  <2>2. /\ u \in StreamType /\ u.state = "Connected" /\ u.handle = s.handle /\ u.rx = s.rx
        /\ u.rxPending = s.rxPending /\ u.land = s.land /\ u.tx = s.tx
        /\ u.txPending = s.txPending
    BY Fields DEF States
  <2> HIDE DEF u
  <2>3. s.state = "Connecting" /\ ~IsActive(b.ctl)
    <3>1. C = {e}
      BY <1>3
    <3> QED BY <1>2, <3>1, Zenon DEF Ctl
  <2>4. Rx(u, b.recv, R, dr, tk, rd) /\ InOrder(u, tk, rd)
    BY <1>2, <2>2, RxSame
  <2>5. wr = 0
    BY <1>2, <2>3
  <2>6. Tx(u, b.send, S, ds, wr, gt)
    <3>1. Tx(s, b.send, S, ds, 0, gt) /\ OutInOrder(0, gt)
      BY <1>2, <2>5
    <3> QED BY <2>2, <2>5, <3>1, TxUnused
  <2>7. /\ ~RecvRefused(u, b.recv) /\ RxPumped(u, b.recv) \in StreamType /\ x \in AO
        /\ RxPumped(u, b.recv).rx = u.rx /\ RxPumped(u, b.recv).state = u.state
        /\ RxPumped(u, b.recv).tx = u.tx /\ RxPumped(u, b.recv).txPending = u.txPending
        /\ RxPumped(u, b.recv).handle = u.handle
        /\ Rx(RxPumped(u, b.recv), x, R, dr, tk, rd)
    <3>1. Len(u.rx) <= RxCap
      BY <2>2
    <3> QED BY <1>1, <2>2, <2>4, <3>1, PumpRx
  <2>8. t = RxPumped(u, b.recv)
    BY <2>1, <2>7 DEF RxPumpedOrFailed
  <2> HIDE DEF t, x, d
  <2>9. /\ d \in SocketType /\ d.ctl = b.ctl /\ d.recv = x /\ d.send = b.send /\ d.owner = b.owner
    <3>1. x \in AO
      BY <2>7
    <3>2. d = [b EXCEPT !.recv = x]
      BY <2>1
    <3> QED BY <3>1, <3>2, Fields
  <2>10. Ctl(t, d.ctl, {})
    BY <2>3, <2>9, Zenon DEF Ctl
  <2>11. Tx(t, d.send, S, ds, wr, gt)
    BY <2>6, <2>7, <2>8, <2>9, TxSame
  <2>12. t.state \notin {"Opening", "Connecting"}
    BY <2>2, <2>7, <2>8
  <2>13. Whole(t, d, {}, R, S, dr, ds, tk, rd, wr, gt)
    BY <2>7, <2>8, <2>9, <2>10, <2>11, <2>12, Zenon DEF Whole
  <2>14. InOrder(t, tk, rd)
    BY <2>4, <2>7, <2>8 DEF InOrder
  <2>15. s.state \notin Over
    BY <2>3 DEF Over
  <2>16. /\ t \in StreamType /\ Len(t.rx) <= RxCap /\ Len(t.tx) <= TxCap /\ t.handle = s.handle
    BY <2>2, <2>7, <2>8
  <2> QED BY <1>3, <2>9, <2>13, <2>14, <2>15, <2>16 DEF t, d
<1>4. CASE e.kind = "connected" /\ e.status # "ok"
  <2>1. t = [s EXCEPT !.state = "Failed"] /\ d = b
    BY <1>4 DEF Handled, SockHandled, Broken, Failed
  <2> HIDE DEF t, d
  <2>2. /\ t \in StreamType /\ t.state = "Failed" /\ t.handle = s.handle /\ t.rx = s.rx
        /\ t.rxPending = s.rxPending /\ t.land = s.land /\ t.tx = s.tx
        /\ t.txPending = s.txPending
    BY <2>1, Fields DEF States
  <2>3. Ctl(t, d.ctl, {})
    <3>1. C = {e}
      BY <1>4
    <3>2. ~IsActive(b.ctl)
      BY <1>2, <3>1, Zenon DEF Ctl
    <3> QED BY <2>1, <3>2, Zenon DEF Ctl
  <2>4. Rx(t, d.recv, R, dr, tk, rd) /\ InOrder(t, tk, rd)
    BY <1>2, <2>1, <2>2, RxSame
  <2>5. Tx(t, d.send, S, ds, wr, gt)
    BY <1>2, <2>1, <2>2, TxSame
  <2>6. Whole(t, d, {}, R, S, dr, ds, tk, rd, wr, gt)
    <3>1. t.state \notin {"Opening", "Connecting"}
      BY <2>2
    <3> QED BY <2>3, <2>4, <2>5, <3>1, Zenon DEF Whole
  <2>7. t.state \in Over /\ Len(t.rx) <= RxCap /\ Len(t.tx) <= TxCap
    BY <2>2 DEF Over
  <2> QED BY <1>4, <2>1, <2>2, <2>4, <2>6, <2>7 DEF t, d
<1>5. CASE e.kind = "recv" /\ e.status = "ok"
  <2> DEFINE u == Landed(s, e.n)
             x == RecvAfter(u, b.recv)
  <2>1. t = RxPumpedOrFailed(u, b.recv) /\ d = [b EXCEPT !.recv = x]
    BY <1>5 DEF Handled, SockHandled, Taken
  <2>2. Rx(s, b.recv, {e}, dr, tk, rd)
    BY <1>2, <1>5
  <2>3. /\ u \in StreamType /\ Len(u.rx) <= RxCap
        /\ InOrder(u, tk, rd) /\ Rx(u, b.recv, {}, dr, tk, rd)
        /\ u.handle = s.handle /\ u.state = s.state /\ u.tx = s.tx
        /\ u.txPending = s.txPending
    BY <1>1, <2>2, RxLanded
  <2> HIDE DEF u
  <2>4. s.state \notin {"Opening", "Connecting"}
    BY <1>5, PastConnecting
  <2>5. /\ ~RecvRefused(u, b.recv) /\ RxPumped(u, b.recv) \in StreamType /\ x \in AO
        /\ RxPumped(u, b.recv).rx = u.rx /\ RxPumped(u, b.recv).state = u.state
        /\ RxPumped(u, b.recv).tx = u.tx /\ RxPumped(u, b.recv).txPending = u.txPending
        /\ RxPumped(u, b.recv).handle = u.handle
        /\ Rx(RxPumped(u, b.recv), x, {}, dr, tk, rd)
    BY <1>1, <2>3, PumpRx
  <2>6. t = RxPumped(u, b.recv)
    BY <2>1, <2>5 DEF RxPumpedOrFailed
  <2> HIDE DEF t, x, d
  <2>7. /\ d \in SocketType /\ d.ctl = b.ctl /\ d.recv = x /\ d.send = b.send /\ d.owner = b.owner
    <3>1. x \in AO
      BY <2>5
    <3>2. d = [b EXCEPT !.recv = x]
      BY <2>1
    <3> QED BY <3>1, <3>2, Fields
  <2>8. Ctl(t, d.ctl, C)
    BY <1>2, <2>3, <2>5, <2>6, <2>7, Zenon DEF Ctl
  <2>9. Tx(t, d.send, S, ds, wr, gt)
    BY <1>2, <2>3, <2>5, <2>6, <2>7, TxSame
  <2>10. t.state \notin {"Opening", "Connecting"}
    BY <2>3, <2>4, <2>5, <2>6
  <2>11. Whole(t, d, C, {}, S, dr, ds, tk, rd, wr, gt)
    BY <2>5, <2>6, <2>7, <2>8, <2>9, <2>10, Zenon DEF Whole
  <2>12. InOrder(t, tk, rd)
    BY <2>3, <2>5, <2>6 DEF InOrder
  <2>13. /\ t \in StreamType /\ Len(t.rx) <= RxCap /\ Len(t.tx) <= TxCap /\ t.handle = s.handle
         /\ t.state = s.state
    BY <2>3, <2>5, <2>6
  <2> QED BY <1>5, <2>7, <2>11, <2>12, <2>13 DEF t, d
<1>6. CASE e.kind = "recv" /\ e.status # "ok"
  <2>1. /\ t = [s EXCEPT !.rxPending = FALSE,
                         !.state = IF e.status = "eof" THEN "Closed" ELSE "Failed"]
        /\ d = b
    BY <1>6 DEF Handled, SockHandled, Broken
  <2> HIDE DEF t, d
  <2>2. /\ t \in StreamType /\ t.state \in Over /\ t.handle = s.handle /\ t.rx = s.rx
        /\ t.rxPending = FALSE /\ t.tx = s.tx /\ t.txPending = s.txPending
    BY <2>1 DEF StreamType, States, Over
  <2>3. t.state \notin {"Opening", "Connecting", "Connected"}
    BY <2>2 DEF Over
  <2>4. ~IsActive(b.ctl) /\ C = {}
    BY <1>6, PastConnecting
  <2>5. Ctl(t, d.ctl, C)
    BY <2>1, <2>4, Zenon DEF Ctl
  <2>6. Rx(t, d.recv, {}, dr, tk, rd)
    <3>1. Rx(s, b.recv, {e}, dr, tk, rd) /\ e.status # "ok"
      BY <1>2, <1>6
    <3> QED BY <2>1, <2>2, <3>1, RxStopped
  <2>7. Tx(t, d.send, S, ds, wr, gt)
    <3>1. t.tx = s.tx /\ t.txPending = s.txPending /\ t.state # "Connected"
      BY <2>2, <2>3
    <3>2. d = b
      BY <2>1
    <3> QED BY <1>2, <3>1, <3>2, TxSame
  <2>8. Whole(t, d, C, {}, S, dr, ds, tk, rd, wr, gt)
    BY <2>3, <2>5, <2>6, <2>7, Zenon DEF Whole
  <2>9. InOrder(t, tk, rd) /\ Len(t.rx) <= RxCap /\ Len(t.tx) <= TxCap
    BY <2>2 DEF InOrder
  <2> QED BY <1>6, <2>1, <2>2, <2>8, <2>9 DEF t, d
<1>7. CASE e.kind = "sent" /\ e.status = "ok"
  <2> DEFINE u == [s EXCEPT !.tx = SubSeq(@, s.txPending + 1, Len(@)), !.txPending = 0]
             x == SendAfter(u, b.send)
  <2>1. t = TxPumpedOrFailed(u, b.send) /\ d = [b EXCEPT !.send = x]
    BY <1>7 DEF Handled, SockHandled, Taken
  <2>2. Tx(s, b.send, {e}, ds, wr, gt)
    BY <1>2, <1>7
  <2>3. /\ u \in StreamType /\ Len(u.tx) <= TxCap
        /\ u.rx = s.rx /\ u.rxPending = s.rxPending /\ u.land = s.land
        /\ u.handle = s.handle /\ u.state = s.state
        /\ Tx(u, b.send, {}, ds, wr, gt)
    BY <1>7, <2>2, TxTaken
  <2> HIDE DEF u
  <2>4. s.state \notin {"Opening", "Connecting"}
    BY <1>7, PastConnecting
  <2>5. /\ ~SendRefused(u, b.send) /\ TxPumped(u, b.send) \in StreamType /\ x \in AO
        /\ TxPumped(u, b.send).rx = u.rx /\ TxPumped(u, b.send).state = u.state
        /\ TxPumped(u, b.send).rxPending = u.rxPending /\ TxPumped(u, b.send).land = u.land
        /\ TxPumped(u, b.send).tx = u.tx /\ TxPumped(u, b.send).handle = u.handle
        /\ Tx(TxPumped(u, b.send), x, {}, ds, wr, gt)
    BY <1>1, <2>3, PumpTx
  <2>6. t = TxPumped(u, b.send)
    BY <2>1, <2>5 DEF TxPumpedOrFailed
  <2> HIDE DEF t, x, d
  <2>7. /\ d \in SocketType /\ d.ctl = b.ctl /\ d.recv = b.recv /\ d.send = x /\ d.owner = b.owner
    <3>1. x \in AO
      BY <2>5
    <3>2. d = [b EXCEPT !.send = x]
      BY <2>1
    <3> QED BY <3>1, <3>2, Fields
  <2>8. Ctl(t, d.ctl, C)
    BY <1>2, <2>3, <2>5, <2>6, <2>7, Zenon DEF Ctl
  <2>9. Rx(t, d.recv, R, dr, tk, rd) /\ InOrder(t, tk, rd)
    <3>1. t.rx = s.rx /\ t.rxPending = s.rxPending /\ t.land = s.land
      BY <2>3, <2>5, <2>6
    <3> QED BY <1>2, <2>7, <3>1, RxSame
  <2>10. t.state \notin {"Opening", "Connecting"}
    BY <2>3, <2>4, <2>5, <2>6
  <2>11. Whole(t, d, C, R, {}, dr, ds, tk, rd, wr, gt)
    BY <2>5, <2>6, <2>7, <2>8, <2>9, <2>10, Zenon DEF Whole
  <2>12. /\ t \in StreamType /\ Len(t.rx) <= RxCap /\ Len(t.tx) <= TxCap /\ t.handle = s.handle
         /\ t.state = s.state
    BY <2>3, <2>5, <2>6
  <2> QED BY <1>7, <2>7, <2>9, <2>11, <2>12 DEF t, d
<1>8. CASE e.kind = "sent" /\ e.status # "ok"
  <2>1. t = [[s EXCEPT !.state = "Failed"] EXCEPT !.tx = <<>>, !.txPending = 0] /\ d = b
    BY <1>8 DEF Handled, SockHandled, Broken, Failed
  <2> HIDE DEF t, d
  <2>2. /\ t \in StreamType /\ t.state = "Failed" /\ t.handle = s.handle /\ t.rx = s.rx
        /\ t.rxPending = s.rxPending /\ t.land = s.land /\ t.tx = <<>> /\ t.txPending = 0
    <3>1. <<>> \in Seq(Nat) /\ 0 \in 0..TxCap /\ "Failed" \in States
      BY CapsAssumption DEF States
    <3> QED BY <2>1, <3>1 DEF StreamType
  <2>3. ~IsActive(b.ctl) /\ C = {}
    BY <1>8, PastConnecting
  <2>4. Ctl(t, d.ctl, C)
    BY <2>1, <2>3, Zenon DEF Ctl
  <2>5. Rx(t, d.recv, R, dr, tk, rd) /\ InOrder(t, tk, rd)
    BY <1>2, <2>1, <2>2, RxSame
  <2>6. Tx(t, d.send, {}, ds, wr, gt)
    <3>1. Tx(s, b.send, {e}, ds, wr, gt) /\ t.state # "Connected"
      BY <1>2, <1>8, <2>2
    <3> QED BY <2>1, <2>2, <3>1, TxBroken
  <2>7. Whole(t, d, C, R, {}, dr, ds, tk, rd, wr, gt)
    <3>1. t.state \notin {"Opening", "Connecting"}
      BY <2>2
    <3> QED BY <2>4, <2>5, <2>6, <3>1, Zenon DEF Whole
  <2>8. t.state \in Over /\ Len(t.rx) <= RxCap /\ Len(t.tx) <= TxCap
    BY <2>2, CapsAssumption, EmptySeq DEF Over
  <2> QED BY <1>8, <2>1, <2>2, <2>5, <2>7, <2>8 DEF t, d
<1> QED BY <1>1, <1>3, <1>4, <1>5, <1>6, <1>7, <1>8 DEF Kinds

LEMMA NextEvent ==
    ASSUME IInv, ring # <<>>
    PROVE  LET e == Head(ring)
           IN  /\ e \in Event /\ Tail(ring) \in Seq(Event) /\ e \in InRing(ring, e.of, e.kind)
               /\ \A h : Mine(ring, e.of, h) => /\ h = e.handle
                                               /\ InRing(ring, e.of, e.kind) = {e}
                                               /\ InRing(Tail(ring), e.of, e.kind) = {}
               /\ \A c, h : Mine(ring, c, h) => Mine(Tail(ring), c, h)
               /\ \A c, kind : c # e.of \/ kind # e.kind =>
                     InRing(Tail(ring), c, kind) = InRing(ring, c, kind)
<1>1. ring \in Seq(Event)
  BY RingKnown
<1> QED BY <1>1, RingPop, Zenon

\* A sound stream whose slot the event does not name, and one that was not opened yet, have
\* no part in the event.
LEMMA NotItsEvent ==
    ASSUME IInv, ring # <<>>, NEW d \in Streams, stream[d].handle # Head(ring).handle,
           Sound(d) \/ d > opened
    PROVE  \A kind \in Kinds : InRing(Tail(ring), d, kind) = InRing(ring, d, kind)
<1> DEFINE e == Head(ring)
<1>1. /\ e \in Event /\ e \in InRing(ring, e.of, e.kind)
      /\ \A h : Mine(ring, e.of, h) => h = e.handle
      /\ \A c, kind : c # e.of \/ kind # e.kind =>
            InRing(Tail(ring), c, kind) = InRing(ring, c, kind)
  BY NextEvent, Zenon
<1> HIDE DEF e
<1>2. d # e.of
  <2>1. CASE Sound(d)
    <3>1. Mine(ring, d, stream[d].handle)
      BY <2>1, KnownOpen DEF Sound
    <3> QED BY <1>1, <3>1 DEF e
  <2>2. CASE d > opened
    <3>1. InRing(ring, d, e.kind) = {}
      BY <1>1, <2>2 DEF IInv, Fresh, Event
    <3> QED BY <1>1, <3>1
  <2> QED BY <2>1, <2>2
<1> QED BY <1>1, <1>2

\* What an event does to the stream that takes it, and that it leaves the others alone.
LEMMA PollIs ==
    ASSUME IInv, Poll
    PROVE  LET e == Head(ring)
           IN  /\ e \in Event /\ ring # <<>> /\ ring' = Tail(ring)
               /\ gui' = gui /\ opened' = opened /\ lost' = lost /\ taken' = taken
               /\ read' = read /\ wrote' = wrote /\ got' = got
               /\ (\A c \in Streams : stream[c].handle # e.handle) =>
                     stream' = stream /\ sock' = sock /\ misled' = misled
               /\ \A d \in Streams : stream[d].handle # e.handle => Alone(d)
               /\ \A c \in Streams : stream[c].handle = e.handle =>
                     /\ IsOpen(c) /\ Apart(c)
                     /\ misled' = IF e.of = c THEN misled ELSE misled \cup {c}
                     /\ stream' = [stream EXCEPT ![c] =
                                      Handled(stream[c], e, sock[e.handle])]
                     /\ sock' = [sock EXCEPT ![e.handle] =
                                    SockHandled(stream[c], e, sock[e.handle])]
<1> DEFINE e == Head(ring)
<1>1. /\ gui' = gui /\ opened' = opened /\ lost' = lost /\ ring # <<>> /\ ring' = Tail(ring)
      /\ taken' = taken /\ read' = read /\ wrote' = wrote /\ got' = got
      /\ stream' = [c \in Streams |-> IF stream[c].handle = e.handle
                                      THEN Handled(stream[c], e, sock[stream[c].handle])
                                      ELSE stream[c]]
      /\ sock' = [h \in Slots |-> IF \E c \in Held(h) : stream[c].handle = e.handle
                                  THEN SockHandled(stream[sock[h].owner], e, sock[h])
                                  ELSE sock[h]]
      /\ misled' = misled \cup {c \in Streams : stream[c].handle = e.handle /\ e.of # c}
  BY DEF Poll, Takes, app
<1>2. /\ e \in Event /\ \A c, h : Mine(ring, c, h) => Mine(Tail(ring), c, h)
  BY <1>1, RingKnown, RingPop
<1>3. /\ stream \in [Streams -> StreamType] /\ sock \in [Slots -> SocketType]
      /\ e.handle \in Slots /\ e.handle # NoHandle
  BY <1>2, TypesKnown DEF IInv, Event
<1> HIDE DEF e
<1>4. ASSUME \A c \in Streams : stream[c].handle # e.handle
      PROVE  stream' = stream /\ sock' = sock /\ misled' = misled
  <2>1. stream' = stream /\ misled' = misled
    BY <1>1, <1>3, <1>4
  <2>2. sock' = sock
    BY <1>1, <1>3, <1>4 DEF Held
  <2> QED BY <2>1, <2>2
<1>5. ASSUME NEW d \in Streams, stream[d].handle # e.handle
      PROVE  Alone(d)
  <2>1. stream'[d] = stream[d] /\ (d \in misled' <=> d \in misled)
    BY <1>1, <1>5
  <2>2. IsOpen(d) => sock'[stream[d].handle] = sock[stream[d].handle]
    <3> SUFFICES ASSUME IsOpen(d) PROVE sock'[stream[d].handle] = sock[stream[d].handle]
      OBVIOUS
    <3>1. stream[d].handle \in Slots
      BY TiesKnown DEF IInv
    <3>2. \A c \in Held(stream[d].handle) : stream[c].handle # e.handle
      BY <1>5 DEF Held
    <3> QED BY <1>1, <3>1, <3>2
  <2>3. ASSUME Sound(d) \/ d > opened
        PROVE  \A kind \in Kinds : InRing(ring', d, kind) = InRing(ring, d, kind)
    BY <1>1, <1>5, <2>3, NotItsEvent DEF e
  <2>4. /\ taken'[d] = taken[d] /\ read'[d] = read[d] /\ wrote'[d] = wrote[d] /\ got'[d] = got[d]
        /\ \A kind \in Kinds : <<d, kind>> \in lost' <=> <<d, kind>> \in lost
        /\ \A h : Mine(ring, d, h) => Mine(ring', d, h)
    BY <1>1, <1>2
  <2> QED BY <2>1, <2>2, <2>3, <2>4, Zenon DEF Alone
<1>6. ASSUME NEW c \in Streams, stream[c].handle = e.handle
      PROVE  /\ IsOpen(c) /\ Apart(c)
             /\ misled' = IF e.of = c THEN misled ELSE misled \cup {c}
             /\ stream' = [stream EXCEPT ![c] = Handled(stream[c], e, sock[e.handle])]
             /\ sock' = [sock EXCEPT ![e.handle] = SockHandled(stream[c], e, sock[e.handle])]
  <2>1. IsOpen(c)
    BY <1>3, <1>6 DEF IsOpen
  <2>2. \A d \in Streams : stream[d].handle = e.handle => d = c
    BY <1>6, <2>1, TiesKnown DEF IInv
  <2>3. Apart(c)
    <3>1. opened' \in Nat /\ opened <= opened'
      BY <1>1, RingKnown
    <3> QED BY <1>5, <2>2, <3>1 DEF Apart
  <2>4. misled' = IF e.of = c THEN misled ELSE misled \cup {c}
    <3>1. \A d \in Streams : stream[d].handle = e.handle <=> d = c
      BY <1>6, <2>2
    <3>2. {d \in Streams : stream[d].handle = e.handle /\ e.of # d}
             = IF e.of = c THEN {} ELSE {c}
      BY <3>1
    <3> QED BY <1>1, <3>2
  <2>5. stream' = [stream EXCEPT ![c] = Handled(stream[c], e, sock[e.handle])]
    BY <1>1, <1>3, <1>6, <2>2
  <2>6. sock' = [sock EXCEPT ![e.handle] = SockHandled(stream[c], e, sock[e.handle])]
    <3>1. \A g \in Slots : (\E d \in Held(g) : stream[d].handle = e.handle) <=> g = e.handle
      BY <1>6 DEF Held
    <3>2. sock[e.handle].owner = c
      BY <1>6, <2>1, TiesKnown DEF IInv
    <3>3. sock' = [g \in Slots |-> IF g = e.handle THEN SockHandled(stream[sock[g].owner], e, sock[g])
                                                   ELSE sock[g]]
      BY <1>1, <3>1
    <3> QED BY <1>3, <3>2, <3>3
  <2> QED BY <2>1, <2>3, <2>4, <2>5, <2>6
<1> QED BY <1>1, <1>2, <1>4, <1>5, <1>6, Zenon DEF e

\* An event goes to the one stream that holds its slot, or to none; a stream that takes
\* another's is misled. No stream that takes its own comes back when it is over.
LEMMA PollKeeps ==
    ASSUME IInv, Poll
    PROVE  /\ IInv'
           /\ \/ \E c \in Streams :
                    /\ IsOpen(c) /\ Apart(c)
                    /\ misled' = misled \/ misled' = misled \cup {c}
                    /\ c \notin misled' /\ stream[c].state \in Over => stream'[c].state \in Over
              \/ stream' = stream /\ misled' = misled
<1> DEFINE e == Head(ring)
<1>1. /\ gui' = gui /\ opened' = opened /\ lost' = lost /\ ring # <<>> /\ ring' = Tail(ring)
      /\ taken' = taken /\ read' = read /\ wrote' = wrote /\ got' = got /\ e \in Event
  BY PollIs
<1>2. TypeInv'
  BY PollTypes DEF IInv
<1>3. CASE \A c \in Streams : stream[c].handle # e.handle
  <2>1. stream' = stream /\ misled' = misled
    BY <1>3, PollIs
  <2>2. \A d \in Streams : Alone(d)
    BY <1>3, PollIs
  <2>3. opened' \in Nat /\ opened <= opened'
    BY <1>1, RingKnown
  <2>4. \A d \in Streams : Safe(d)' /\ Fresh(d)'
    BY <2>2, <2>3, LeftAlone
  <2> QED BY <1>2, <2>1, <2>4 DEF IInv
<1>4. ASSUME NEW c \in Streams, stream[c].handle = e.handle
      PROVE  /\ IInv' /\ IsOpen(c) /\ Apart(c)
             /\ misled' = misled \/ misled' = misled \cup {c}
             /\ c \notin misled' /\ stream[c].state \in Over => stream'[c].state \in Over
  <2> DEFINE s == stream[c]
             h == s.handle
             t == Handled(s, e, sock[h])
             b == SockHandled(s, e, sock[h])
             C == InRing(ring, c, "connected")
             R == InRing(ring, c, "recv")
             S == InRing(ring, c, "sent")
             dr == <<c, "recv">> \in lost
             ds == <<c, "sent">> \in lost
  <2>1. /\ IsOpen(c) /\ h = e.handle /\ Apart(c)
        /\ misled' = IF e.of = c THEN misled ELSE misled \cup {c}
        /\ stream' = [stream EXCEPT ![c] = t] /\ sock' = [sock EXCEPT ![h] = b]
    BY <1>4, PollIs
  <2>2. CASE c \in misled'
    <3>1. IInv'
      BY <1>2, <2>1, <2>2, MisledMoves
    <3> QED BY <2>1, <2>2, <3>1
  <2>3. CASE c \notin misled'
    <3>1. c \notin misled /\ misled' = misled /\ e.of = c
      BY <2>1, <2>3
    <3>2. sock[h] \in SocketType /\ sock[h].owner = c /\ Mine(ring, c, h)
      BY <2>1, <3>1, KnownOpen
    <3>3. Whole(s, sock[h], C, R, S, dr, ds, taken[c], read[c], wrote[c], got[c])
      BY <2>1, <3>1, KnownOpen
    <3>4. /\ s \in StreamType /\ Len(s.rx) <= RxCap /\ Len(s.tx) <= TxCap
          /\ taken[c] \in Nat /\ read[c] \in Seq(Nat) /\ wrote[c] \in Nat /\ got[c] \in Seq(Nat)
          /\ InOrder(s, taken[c], read[c]) /\ OutInOrder(wrote[c], got[c])
      BY <3>1, Known
    <3>5. /\ InRing(ring, c, e.kind) = {e} /\ InRing(ring', c, e.kind) = {}
          /\ \A d, w : d # c \/ w # e.kind => InRing(ring', d, w) = InRing(ring, d, w)
          /\ \A d, g : Mine(ring, d, g) => Mine(ring', d, g)
          /\ ring' \in Seq(Event)
      <4>1. /\ Tail(ring) \in Seq(Event)
            /\ Mine(ring, e.of, h) => /\ InRing(ring, e.of, e.kind) = {e}
                                      /\ InRing(Tail(ring), e.of, e.kind) = {}
            /\ \A d, w : d # e.of \/ w # e.kind => InRing(Tail(ring), d, w) = InRing(ring, d, w)
            /\ \A d, g : Mine(ring, d, g) => Mine(Tail(ring), d, g)
        BY <1>1, NextEvent, Zenon
      <4> HIDE DEF e
      <4> QED BY <1>1, <3>1, <3>2, <4>1
    <3>6. Len(ring') <= Capacity
      BY <1>2, TypesKnown DEF TypeInv, TypeOK
    <3> HIDE DEF e
    <3>7. /\ e.kind = "connected" => C = {e}
          /\ e.kind = "recv" => R = {e}
          /\ e.kind = "sent" => S = {e}
      BY <3>5
    <3>8. dr \in BOOLEAN /\ ds \in BOOLEAN
      OBVIOUS
    <3>9. /\ InRing(ring', c, "connected") = IF e.kind = "connected" THEN {} ELSE C
          /\ InRing(ring', c, "recv") = IF e.kind = "recv" THEN {} ELSE R
          /\ InRing(ring', c, "sent") = IF e.kind = "sent" THEN {} ELSE S
      BY <3>5
    <3> HIDE DEF C, R, S, dr, ds
    <3>10. /\ t \in StreamType /\ Len(t.rx) <= RxCap /\ Len(t.tx) <= TxCap
           /\ t.handle = h /\ b \in SocketType /\ b.owner = c
           /\ InOrder(t, taken[c], read[c]) /\ (s.state \in Over => t.state \in Over)
           /\ Whole(t, b, IF e.kind = "connected" THEN {} ELSE C,
                    IF e.kind = "recv" THEN {} ELSE R, IF e.kind = "sent" THEN {} ELSE S,
                    dr, ds, taken[c], read[c], wrote[c], got[c])
      <4>1. PICK a : a = sock[h]
        OBVIOUS
      <4>2. a \in SocketType /\ a.owner = c
        BY <3>2, <4>1
      <4>3. Whole(s, a, C, R, S, dr, ds, taken[c], read[c], wrote[c], got[c])
        BY <3>3, <4>1
      <4>4. /\ Handled(s, e, a) \in StreamType
            /\ Len(Handled(s, e, a).rx) <= RxCap /\ Len(Handled(s, e, a).tx) <= TxCap
            /\ Handled(s, e, a).handle = s.handle /\ SockHandled(s, e, a) \in SocketType
            /\ SockHandled(s, e, a).owner = a.owner
            /\ InOrder(Handled(s, e, a), taken[c], read[c])
            /\ (s.state \in Over => Handled(s, e, a).state \in Over)
            /\ Whole(Handled(s, e, a), SockHandled(s, e, a), IF e.kind = "connected" THEN {} ELSE C,
                     IF e.kind = "recv" THEN {} ELSE R, IF e.kind = "sent" THEN {} ELSE S,
                     dr, ds, taken[c], read[c], wrote[c], got[c])
        <5> HIDE DEF s
        <5> QED BY <1>1, <3>4, <3>7, <3>8, <4>2, <4>3, HandledKeeps
      <4> QED BY <4>1, <4>2, <4>4
    <3> HIDE DEF t, b
    <3>11. /\ (<<c, "recv">> \in lost') = dr /\ (<<c, "sent">> \in lost') = ds
      BY <1>1 DEF dr, ds
    <3>12. Whole(t, b, InRing(ring', c, "connected"), InRing(ring', c, "recv"),
                 InRing(ring', c, "sent"), <<c, "recv">> \in lost', <<c, "sent">> \in lost',
                 taken[c], read[c], wrote[c], got[c])
      BY <3>9, <3>10, <3>11
    <3>13. Mine(ring', c, t.handle) /\ t.handle = h
      BY <3>2, <3>5, <3>10
    <3>14. stream'[c] = t /\ sock'[h] = b
      BY <2>1, TypesKnown, TiesKnown DEF IInv
    <3>15. Kept(c)'
      BY <1>1, <3>12, <3>13, <3>14 DEF Kept
    <3>16. Ordered(c)'
      BY <1>1, <3>4, <3>10, <3>14 DEF Ordered
    <3>17. Safe(c)'
      BY <3>15, <3>16 DEF Safe
    <3>18. Fresh(c)'
      BY <1>1, <2>1, OpenedBefore DEF Fresh, IInv
    <3>19. IInv'
      BY <1>2, <2>1, <3>17, <3>18, Moves
    <3> QED BY <2>1, <3>1, <3>10, <3>14, <3>19
  <2> QED BY <2>2, <2>3
<1>5. CASE \E c \in Streams : stream[c].handle = e.handle
  BY <1>4, <1>5
<1> QED BY <1>3, <1>5

-----------------------------------------------------------------------------
\* close and open

LEMMA CloseKeeps ==
    ASSUME IInv, NEW c \in Streams, Close(c)
    PROVE  IInv' /\ IsOpen(c) /\ stream'[c].state = "Closed"
<1> DEFINE s == stream[c]
           t == [NewStream EXCEPT !.state = "Closed", !.rx = s.rx]
<1>1. /\ IsOpen(c) /\ stream' = [stream EXCEPT ![c] = t] /\ opened' = opened
      /\ taken' = taken /\ read' = read /\ wrote' = wrote /\ got' = got /\ misled' = misled
  BY DEF Close, IsOpen, app
<1>2. t.state = "Closed" /\ t.rx = s.rx /\ t.handle = NoHandle
  BY DEF NewStream
<1> HIDE DEF t
<1>3. stream'[c] = t
  BY <1>1, TypesKnown DEF IInv
<1>4. TypeInv' /\ Apart(c)
  BY CloseTypes, AppApart DEF IInv
<1>5. Safe(c)'
  <2>1. Kept(c)'
    BY <1>2, <1>3 DEF Kept, IsOpen
  <2>2. ASSUME c \notin misled PROVE Ordered(c)'
    <3>1. InOrder(s, taken[c], read[c]) /\ OutInOrder(wrote[c], got[c])
      BY <2>2, Known
    <3>2. InOrder(t, taken[c], read[c])
      BY <1>2, <3>1 DEF InOrder
    <3> QED BY <1>1, <1>3, <3>1, <3>2 DEF Ordered
  <2> QED BY <1>1, <2>1, <2>2 DEF Safe
<1>6. Fresh(c)'
  BY <1>1, OpenedBefore DEF Fresh, IInv
<1>7. IInv'
  BY <1>4, <1>5, <1>6, Moves
<1> QED BY <1>1, <1>2, <1>3, <1>7

LEMMA OpenKeeps ==
    ASSUME IInv, NEW h \in Slots, Open(h)
    PROVE  /\ IInv' /\ opened + 1 \in Streams /\ opened + 1 \notin misled /\ misled' = misled
           /\ Apart(opened + 1) /\ stream[opened + 1].state = "Opening"
           /\ \A c \in Streams : stream'[c].state = stream[c].state
<1> DEFINE c == opened + 1
           t == [stream[c] EXCEPT !.handle = h]
           b == [FreeSocket EXCEPT !.owner = c]
<1>1. /\ stream' = [stream EXCEPT ![c] = t] /\ sock' = [sock EXCEPT ![h] = b]
      /\ sock[h].owner = NoStream /\ misled' = misled
      /\ ring' = ring /\ gui' = gui /\ lost' = lost /\ opened' = c /\ opened < MaxStreams
      /\ taken' = taken /\ read' = read /\ wrote' = wrote /\ got' = got
  BY DEF Open, IsNextSlot
<1>2. PICK n \in Streams : n = c /\ n \in Nat /\ opened \in Nat /\ n > opened
  <2>1. opened \in 0..MaxStreams /\ MaxStreams \in Nat /\ opened < MaxStreams
    BY <1>1, BoundsAssumption, TypesKnown DEF IInv
  <2>2. opened + 1 \in 1..MaxStreams /\ opened + 1 \in Nat /\ opened \in Nat /\ opened + 1 > opened
    BY <2>1
  <2> QED BY <2>2 DEF Streams
<1>3. /\ stream \in [Streams -> StreamType] /\ sock \in [Slots -> SocketType]
      /\ stream[n] \in StreamType
  BY TypesKnown DEF IInv
<1>4. /\ ~IsOpen(n) /\ stream[n].state = "Opening" /\ ~stream[n].rxPending
      /\ stream[n].txPending = 0 /\ Len(stream[n].tx) = 0
      /\ taken[n] = 0 /\ wrote[n] = 0 /\ n \notin misled
      /\ \A kind \in Kinds : InRing(ring, n, kind) = {} /\ <<n, kind>> \notin lost
  BY <1>2 DEF IInv, Fresh
<1>5. /\ t \in StreamType /\ t.handle = h /\ t.state = "Opening" /\ ~t.rxPending
      /\ t.txPending = 0 /\ t.rx = stream[n].rx /\ t.tx = stream[n].tx
  <2>1. \A x \in StreamType : LET y == [x EXCEPT !.handle = h]
            IN  /\ y \in StreamType /\ y.handle = h /\ y.state = x.state
                /\ y.rxPending = x.rxPending /\ y.txPending = x.txPending
                /\ y.rx = x.rx /\ y.tx = x.tx
    BY DEF StreamType
  <2> HIDE DEF t
  <2>2. t = [stream[n] EXCEPT !.handle = h]
    BY <1>2 DEF t
  <2> QED BY <1>3, <1>4, <2>1, <2>2
<1>6. b.owner = n /\ b.ctl = Idle /\ b.recv = Idle /\ b.send = Idle
  BY <1>2 DEF FreeSocket
<1>7. stream' = [stream EXCEPT ![n] = t] /\ opened' = n
  BY <1>1, <1>2
<1> HIDE DEF t, b
<1>8. /\ stream'[n] = t /\ \A d \in Streams \ {n} : stream'[d] = stream[d]
      /\ sock'[h] = b /\ \A g \in Slots \ {h} : sock'[g] = sock[g]
  BY <1>1, <1>3, <1>7
<1>9. /\ read[n] \in Seq(Nat) /\ got[n] \in Seq(Nat)
      /\ InOrder(stream[n], 0, read[n]) /\ OutInOrder(0, got[n])
  BY <1>4, Known
<1>10. TypeInv'
  BY OpenTypes DEF IInv
<1>11. Whole(t, b, {}, {}, {}, FALSE, FALSE, 0, read[n], 0, got[n])
  <2>1. PICK r \in Nat, w \in Nat, x \in Nat, y \in Nat :
            /\ r = Len(stream[n].rx) /\ w = Len(read[n]) /\ x = Len(got[n]) /\ y = Len(stream[n].tx)
    BY <1>3, <1>9, LenProperties DEF StreamType
  <2>2. r = 0 /\ w = 0 /\ x = 0 /\ y = 0
    <3>1. w + r <= 0
      BY <1>9, <2>1 DEF InOrder
    <3>2. x <= 0
      BY <1>9, <2>1 DEF OutInOrder
    <3>3. y = 0
      BY <1>4, <2>1
    <3> QED BY <3>1, <3>2, <3>3
  <2>3. Idle.st = "idle" /\ ~IsActive(Idle)
    BY DEF Idle, IsActive
  <2>4. Unread(t, 0, read[n]) = 0
    BY <1>5, <2>1, <2>2 DEF Unread
  <2>5. Acknowledged(t, 0) = 0 /\ Len(t.tx) = 0
    BY <1>5, <2>1, <2>2 DEF Acknowledged
  <2>6. Ctl(t, b.ctl, {})
    BY <1>6, <2>3, Zenon DEF Ctl
  <2>7. Rx(t, b.recv, {}, FALSE, 0, read[n])
    BY <1>5, <1>6, <2>3, <2>4 DEF Rx
  <2>8. Tx(t, b.send, {}, FALSE, 0, got[n])
    BY <1>5, <1>6, <2>1, <2>2, <2>3, <2>5 DEF Tx
  <2> QED BY <1>5, <2>6, <2>7, <2>8, Zenon DEF Whole
<1>12. Kept(n)'
  <2>1. "connected" \in Kinds /\ "recv" \in Kinds /\ "sent" \in Kinds
    BY DEF Kinds
  <2>2. /\ InRing(ring', n, "connected") = {} /\ InRing(ring', n, "recv") = {}
        /\ InRing(ring', n, "sent") = {}
    BY <1>1, <1>4, <2>1
  <2>3. (<<n, "recv">> \in lost') = FALSE /\ (<<n, "sent">> \in lost') = FALSE
    BY <1>1, <1>4, <2>1
  <2>4. stream'[n] = t /\ sock'[stream'[n].handle] = b /\ stream'[n].handle = h
        /\ taken'[n] = 0 /\ read'[n] = read[n] /\ wrote'[n] = 0 /\ got'[n] = got[n]
    BY <1>1, <1>4, <1>5, <1>8
  <2>5. Mine(ring', n, h)
    <3>1. \A i \in DOMAIN ring' : ring'[i].of # n
      <4>1. \A i \in DOMAIN ring : ring[i].kind \in Kinds
        <5>1. ring \in Seq(Event)
          BY RingKnown
        <5>2. \A i \in DOMAIN ring : ring[i] \in Event
          BY <5>1, ElementOfSeq, LenProperties
        <5> QED BY <5>2 DEF Event
      <4>2. \A i \in DOMAIN ring : ring[i].of # n
        BY <1>4, <4>1 DEF InRing
      <4> QED BY <1>1, <4>2
    <3> QED BY <3>1 DEF Mine
  <2>6. Whole(t, b, InRing(ring', n, "connected"), InRing(ring', n, "recv"),
              InRing(ring', n, "sent"), <<n, "recv">> \in lost', <<n, "sent">> \in lost',
              0, read[n], 0, got[n])
    BY <1>11, <2>2, <2>3
  <2> QED BY <2>4, <2>5, <2>6 DEF Kept
<1>13. Ordered(n)'
  <2>1. InOrder(t, 0, read[n])
    BY <1>5, <1>9 DEF InOrder
  <2>2. stream'[n] = t /\ taken'[n] = 0 /\ read'[n] = read[n] /\ wrote'[n] = 0 /\ got'[n] = got[n]
    BY <1>1, <1>4, <1>8
  <2> QED BY <1>9, <2>1, <2>2 DEF Ordered
<1>14. Apart(n)
  <2>1. ASSUME NEW d \in Streams \ {n} PROVE Alone(d)
    <3>1. IsOpen(d) => sock'[stream[d].handle] = sock[stream[d].handle]
      <4>1. IsOpen(d) => /\ stream[d].handle \in Slots /\ sock[stream[d].handle].owner = d
                         /\ d # NoStream
        BY TiesKnown DEF IInv, Streams, NoStream
      <4> QED BY <1>1, <1>8, <4>1
    <3>2. /\ stream'[d] = stream[d] /\ taken'[d] = taken[d] /\ read'[d] = read[d]
          /\ wrote'[d] = wrote[d] /\ got'[d] = got[d]
      BY <1>1, <1>8
    <3> QED BY <1>1, <3>1, <3>2 DEF Alone
  <2>2. opened' \in Nat /\ opened <= opened'
    BY <1>2, <1>7
  <2> QED BY <2>1, <2>2 DEF Apart
<1>15. Safe(n)' /\ Fresh(n)'
  <2>1. ~(n > opened')
    BY <1>2, <1>7
  <2> QED BY <1>12, <1>13, <2>1 DEF Safe, Fresh
<1>16. IInv'
  BY <1>10, <1>14, <1>15, Moves
<1>17. \A d \in Streams : stream'[d].state = stream[d].state
  BY <1>4, <1>5, <1>8
<1> QED BY <1>1, <1>2, <1>4, <1>14, <1>16, <1>17

-----------------------------------------------------------------------------
\* The theorems

LEMMA InitHolds == Init => IInv
<1> SUFFICES ASSUME Init PROVE IInv
  OBVIOUS
<1>1. /\ stream = [c \in Streams |-> NewStream] /\ ring = <<>>
      /\ taken = [c \in Streams |-> 0]
      /\ read = [c \in Streams |-> <<>>] /\ wrote = [c \in Streams |-> 0]
      /\ got = [c \in Streams |-> <<>>] /\ lost = {} /\ misled = {}
  BY DEF Init
<1>2. TypeInv
  BY InitTypes
<1>3. /\ NewStream.rx = <<>> /\ NewStream.tx = <<>>
      /\ NewStream.handle = NoHandle /\ NewStream.state = "Opening"
      /\ NewStream.rxPending = FALSE /\ NewStream.txPending = 0
  BY DEF NewStream
<1>4. Len(<<>>) = 0 /\ DOMAIN <<>> = {}
  BY EmptySeq
<1> HIDE DEF Init
<1>5. ASSUME NEW c \in Streams PROVE Safe(c) /\ Fresh(c)
  <2>1. /\ stream[c] = NewStream /\ taken[c] = 0 /\ read[c] = <<>> /\ wrote[c] = 0
        /\ got[c] = <<>>
    BY <1>1
  <2>2. ~IsOpen(c)
    BY <1>3, <2>1 DEF IsOpen
  <2>3. Ordered(c)
    BY <1>3, <1>4, <2>1 DEF Ordered, InOrder, OutInOrder
  <2>4. \A kind \in Kinds : InRing(ring, c, kind) = {} /\ <<c, kind>> \notin lost
    BY <1>1, <1>4 DEF InRing
  <2>5. Fresh(c)
    BY <1>1, <1>3, <1>4, <2>1, <2>2, <2>4 DEF Fresh
  <2> QED BY <2>2, <2>3, <2>5 DEF Safe, Kept
<1> QED BY <1>2, <1>5 DEF IInv

LEMMA Inductive == IInv /\ [Next]_vars => IInv'
<1> SUFFICES ASSUME IInv, [Next]_vars PROVE IInv'
  OBVIOUS
<1>0. TypeInv'
  BY TypesStay DEF IInv
<1>1. ASSUME UNCHANGED <<stream, sock, ring, opened, taken, read, wrote, got, lost, misled>>
      PROVE  IInv'
  <2>1. opened' \in Nat /\ opened <= opened'
    BY <1>1, RingKnown
  <2>2. ASSUME NEW c \in Streams PROVE Safe(c)' /\ Fresh(c)'
    <3>1. Alone(c)
      BY <1>1 DEF Alone
    <3> QED BY <2>1, <3>1, LeftAlone
  <2> QED BY <1>0, <2>2 DEF IInv
<1>2. CASE UNCHANGED vars
  BY <1>1, <1>2 DEF vars, app
<1>3. CASE StepBegins \/ StepEnds
  BY <1>1, <1>3 DEF StepBegins, StepEnds, app
<1>4. CASE Poll
  BY <1>4, PollKeeps
<1>5. ASSUME NEW h \in Slots, Open(h) PROVE IInv'
  BY <1>5, OpenKeeps
<1>6. ASSUME NEW c \in Streams, Close(c) PROVE IInv'
  BY <1>6, CloseKeeps
<1>7. ASSUME NEW c \in Streams,
             \/ Connect(c)
             \/ \E k \in 1..TxCap : Write(c, k)
             \/ \E k \in 1..RxCap : Read(c, k)
      PROVE  IInv'
  <2>1. CASE c \in misled
    <3>1. Apart(c) /\ misled' = misled
      BY <1>7, AppApart
    <3> QED BY <1>0, <2>1, <3>1, MisledMoves
  <2>2. CASE c \notin misled
    BY <1>7, <2>2, ConnectKeeps, WriteKeeps, ReadKeeps
  <2> QED BY <2>1, <2>2
<1>8. ASSUME NEW h \in Slots,
             \/ RunL(h)
             \/ \E status \in {"ok", "error"} : ConnectEnds(h, status)
             \/ \E k \in 1..RxCap : ReadEnds(h, k)
             \/ \E status \in {"eof", "error"} : ReadStops(h, status)
             \/ \E status \in {"ok", "error"} : \E k \in 0..TxCap : SendEnds(h, status, k)
      PROVE  IInv'
  <2>1. CASE sock[h].owner \in misled
    <3>1. /\ sock[h].owner \in Streams /\ Apart(sock[h].owner) /\ misled' = misled
      BY <1>8, SocketApart
    <3> QED BY <1>0, <2>1, <3>1, MisledMoves
  <2>2. CASE sock[h].owner \notin misled
    BY <1>8, <2>2, RunLKeeps, ConnectEndsKeeps, ReadEndsKeeps, ReadStopsKeeps, SendEndsKeeps
  <2> QED BY <2>1, <2>2
<1>9. CASE Gui
  BY <1>3, <1>4, <1>8, <1>9 DEF Gui
<1>10. CASE App
  BY <1>5, <1>6, <1>7, <1>10 DEF App
<1>11. CASE Network
  BY <1>8, <1>11 DEF Network
<1> QED BY <1>2, <1>9, <1>10, <1>11 DEF Next

\* What is known of the streams that were not misled holds always, whatever the application
\* and the network do and however the slots are used again.
THEOREM InvariantHolds == Spec => []IInv
  BY InitHolds, Inductive, PTL DEF Spec

\* The events a stream waits for, as the properties name them.
LEMMA RingIsQueued ==
    ASSUME NEW c \in Streams, NEW kind
    PROVE  /\ Queued(c, kind) <=> InRing(ring, c, kind) # {}
           /\ {ring[i].n : i \in {j \in DOMAIN ring : IsFor(ring[j], c, kind)}}
                 = {a.n : a \in InRing(ring, c, kind)}
<1>1. Queued(c, kind) <=> InRing(ring, c, kind) # {}
  BY Zenon DEF Queued, InRing, IsFor
<1> QED BY <1>1 DEF InRing, IsFor

-----------------------------------------------------------------------------
\* A stream asks whenever it may

AsksRead(s) == s.state = "Connected" /\ Free(s) > 0 => s.rxPending
AsksSend(s) == s.state = "Connected" /\ s.tx # <<>> => s.txPending > 0
Asking == \A c \in Streams : Sound(c) => AsksRead(stream[c]) /\ AsksSend(stream[c])

\* A pump leaves its direction asked for, unless it finds an object active of which the
\* stream does not know; then it fails the stream, or a call of the application is refused.
LEMMA ReadPumpAsks ==
    ASSUME NEW s \in StreamType, NEW ao
    PROVE  /\ (~s.rxPending => ~IsActive(ao)) => AsksRead(RxPumped(s, ao))
           /\ AsksRead(RxPumpedOrFailed(s, ao))
           /\ AsksSend(s) => AsksSend(RxPumped(s, ao)) /\ AsksSend(RxPumpedOrFailed(s, ao))
<1>1. CASE ~WantsRead(s)
  <2>1. RxPumped(s, ao) = s /\ RxPumpedOrFailed(s, ao) = s
    BY <1>1 DEF RxPumped, RxPumpedOrFailed, Recvs, RecvRefused
  <2>2. AsksRead(s)
    BY <1>1 DEF WantsRead, AsksRead
  <2> QED BY <2>1, <2>2
<1>2. CASE WantsRead(s) /\ ~IsActive(ao)
  <2> DEFINE t == [s EXCEPT !.rxPending = TRUE]
  <2>1. RxPumped(s, ao) = t /\ RxPumpedOrFailed(s, ao) = t
    BY <1>2 DEF RxPumped, RxPumpedOrFailed, Recvs, RecvRefused
  <2>2. t.rxPending /\ t.state = s.state /\ t.tx = s.tx /\ t.txPending = s.txPending
    BY DEF StreamType
  <2> HIDE DEF t
  <2> QED BY <2>1, <2>2 DEF AsksRead, AsksSend
<1>3. CASE WantsRead(s) /\ IsActive(ao)
  <2>1. RxPumped(s, ao) = s /\ RxPumpedOrFailed(s, ao) = Failed(s) /\ ~s.rxPending
    BY <1>3 DEF RxPumped, RxPumpedOrFailed, Recvs, RecvRefused, WantsRead
  <2>2. Failed(s).state = "Failed"
    BY DEF StreamType, Failed
  <2> QED BY <1>3, <2>1, <2>2 DEF AsksRead, AsksSend
<1> QED BY <1>1, <1>2, <1>3

LEMMA SendPumpAsks ==
    ASSUME NEW s \in StreamType, NEW ao
    PROVE  /\ (s.txPending = 0 => ~IsActive(ao)) => AsksSend(TxPumped(s, ao))
           /\ AsksSend(TxPumpedOrFailed(s, ao))
           /\ AsksRead(s) => AsksRead(TxPumped(s, ao)) /\ AsksRead(TxPumpedOrFailed(s, ao))
<1>0. s.txPending \in Nat /\ s.tx \in Seq(Nat)
  BY CapsAssumption DEF StreamType
<1>1. CASE ~WantsSend(s)
  <2>1. TxPumped(s, ao) = s /\ TxPumpedOrFailed(s, ao) = s
    BY <1>1 DEF TxPumped, TxPumpedOrFailed, Sends, SendRefused
  <2>2. AsksSend(s)
    BY <1>0, <1>1 DEF WantsSend, AsksSend
  <2> QED BY <2>1, <2>2
<1>2. CASE WantsSend(s) /\ ~IsActive(ao)
  <2> DEFINE t == [s EXCEPT !.txPending = Len(s.tx)]
  <2>1. TxPumped(s, ao) = t /\ TxPumpedOrFailed(s, ao) = t
    BY <1>2 DEF TxPumped, TxPumpedOrFailed, Sends, SendRefused
  <2>2. /\ t.txPending = Len(s.tx) /\ t.state = s.state /\ t.rx = s.rx
        /\ t.rxPending = s.rxPending
    BY DEF StreamType
  <2>3. Len(s.tx) > 0
    BY <1>0, <1>2, EmptySeq, LenProperties DEF WantsSend
  <2> HIDE DEF t
  <2>4. t.txPending > 0 /\ Free(t) = Free(s)
    BY <2>2, <2>3 DEF Free
  <2> QED BY <2>1, <2>2, <2>4 DEF AsksRead, AsksSend
<1>3. CASE WantsSend(s) /\ IsActive(ao)
  <2>1. TxPumped(s, ao) = s /\ TxPumpedOrFailed(s, ao) = Failed(s) /\ s.txPending = 0
    BY <1>3 DEF TxPumped, TxPumpedOrFailed, Sends, SendRefused, WantsSend
  <2>2. Failed(s).state = "Failed"
    BY DEF StreamType, Failed
  <2> QED BY <1>3, <2>1, <2>2 DEF AsksRead, AsksSend
<1> QED BY <1>1, <1>2, <1>3

\* A stream that is not connected asks for nothing; asking is of four of its fields.
LEMMA AsksSame ==
    ASSUME NEW s, NEW t
    PROVE  /\ t.state # "Connected" => AsksRead(t) /\ AsksSend(t)
           /\ t.state = s.state /\ t.rx = s.rx /\ t.rxPending = s.rxPending /\ AsksRead(s)
                 => AsksRead(t)
           /\ t.state = s.state /\ t.tx = s.tx /\ t.txPending = s.txPending /\ AsksSend(s)
                 => AsksSend(t)
<1>1. t.rx = s.rx => Free(t) = Free(s)
  BY DEF Free
<1> QED BY <1>1 DEF AsksRead, AsksSend

LEMMA HandledAsks ==
    ASSUME NEW s \in StreamType, NEW b, NEW e \in Event, AsksRead(s), AsksSend(s),
           Len(s.rx) <= RxCap, Len(s.tx) <= TxCap,
           e.kind = "connected" => s.tx = <<>>
    PROVE  AsksRead(Handled(s, e, b)) /\ AsksSend(Handled(s, e, b))
<1>1. e.kind \in Kinds /\ e.n \in Nat
  BY CapsAssumption DEF Event
<1>2. CASE e.status # "ok"
  <2>1. Broken(s, e).state # "Connected"
    BY <1>1 DEF Broken, Failed, StreamType, Kinds
  <2>2. Handled(s, e, b) = Broken(s, e)
    BY <1>2 DEF Handled
  <2> QED BY <2>1, <2>2, AsksSame
<1>3. CASE e.status = "ok" /\ e.kind = "sent"
  <2> DEFINE t == [s EXCEPT !.tx = SubSeq(s.tx, s.txPending + 1, Len(s.tx)), !.txPending = 0]
  <2>1. Handled(s, e, b) = TxPumpedOrFailed(t, b.send)
    BY <1>3 DEF Handled, Taken
  <2>2. t \in StreamType /\ t.state = s.state /\ t.rx = s.rx /\ t.rxPending = s.rxPending
    BY Acknowledges, Zenon
  <2> HIDE DEF t
  <2> QED BY <2>1, <2>2, AsksSame, SendPumpAsks
<1>4. CASE e.status = "ok" /\ e.kind = "recv"
  <2> DEFINE t == Landed(s, e.n)
  <2>1. Handled(s, e, b) = RxPumpedOrFailed(t, b.recv)
    BY <1>4 DEF Handled, Taken
  <2>2. t \in StreamType /\ t.state = s.state /\ t.tx = s.tx /\ t.txPending = s.txPending
    BY <1>1, LandedFits
  <2> HIDE DEF t
  <2> QED BY <2>1, <2>2, AsksSame, ReadPumpAsks
<1>5. CASE e.status = "ok" /\ e.kind = "connected"
  <2> DEFINE t == [s EXCEPT !.state = "Connected"]
  <2>1. Handled(s, e, b) = RxPumpedOrFailed(t, b.recv)
    BY <1>5 DEF Handled, Taken
  <2>2. t \in StreamType /\ t.tx = <<>>
    BY <1>5 DEF StreamType, States
  <2>3. AsksSend(t)
    BY <2>2 DEF AsksSend
  <2> HIDE DEF t
  <2> QED BY <2>1, <2>2, <2>3, ReadPumpAsks
<1> QED BY <1>1, <1>2, <1>3, <1>4, <1>5 DEF Kinds

\* A stream that was misled stays so.
LEMMA MisledStays == [Next]_vars => misled \subseteq misled'
BY Zenon DEF Next, vars, Gui, App, Network, app, RunL, CtlRunL, ReaderRunL, WriterRunL, Pushes, StepBegins,
       StepEnds, Poll, Open, Connect, Close, Write, Read, ConnectEnds, ReadEnds, ReadStops, SendEnds

\* No step leaves a sound stream not asking for what it may.
LEMMA AskingStays == IInv /\ Asking /\ [Next]_vars => Asking'
<1> SUFFICES ASSUME IInv, Asking, [Next]_vars PROVE Asking'
  OBVIOUS
<1>1. stream \in [Streams -> StreamType]
  BY TypesKnown DEF IInv
<1>15. misled \subseteq misled'
  BY MisledStays
<1>2. ASSUME NEW c \in Streams, NEW t \in StreamType, stream' = [stream EXCEPT ![c] = t],
             t.handle # NoHandle => AsksRead(t) /\ AsksSend(t)
      PROVE  Asking'
  <2>1. stream'[c] = t /\ \A d \in Streams \ {c} : stream'[d] = stream[d]
    BY <1>1, <1>2
  <2> QED BY <1>15, <1>2, <2>1 DEF Asking, Sound, IsOpen
<1>25. ASSUME NEW c \in misled, Apart(c) PROVE Asking'
  BY <1>15, <1>25 DEF Apart, Alone, Asking, Sound, IsOpen
<1>3. ASSUME NEW c \in Streams, IsOpen(c), c \notin misled
      PROVE  LET b == sock[stream[c].handle]
             IN  /\ ~stream[c].rxPending => ~IsActive(b.recv)
                 /\ stream[c].txPending = 0 => ~IsActive(b.send)
                 /\ AsksRead(stream[c]) /\ AsksSend(stream[c])
                 /\ stream[c] \in StreamType
                 /\ Len(stream[c].rx) <= RxCap /\ Len(stream[c].tx) <= TxCap
  <2> DEFINE b == sock[stream[c].handle]
             R == InRing(ring, c, "recv")
             S == InRing(ring, c, "sent")
  <2>1. /\ Rx(stream[c], b.recv, R, <<c, "recv">> \in lost, taken[c], read[c])
        /\ Tx(stream[c], b.send, S, <<c, "sent">> \in lost, wrote[c], got[c])
    BY <1>3, KnownOpen DEF Whole
  <2> HIDE DEF b, R, S
  <2>2. ~stream[c].rxPending => ~IsActive(b.recv)
    BY <2>1, Zenon DEF Rx
  <2>3. ~(stream[c].txPending > 0) => ~IsActive(b.send)
    BY <2>1, Zenon DEF Tx
  <2>4. stream[c].txPending = 0 => ~IsActive(b.send)
    BY <2>3
  <2> QED BY <1>1, <1>3, <2>2, <2>4, Known DEF Asking, Sound, b
<1>4. CASE stream' = stream
  BY <1>15, <1>4 DEF Asking, Sound, IsOpen
<1>5. ASSUME NEW c \in Streams, Connect(c) PROVE Asking'
  <2> DEFINE t == [stream[c] EXCEPT !.state = "Connecting"]
  <2>1. t \in StreamType /\ t.state # "Connected" /\ stream' = [stream EXCEPT ![c] = t]
    BY <1>1, <1>5, Fields DEF Connect, States
  <2> HIDE DEF t
  <2> QED BY <1>2, <2>1, AsksSame
<1>6. ASSUME NEW c \in Streams, Close(c) PROVE Asking'
  BY <1>15, <1>6 DEF Close, Asking, Sound, IsOpen, NewStream
<1>7. ASSUME NEW h \in Slots, Open(h) PROVE Asking'
  <2> DEFINE c == opened + 1
  <2>1. c \in Streams /\ c > opened
    BY <1>7, RingKnown, BoundsAssumption DEF Open, Streams
  <2>2. stream[c].state = "Opening"
    BY <2>1 DEF IInv, Fresh
  <2> DEFINE t == [stream[c] EXCEPT !.handle = h]
  <2>3. t \in StreamType /\ t.state = "Opening"
    BY <1>1, <2>1, <2>2 DEF StreamType
  <2>4. stream' = [stream EXCEPT ![c] = t]
    BY <1>1, <1>7, <2>1 DEF Open
  <2> HIDE DEF t, c
  <2> QED BY <1>2, <2>1, <2>3, <2>4, AsksSame
<1>8. ASSUME NEW c \in Streams, NEW k \in 1..TxCap, Write(c, k), c \notin misled
      PROVE  Asking'
  <2> DEFINE s == stream[c]
             room == TxCap - Len(s.tx)
             n == IF room < k THEN room ELSE k
             f == Filled(s, wrote[c], n)
             t == TxPumped(f, sock[s.handle].send)
  <2>1. IsOpen(c) /\ stream' = [stream EXCEPT ![c] = t]
    BY <1>8 DEF Write, IsOpen, Filled
  <2>2. /\ s \in StreamType /\ AsksRead(s)
        /\ s.txPending = 0 => ~IsActive(sock[s.handle].send)
    BY <1>3, <1>8, <2>1 DEF Asking, Sound
  <2>3. n \in Nat /\ Len(s.tx) + n <= TxCap
    <3>1. PICK a \in Nat : a = Len(s.tx) /\ a <= TxCap
      BY <1>3, <1>8, <2>1, LenProperties DEF StreamType
    <3>2. PICK g \in Nat : g = TxCap - a
      <4>1. TxCap - a \in Nat
        BY <3>1, CapsAssumption
      <4> QED BY <4>1
    <3>3. n = (IF g < k THEN g ELSE k) /\ k \in Nat
      BY <3>1, <3>2, CapsAssumption
    <3> HIDE DEF n
    <3>4. n \in Nat /\ n <= g
      BY <3>2, <3>3
    <3> QED BY <3>1, <3>2, <3>4, CapsAssumption
  <2> HIDE DEF n
  <2>4. /\ f \in StreamType /\ f.rx = s.rx /\ f.rxPending = s.rxPending /\ f.state = s.state
        /\ f.txPending = s.txPending
    <3>1. /\ Tx(s, sock[s.handle].send, InRing(ring, c, "sent"), <<c, "sent">> \in lost,
                wrote[c], got[c])
          /\ OutInOrder(wrote[c], got[c]) /\ wrote[c] \in Nat /\ got[c] \in Seq(Nat)
      BY <1>8, <2>1, KnownOpen, Known DEF Whole
    <3>2. f.txPending = s.txPending
      BY <2>2 DEF Filled, StreamType
    <3> HIDE DEF s, f
    <3> QED BY <2>2, <2>3, <3>1, <3>2, TxFilled DEF f
  <2> HIDE DEF f
  <2>5. AsksRead(f) /\ AsksRead(t) /\ AsksSend(t)
    <3>1. AsksRead(f)
      BY <2>2, <2>4, AsksSame
    <3>2. f.txPending = 0 => ~IsActive(sock[s.handle].send)
      BY <2>2, <2>4
    <3> QED BY <2>4, <3>1, <3>2, SendPumpAsks
  <2>6. \A d \in Streams : stream'[d] = IF d = c THEN t ELSE stream[d]
    BY <1>1, <2>1
  <2> HIDE DEF t
  <2> QED BY <1>15, <2>1, <2>5, <2>6 DEF Asking, Sound, IsOpen
<1>9. ASSUME NEW c \in Streams, NEW k \in 1..RxCap, Read(c, k), c \notin misled
      PROVE  Asking'
  <2> DEFINE s == stream[c]
             n == IF Len(s.rx) < k THEN Len(s.rx) ELSE k
             f == Drained(s, n)
             t == RxPumped(f, sock[s.handle].recv)
  <2>1. IF IsOpen(c) THEN stream' = [stream EXCEPT ![c] = t] ELSE stream' = [stream EXCEPT ![c] = f]
    BY <1>9 DEF Read, IsOpen, Drained
  <2>2. f.handle = s.handle
    BY <1>1 DEF Drained, StreamType
  <2>3. CASE ~IsOpen(c)
    <3>1. \A d \in Streams : d # c => stream'[d] = stream[d]
      BY <1>1, <2>1, <2>3
    <3>2. stream'[c].handle = stream[c].handle
      BY <1>1, <2>1, <2>2, <2>3
    <3> QED BY <1>15, <2>3, <3>1, <3>2 DEF Asking, Sound, IsOpen
  <2>4. CASE IsOpen(c)
    <3>1. /\ s \in StreamType /\ AsksSend(s)
          /\ ~s.rxPending => ~IsActive(sock[s.handle].recv)
          /\ Len(s.rx) <= RxCap
      BY <1>3, <1>9, <2>4
    <3>2. n \in 0..Len(s.rx)
      <4>1. PICK a \in Nat : a = Len(s.rx)
        BY <3>1, LenProperties DEF StreamType
      <4>2. n = (IF a < k THEN a ELSE k) /\ k \in Nat
        BY <4>1, CapsAssumption
      <4> HIDE DEF n
      <4> QED BY <4>1, <4>2
    <3> HIDE DEF n
    <3>3. /\ f \in StreamType /\ f.state = s.state /\ f.tx = s.tx /\ f.txPending = s.txPending
          /\ f.rxPending = s.rxPending
      <4>1. f \in StreamType /\ f.state = s.state /\ f.tx = s.tx /\ f.txPending = s.txPending
        <5>1. InOrder(s, taken[c], read[c]) /\ taken[c] \in Nat /\ read[c] \in Seq(Nat)
          BY <1>9, Known
        <5> HIDE DEF s, f
        <5> QED BY <3>1, <3>2, <5>1, RxDrained DEF f
      <4>2. f.rxPending = s.rxPending
        BY <3>1 DEF Drained, StreamType
      <4> QED BY <4>1, <4>2
    <3> HIDE DEF f
    <3>4. AsksSend(t) /\ AsksRead(t)
      <4>1. AsksSend(f)
        BY <3>1, <3>3, AsksSame
      <4>2. ~f.rxPending => ~IsActive(sock[s.handle].recv)
        BY <3>1, <3>3
      <4> QED BY <3>3, <4>1, <4>2, ReadPumpAsks
    <3>5. \A d \in Streams : stream'[d] = IF d = c THEN t ELSE stream[d]
      BY <1>1, <2>1, <2>4
    <3> HIDE DEF t
    <3> QED BY <1>15, <2>4, <3>4, <3>5 DEF Asking, Sound, IsOpen
  <2> QED BY <2>3, <2>4
<1>10. CASE Poll
  <2> DEFINE e == Head(ring)
  <2>1. /\ ring # <<>>
        /\ \A c \in Streams : stream'[c] = IF stream[c].handle = e.handle
                                         THEN Handled(stream[c], e, sock[stream[c].handle])
                                         ELSE stream[c]
    BY <1>10 DEF Poll, Takes
  <2>2. e \in Event /\ e \in InRing(ring, e.of, e.kind)
    BY <2>1, NextEvent
  <2>3. \A c \in Streams : stream[c].handle = e.handle =>
            IsOpen(c) /\ (c \notin misled' => e.of = c /\ c \notin misled)
    <3>1. \A c \in Streams : stream[c].handle = e.handle =>
              IsOpen(c) /\ misled' = IF e.of = c THEN misled ELSE misled \cup {c}
      BY <1>10, PollIs
    <3> HIDE DEF e
    <3> QED BY <3>1
  <2> HIDE DEF e
  <2>4. ASSUME NEW c \in Streams, stream[c].handle = e.handle, c \notin misled'
        PROVE  AsksRead(stream'[c]) /\ AsksSend(stream'[c])
    <3>1. IsOpen(c) /\ c \notin misled /\ e.of = c
      BY <2>3, <2>4
    <3>2. stream'[c] = Handled(stream[c], e, sock[stream[c].handle])
      BY <2>1, <2>4
    <3>3. ASSUME e.kind = "connected" PROVE stream[c].tx = <<>>
      <4> DEFINE h == stream[c].handle
                 C == InRing(ring, c, "connected")
                 S == InRing(ring, c, "sent")
      <4>1. /\ Ctl(stream[c], sock[h].ctl, C)
            /\ Tx(stream[c], sock[h].send, S, <<c, "sent">> \in lost, wrote[c], got[c])
            /\ stream[c].state \in {"Opening", "Connecting"} => wrote[c] = 0
        BY <3>1, KnownOpen, Zenon DEF Whole
      <4>2. C # {}
        BY <2>2, <3>1, <3>3
      <4> HIDE DEF C, S, h
      <4>3. wrote[c] = 0 /\ Len(stream[c].tx) <= wrote[c]
        BY <4>1, <4>2 DEF Ctl, Tx
      <4>4. stream[c].tx \in Seq(Nat) /\ Len(stream[c].tx) \in Nat
        BY <1>1, LenProperties DEF StreamType
      <4>5. Len(stream[c].tx) = 0
        BY <4>3, <4>4
      <4> QED BY <4>4, <4>5, EmptySeq
    <3>4. /\ AsksRead(stream[c]) /\ AsksSend(stream[c]) /\ stream[c] \in StreamType
          /\ Len(stream[c].rx) <= RxCap /\ Len(stream[c].tx) <= TxCap
      BY <1>3, <3>1
    <3> QED BY <2>2, <3>2, <3>3, <3>4, HandledAsks
  <2>5. ASSUME NEW c \in Streams, stream[c].handle # e.handle PROVE stream'[c] = stream[c]
    BY <2>1, <2>5
  <2>6. ASSUME NEW c \in Streams, stream'[c].handle # NoHandle, c \notin misled'
        PROVE  AsksRead(stream'[c]) /\ AsksSend(stream'[c])
    <3>1. CASE stream[c].handle = e.handle
      BY <2>4, <2>6, <3>1
    <3>2. CASE stream[c].handle # e.handle
      BY <1>15, <2>5, <2>6, <3>2 DEF Asking, Sound, IsOpen
    <3> QED BY <3>1, <3>2
  <2> QED BY <2>6 DEF Asking, Sound, IsOpen
<1>11. ASSUME NEW h \in Slots, NEW k \in 1..RxCap, ReadEnds(h, k) PROVE Asking'
  <2> DEFINE c == sock[h].owner
  <2>1. c \in Streams
    BY <1>11, SocketApart
  <2>2. stream' = [stream EXCEPT ![c].land =
                      [i \in 1..RxCap |-> IF i <= k THEN taken[c] + i ELSE @[i]]]
    BY <1>11 DEF ReadEnds
  <2> HIDE DEF c
  <2>3. \A d \in Streams : /\ stream'[d].state = stream[d].state
                           /\ stream'[d].handle = stream[d].handle
                           /\ stream'[d].rx = stream[d].rx
                           /\ stream'[d].rxPending = stream[d].rxPending
                           /\ stream'[d].tx = stream[d].tx
                           /\ stream'[d].txPending = stream[d].txPending
    BY <1>1, <2>1, <2>2 DEF StreamType
  <2> QED BY <1>15, <2>3, AsksSame DEF Asking, Sound, IsOpen
<1>12. CASE Gui
  <2>1. ASSUME NEW h \in Slots, RunL(h) PROVE stream' = stream
    BY <2>1 DEF RunL, CtlRunL, ReaderRunL, WriterRunL, Pushes
  <2>2. StepBegins \/ StepEnds => stream' = stream
    BY DEF StepBegins, StepEnds
  <2> QED BY <1>4, <1>10, <1>12, <2>1, <2>2 DEF Gui
<1>13. CASE App
  <2>1. ASSUME NEW c \in misled,
               (\E k \in 1..TxCap : Write(c, k)) \/ (\E k \in 1..RxCap : Read(c, k))
        PROVE  Asking'
    <3>1. c \in Streams
      BY RingKnown
    <3>2. Apart(c)
      BY <2>1, <3>1, AppApart
    <3> QED BY <1>25, <3>2
  <2> QED BY <1>5, <1>6, <1>7, <1>8, <1>9, <1>13, <2>1 DEF App
<1>14. CASE Network
  <2>1. ASSUME NEW h \in Slots, NEW status, ConnectEnds(h, status) \/ ReadStops(h, status)
        PROVE  stream' = stream
    BY <2>1 DEF ConnectEnds, ReadStops
  <2>2. ASSUME NEW h \in Slots, NEW status, NEW k \in 0..TxCap, SendEnds(h, status, k)
        PROVE  stream' = stream
    BY <2>2 DEF SendEnds
  <2> QED BY <1>4, <1>11, <1>14, <2>1, <2>2 DEF Network
<1> QED BY <1>4, <1>12, <1>13, <1>14 DEF Next, vars

LEMMA InitAsks == Init => Asking
BY DEF Init, Asking, Sound, IsOpen, NewStream

\* A stream that was not misled (that took no completion of another one) asks whenever it
\* may, and what it believes to be outstanding is what is: no completion of its own is
\* consumed for another stream's, and none is waited for that cannot come, unless the ring
\* dropped it.
THEOREM RequestsAreTracked == Spec => []RequestsTracked
<1>1. IInv /\ Asking => RequestsTracked
  <2> SUFFICES ASSUME IInv, Asking, NEW c \in Streams, Sound(c)
               PROVE  LET s == stream[c]
                          b == sock[s.handle]
                      IN  /\ s.rxPending <=> \/ IsActive(b.recv) \/ Queued(c, "recv")
                                             \/ <<c, "recv">> \in lost
                          /\ s.txPending > 0 <=> \/ IsActive(b.send) \/ Queued(c, "sent")
                                                 \/ <<c, "sent">> \in lost
                          /\ Asks(s)
    BY Zenon DEF RequestsTracked
  <2> DEFINE s == stream[c]
             b == sock[s.handle]
             R == InRing(ring, c, "recv")
             S == InRing(ring, c, "sent")
  <2>1. /\ Rx(s, b.recv, R, <<c, "recv">> \in lost, taken[c], read[c])
        /\ Tx(s, b.send, S, <<c, "sent">> \in lost, wrote[c], got[c])
    BY KnownOpen DEF Sound, Whole
  <2>2. (Queued(c, "recv") <=> R # {}) /\ (Queued(c, "sent") <=> S # {})
    BY RingIsQueued
  <2>3. Asks(s)
    BY DEF Sound, Asking, AsksRead, AsksSend, Asks
  <2> HIDE DEF s, b, R, S
  <2>4. s.rxPending <=> IsActive(b.recv) \/ R # {} \/ <<c, "recv">> \in lost
    BY <2>1, Zenon DEF Rx
  <2>5. s.txPending > 0 <=> IsActive(b.send) \/ S # {} \/ <<c, "sent">> \in lost
    BY <2>1, Zenon DEF Tx
  <2> QED BY <2>2, <2>3, <2>4, <2>5, Zenon DEF s, b
<1>2. Spec => []Asking
  BY InitAsks, AskingStays, InvariantHolds, PTL DEF Spec
<1> QED BY <1>1, <1>2, InvariantHolds, PTL

\* No byte of a stream that was not misled is mislaid: what the socket server handed over is
\* read, in rx, or in the one completion on its way; what was accepted is at the peer or in tx
\* while it is connected.
THEOREM NothingIsMislaid == Spec => []NothingMislaid
<1>1. IInv => NothingMislaid
  <2> SUFFICES ASSUME IInv, NEW c \in Streams, Sound(c)
               PROVE  LET s == stream[c]
                          unread == taken[c] - Len(read[c]) - Len(s.rx)
                          acknowledged == wrote[c] - Len(s.tx)
                      IN  /\ <<c, "recv">> \notin lost =>
                                 IF Arriving(c) = {} THEN unread = 0 ELSE Arriving(c) = {unread}
                          /\ s.state = "Connected" =>
                                 Len(got[c]) \in acknowledged .. (acknowledged + s.txPending)
    BY Zenon DEF NothingMislaid
  <2> DEFINE s == stream[c]
             b == sock[s.handle]
             R == InRing(ring, c, "recv")
             S == InRing(ring, c, "sent")
             u == Unread(s, taken[c], read[c])
  <2>1. /\ Rx(s, b.recv, R, <<c, "recv">> \in lost, taken[c], read[c])
        /\ Tx(s, b.send, S, <<c, "sent">> \in lost, wrote[c], got[c])
    BY KnownOpen DEF Sound, Whole
  <2>2. Arriving(c) = {ao.n : ao \in {x \in {b.recv} : x.st = "done"}} \cup {a.n : a \in R}
    BY RingIsQueued DEF Arriving
  <2> HIDE DEF s, b, R, S
  <2>3. ASSUME <<c, "recv">> \notin lost
        PROVE  IF Arriving(c) = {} THEN u = 0 ELSE Arriving(c) = {u}
    <3>1. CASE b.recv.st = "done"
      <4>1. R = {} /\ b.recv.n = u
        <5>1. IsActive(b.recv)
          BY <3>1 DEF IsActive
        <5> QED BY <2>1, <3>1, <5>1, Zenon DEF Rx, Came
      <4> HIDE DEF u
      <4>2. Arriving(c) = {u}
        BY <2>2, <3>1, <4>1
      <4> QED BY <4>2
    <3>2. CASE b.recv.st # "done" /\ R # {}
      <4>1. \A a \in R : a.n = u
        BY <2>1, Zenon DEF Rx, Came
      <4> HIDE DEF u
      <4>2. Arriving(c) = {u}
        BY <2>2, <3>2, <4>1
      <4> QED BY <4>2
    <3>3. CASE b.recv.st # "done" /\ R = {}
      <4>1. u = 0
        BY <2>1, <2>3, <3>3, Zenon DEF Rx
      <4> HIDE DEF u
      <4>2. Arriving(c) = {}
        BY <2>2, <3>3
      <4> QED BY <4>1, <4>2
    <3> QED BY <3>1, <3>2, <3>3
  <2>4. s.state = "Connected" =>
            Len(got[c]) \in Acknowledged(s, wrote[c]) .. (Acknowledged(s, wrote[c]) + s.txPending)
    BY <2>1, Zenon DEF Tx
  <2> QED BY <2>3, <2>4 DEF s, Unread, Acknowledged
<1> QED BY <1>1, InvariantHolds, PTL

\* A byte that was never received is only ever offered to the application by a stream that
\* took a completion of another (TcpStream::on_event, which checks the slot alone): the bytes
\* of rx are numbered on from those it has read.
THEOREM NoJunkIsOffered == Spec => []JunkIsMisled
<1>1. IInv => JunkIsMisled
  <2> SUFFICES ASSUME IInv, NEW c \in Streams \ misled, NEW i \in DOMAIN stream[c].rx
               PROVE  stream[c].rx[i] # 0
    BY DEF JunkIsMisled
  <2>1. stream[c].rx \in Seq(Nat) /\ read[c] \in Seq(Nat) /\ InOrder(stream[c], taken[c], read[c])
    BY Known DEF StreamType
  <2>2. i \in 1..Len(stream[c].rx) /\ Len(read[c]) \in Nat
    BY <2>1, LenProperties
  <2>3. stream[c].rx[i] = Len(read[c]) + i
    BY <2>1, <2>2 DEF InOrder
  <2>4. i \in Nat /\ i > 0
    BY <2>1, <2>2, LenProperties
  <2> QED BY <2>2, <2>3, <2>4
<1> QED BY <1>1, InvariantHolds, PTL

-----------------------------------------------------------------------------
\* The refinement of ByteStream

Phases == [c \in Streams |-> Phase(c)]

\* What is appended to a sequence that goes on as its stream does.
LEMMA Appended ==
    ASSUME NEW q \in Seq(Nat), NEW r \in Seq(Nat), NEW n \in Nat, Len(r) = Len(q) + n,
           \A i \in 1..Len(r) : r[i] = IF i <= Len(q) THEN q[i] ELSE i
    PROVE  r = q \o Promise!Following(Len(q), n)
<1> DEFINE w == Promise!Following(Len(q), n)
<1>1. Len(q) \in Nat
  BY LenProperties
<1>2. w \in Seq(Nat) /\ Len(w) = n /\ \A i \in 1..n : w[i] = Len(q) + i
  <2>1. w = [i \in 1..n |-> Len(q) + i]
    BY DEF Promise!Following
  <2>2. w \in [1..n -> Nat] /\ \A i \in 1..n : w[i] = Len(q) + i
    BY <1>1, <2>1
  <2>3. w \in Seq(Nat)
    BY <2>2, SeqDef
  <2> QED BY <2>2, <2>3, LenProperties
<1> HIDE DEF w
<1>3. /\ q \o w \in Seq(Nat) /\ Len(q \o w) = Len(q) + Len(w)
      /\ \A i \in 1..(Len(q) + Len(w)) :
            (q \o w)[i] = IF i <= Len(q) THEN q[i] ELSE w[i - Len(q)]
  BY <1>2, ConcatProperties, Zenon
<1>4. ASSUME NEW i \in 1..Len(r) PROVE r[i] = (q \o w)[i]
  <2>1. i \in Nat /\ i \in 1..(Len(q) + n) /\ i \in 1..(Len(q) + Len(w))
    BY <1>1, <1>2
  <2>2. CASE i <= Len(q)
    <3>1. r[i] = q[i] /\ (q \o w)[i] = q[i]
      BY <1>3, <2>1, <2>2
    <3> QED BY <3>1
  <2>3. CASE ~(i <= Len(q))
    <3>1. r[i] = i /\ (q \o w)[i] = w[i - Len(q)]
      BY <1>3, <2>1, <2>3
    <3>2. i - Len(q) \in 1..n
      BY <1>1, <2>1, <2>3
    <3>3. w[i - Len(q)] = Len(q) + (i - Len(q))
      BY <1>2, <3>2
    <3> QED BY <1>1, <2>1, <3>1, <3>3
  <2> QED BY <2>2, <2>3
<1>5. r = q \o w
  BY <1>2, <1>3, <1>4, SeqEqual
<1> QED BY <1>5 DEF w

\* The phases a step shows.
LEMMA PhasesStay ==
    ASSUME opened' = opened, misled' = misled,
           \A c \in Streams \ misled : stream'[c].state \in Over <=> stream[c].state \in Over
    PROVE  Phases' = Phases
<1>1. \A c \in Streams : Phase(c)' = Phase(c)
  BY DEF Phase
<1> QED BY <1>1, Zenon DEF Phases

LEMMA PhaseEnds ==
    ASSUME NEW c \in Streams, c \notin misled, misled' = misled, c <= opened, opened \in Nat,
           opened' = opened, stream'[c].state \in Over,
           \A d \in Streams \ {c} : stream'[d] = stream[d]
    PROVE  Phases[c] # "void" /\ Phases' = [Phases EXCEPT ![c] = "ended"]
<1>1. Phase(c)' = "ended" /\ Phase(c) # "void"
  BY DEF Phase, Streams
<1>2. \A d \in Streams \ {c} : Phase(d)' = Phase(d)
  BY DEF Phase
<1> QED BY <1>1, <1>2 DEF Phases

\* A stream that was opened turns void when it is misled.
LEMMA PhaseVoid ==
    ASSUME NEW c \in Streams, c \notin misled, misled' = misled \cup {c}, c <= opened,
           opened \in Nat, opened' = opened, \A d \in Streams \ {c} : stream'[d] = stream[d]
    PROVE  Phases[c] # "new" /\ Phases' = [Phases EXCEPT ![c] = "void"]
<1>1. Phase(c)' = "void" /\ Phase(c) # "new"
  BY DEF Phase, Streams
<1>2. \A d \in Streams \ {c} : Phase(d)' = Phase(d)
  BY DEF Phase
<1> QED BY <1>1, <1>2 DEF Phases

LEMMA PhaseOpens ==
    ASSUME opened \in Nat, opened + 1 \in Streams, opened' = opened + 1,
           opened + 1 \notin misled, misled' = misled, stream[opened + 1].state = "Opening",
           \A d \in Streams : stream'[d].state = stream[d].state
    PROVE  /\ Phases[opened + 1] = "new"
           /\ Phases' = [Phases EXCEPT ![opened + 1] = "open"]
<1>1. PICK c \in Streams : c = opened + 1
  OBVIOUS
<1>2. Phase(c) = "new" /\ Phase(c)' = "open"
  BY <1>1 DEF Phase, Over
<1>3. \A d \in Streams \ {c} : Phase(d)' = Phase(d)
  <2> SUFFICES ASSUME NEW d \in Streams \ {c} PROVE Phase(d)' = Phase(d)
    OBVIOUS
  <2>1. d \in Int /\ (d > opened' <=> d > opened)
    BY <1>1 DEF Streams
  <2> QED BY <2>1 DEF Phase
<1> QED BY <1>1, <1>2, <1>3 DEF Phases

\* A step that shows nothing, and one that shows the end of a stream.
LEMMA Stutters ==
    ASSUME Phases' = Phases, taken' = taken, read' = read, wrote' = wrote, got' = got
    PROVE  UNCHANGED Promise!bvars
BY DEF Promise!bvars, Phases

LEMMA EndShows ==
    ASSUME NEW c \in Streams, Phases[c] # "void", Phases' = [Phases EXCEPT ![c] = "ended"],
           taken' = taken, read' = read, wrote' = wrote, got' = got
    PROVE  Promise!BNext
<1>1. Promise!Ends(c)
  BY DEF Promise!Ends, Phases
<1> QED BY <1>1 DEF Promise!BNext

\* Whatever a step of a misled stream does, it does to that stream alone.
LEMMA MisledStrays ==
    ASSUME NEW c \in Streams, c \in misled, Apart(c), misled' = misled, opened' = opened
    PROVE  Promise!BNext
<1>1. \A d \in Streams \ {c} : /\ stream'[d] = stream[d] /\ taken'[d] = taken[d]
                               /\ read'[d] = read[d] /\ wrote'[d] = wrote[d]
                               /\ got'[d] = got[d]
  BY DEF Apart, Alone
<1>2. Phases' = Phases
  BY <1>1, PhasesStay
<1>3. Phases[c] = "void"
  BY DEF Phases, Phase
<1>4. Promise!Strays(c)
  BY <1>1, <1>2, <1>3 DEF Promise!Strays, Phases
<1> QED BY <1>4 DEF Promise!BNext

LEMMA InitRefines == Init => Promise!BInit
<1> SUFFICES ASSUME Init PROVE Promise!BInit
  OBVIOUS
<1>1. \A c \in Streams : Phase(c) = "new"
  BY DEF Init, Phase, Streams
<1> QED BY <1>1 DEF Promise!BInit, Init

LEMMA OpenRefines ==
    ASSUME IInv, NEW h \in Slots, Open(h)
    PROVE  Promise!BNext
<1>1. /\ opened \in Nat /\ opened' = opened + 1 /\ taken' = taken /\ read' = read
      /\ wrote' = wrote /\ got' = got
  BY RingKnown DEF Open
<1>2. /\ opened + 1 \in Streams /\ stream[opened + 1].state = "Opening"
      /\ opened + 1 \notin misled /\ misled' = misled
      /\ \A d \in Streams : stream'[d].state = stream[d].state
  BY OpenKeeps
<1>3. Phases[opened + 1] = "new" /\ Phases' = [Phases EXCEPT ![opened + 1] = "open"]
  BY <1>1, <1>2, PhaseOpens
<1>4. PICK c \in Streams : c = opened + 1
  BY <1>2
<1>5. Promise!Opens(c)
  BY <1>1, <1>3, <1>4 DEF Promise!Opens, Phases
<1> QED BY <1>5 DEF Promise!BNext

LEMMA WriteRefines ==
    ASSUME IInv, NEW c \in Streams, c \notin misled, NEW k \in 1..TxCap, Write(c, k)
    PROVE  Promise!BNext
<1>1. /\ stream[c].state = "Connected" /\ opened' = opened /\ taken' = taken /\ read' = read
      /\ got' = got /\ misled' = misled
      /\ \A d \in Streams \ {c} : stream'[d] = stream[d]
  <2>1. stream = [stream EXCEPT ![c] = stream[c]]
    BY Known
  <2> QED BY <2>1, TypesKnown DEF Write, IInv
<1>2. stream'[c].state = "Connected" /\ IsOpen(c)
  BY WriteKeeps
<1>3. PICK n \in Nat : wrote' = [wrote EXCEPT ![c] = @ + n]
  BY WriteKeeps
<1>4. Phases' = Phases
  BY <1>1, <1>2, PhasesStay
<1>5. Phases[c] = "open"
  <2>1. c <= opened /\ c \in Nat /\ opened \in Nat
    BY <1>2, OpenedBefore DEF IInv
  <2> QED BY <1>1, <2>1 DEF Phases, Phase, Over
<1>6. wrote[c] \in Nat /\ wrote'[c] = wrote[c] + n
  <2>1. wrote \in [Streams -> Nat]
    BY TypesKnown DEF IInv
  <2> QED BY <1>3, <2>1
<1>7. wrote' = [wrote EXCEPT ![c] = wrote'[c]]
  BY <1>3, <1>6
<1>8. wrote'[c] \in Nat /\ wrote[c] <= wrote'[c]
  BY <1>6
<1>9. Promise!Accepts(c)
  BY <1>1, <1>4, <1>5, <1>7, <1>8 DEF Promise!Accepts, Phases
<1> QED BY <1>9 DEF Promise!BNext

LEMMA ReadRefines ==
    ASSUME IInv, NEW c \in Streams, c \notin misled, NEW k \in 1..RxCap, Read(c, k)
    PROVE  Promise!BNext
<1>1. /\ opened' = opened /\ taken' = taken /\ wrote' = wrote /\ got' = got
      /\ misled' = misled /\ \A d \in Streams \ {c} : stream'[d] = stream[d]
  <2>1. stream = [stream EXCEPT ![c] = stream[c]]
    BY Known
  <2> QED BY <2>1, TypesKnown DEF Read, IInv
<1>2. stream'[c].state = stream[c].state
  BY ReadKeeps
<1>3. PICK n \in Nat : \E r \in Seq(Nat) :
         /\ Len(read[c]) + n <= taken[c] /\ read' = [read EXCEPT ![c] = r]
         /\ Len(r) = Len(read[c]) + n
         /\ \A i \in 1..Len(r) : r[i] = IF i <= Len(read[c]) THEN read[c][i] ELSE i
  BY ReadKeeps
<1>4. PICK r \in Seq(Nat) :
         /\ Len(read[c]) + n <= taken[c] /\ read' = [read EXCEPT ![c] = r]
         /\ Len(r) = Len(read[c]) + n
         /\ \A i \in 1..Len(r) : r[i] = IF i <= Len(read[c]) THEN read[c][i] ELSE i
  BY <1>3
<1>5. Phases' = Phases
  BY <1>1, <1>2, PhasesStay
<1>6. read[c] \in Seq(Nat) /\ taken[c] \in Nat /\ Len(read[c]) \in Nat
  BY Known, LenProperties
<1>7. r = read[c] \o Promise!Following(Len(read[c]), n)
  BY <1>4, <1>6, Appended
<1>8. n \in 0..(taken[c] - Len(read[c]))
  BY <1>4, <1>6
<1>9. read' = [read EXCEPT ![c] = @ \o Promise!Following(Len(@), n)]
  BY <1>4, <1>7
<1>10. Promise!Reads(c)
  BY <1>1, <1>5, <1>8, <1>9 DEF Promise!Reads, Phases
<1> QED BY <1>10 DEF Promise!BNext

LEMMA ReadEndsRefines ==
    ASSUME IInv, NEW h \in Slots, NEW k \in 1..RxCap, ReadEnds(h, k),
           sock[h].owner \notin misled
    PROVE  Promise!BNext
<1>1. PICK c \in Streams : c = sock[h].owner /\ stream'[c].state = stream[c].state
  BY ReadEndsKeeps
<1>2. /\ opened' = opened /\ read' = read /\ wrote' = wrote /\ got' = got
      /\ taken' = [taken EXCEPT ![c] = @ + k] /\ misled' = misled
      /\ \A d \in Streams \ {c} : stream'[d] = stream[d]
  <2>1. stream = [stream EXCEPT ![c] = stream[c]]
    BY Known
  <2> QED BY <1>1, <2>1, TypesKnown DEF ReadEnds, app, IInv
<1>3. Phases' = Phases
  BY <1>1, <1>2, PhasesStay
<1>4. taken[c] \in Nat /\ taken'[c] = taken[c] + k /\ k \in Nat
  <2>1. taken \in [Streams -> Nat]
    BY TypesKnown DEF IInv
  <2> QED BY <1>2, <2>1, CapsAssumption
<1>5. taken' = [taken EXCEPT ![c] = taken'[c]]
  BY <1>2, <1>4
<1>6. taken'[c] \in Nat /\ taken[c] <= taken'[c]
  BY <1>4
<1>7. Promise!PeerWrites(c)
  BY <1>2, <1>3, <1>5, <1>6 DEF Promise!PeerWrites, Phases
<1> QED BY <1>7 DEF Promise!BNext

LEMMA SendEndsRefines ==
    ASSUME IInv, NEW h \in Slots, NEW status \in {"ok", "error"}, NEW k \in 0..TxCap,
           SendEnds(h, status, k), sock[h].owner \notin misled
    PROVE  Promise!BNext
<1>1. /\ opened' = opened /\ taken' = taken /\ read' = read /\ wrote' = wrote
      /\ stream' = stream /\ misled' = misled
  BY DEF SendEnds, app
<1>2. PICK c \in Streams : \E g \in Seq(Nat) :
         /\ Len(got[c]) + k <= wrote[c] /\ got' = [got EXCEPT ![c] = g]
         /\ Len(g) = Len(got[c]) + k
         /\ \A i \in 1..Len(g) : g[i] = IF i <= Len(got[c]) THEN got[c][i] ELSE i
  BY SendEndsKeeps
<1>3. PICK g \in Seq(Nat) :
         /\ Len(got[c]) + k <= wrote[c] /\ got' = [got EXCEPT ![c] = g]
         /\ Len(g) = Len(got[c]) + k
         /\ \A i \in 1..Len(g) : g[i] = IF i <= Len(got[c]) THEN got[c][i] ELSE i
  BY <1>2
<1>4. Phases' = Phases
  BY <1>1, PhasesStay
<1>5. got[c] \in Seq(Nat) /\ wrote[c] \in Nat /\ Len(got[c]) \in Nat /\ k \in Nat
  BY Known, LenProperties, CapsAssumption
<1>6. g = got[c] \o Promise!Following(Len(got[c]), k)
  BY <1>3, <1>5, Appended
<1>7. k \in 0..(wrote[c] - Len(got[c]))
  BY <1>3, <1>5
<1>8. got' = [got EXCEPT ![c] = @ \o Promise!Following(Len(@), k)]
  BY <1>3, <1>6
<1>9. Promise!PeerReads(c)
  BY <1>1, <1>4, <1>7, <1>8 DEF Promise!PeerReads, Phases
<1> QED BY <1>9 DEF Promise!BNext

LEMMA PollRefines ==
    ASSUME IInv, Poll
    PROVE  Promise!BNext \/ UNCHANGED Promise!bvars
<1>1. opened' = opened /\ taken' = taken /\ read' = read /\ wrote' = wrote /\ got' = got
  BY DEF Poll, app
<1>2. CASE stream' = stream /\ misled' = misled
  <2>1. Phases' = Phases
    BY <1>1, <1>2, PhasesStay
  <2> QED BY <1>1, <2>1, Stutters
<1>3. ASSUME NEW c \in Streams, IsOpen(c), Apart(c),
             misled' = misled \/ misled' = misled \cup {c},
             c \notin misled' /\ stream[c].state \in Over => stream'[c].state \in Over
      PROVE  Promise!BNext \/ UNCHANGED Promise!bvars
  <2>1. \A d \in Streams \ {c} : stream'[d] = stream[d]
    BY <1>3 DEF Apart, Alone
  <2>2. c <= opened /\ opened \in Nat
    BY <1>3, OpenedBefore DEF IInv
  <2>3. CASE \/ c \in misled
             \/ c \notin misled' /\ (stream'[c].state \in Over <=> stream[c].state \in Over)
    <3>1. misled' = misled
      BY <1>3, <2>3
    <3>2. \A d \in Streams \ misled : stream'[d].state \in Over <=> stream[d].state \in Over
      BY <2>1, <2>3, <3>1
    <3>3. Phases' = Phases
      BY <1>1, <3>1, <3>2, PhasesStay
    <3> QED BY <1>1, <3>3, Stutters
  <2>4. CASE c \notin misled' /\ stream'[c].state \in Over /\ stream[c].state \notin Over
    <3>1. misled' = misled /\ c \notin misled
      BY <1>3, <2>4
    <3>2. Phases[c] # "void" /\ Phases' = [Phases EXCEPT ![c] = "ended"]
      BY <1>1, <2>1, <2>2, <2>4, <3>1, PhaseEnds
    <3> QED BY <1>1, <3>2, EndShows
  <2>5. CASE c \notin misled /\ c \in misled'
    <3>1. misled' = misled \cup {c}
      BY <1>3, <2>5
    <3>2. Phases[c] # "new" /\ Phases' = [Phases EXCEPT ![c] = "void"]
      BY <1>1, <2>1, <2>2, <2>5, <3>1, PhaseVoid
    <3>3. Promise!TurnsVoid(c)
      BY <1>1, <3>2 DEF Promise!TurnsVoid, Phases
    <3> QED BY <3>3 DEF Promise!BNext
  <2> QED BY <1>3, <2>3, <2>4, <2>5
<1> QED BY <1>2, <1>3, PollKeeps

LEMMA CloseRefines ==
    ASSUME IInv, NEW c \in Streams, c \notin misled, Close(c)
    PROVE  Promise!BNext
<1>1. /\ opened' = opened /\ taken' = taken /\ read' = read /\ wrote' = wrote /\ got' = got
      /\ misled' = misled
  BY DEF Close, app
<1>2. /\ IsOpen(c) /\ stream'[c].state \in Over
      /\ \A d \in Streams \ {c} : stream'[d] = stream[d]
  BY CloseKeeps, AppApart DEF Over, Apart, Alone
<1>3. c <= opened /\ opened \in Nat
  BY <1>2, OpenedBefore DEF IInv
<1>4. Phases[c] # "void" /\ Phases' = [Phases EXCEPT ![c] = "ended"]
  BY <1>1, <1>2, <1>3, PhaseEnds
<1> QED BY <1>1, <1>4, EndShows

LEMMA ConnectRefines ==
    ASSUME IInv, NEW c \in Streams, Connect(c)
    PROVE  UNCHANGED Promise!bvars
<1>1. /\ opened' = opened /\ taken' = taken /\ read' = read /\ wrote' = wrote /\ got' = got
      /\ misled' = misled
      /\ stream' = [stream EXCEPT ![c].state = "Connecting"] /\ stream[c].state = "Opening"
  BY DEF Connect, app
<1>2. stream \in [Streams -> StreamType]
  BY TypesKnown DEF IInv
<1>3. \A d \in Streams : stream'[d].state \in Over <=> stream[d].state \in Over
  <2>1. stream'[c].state = "Connecting"
    BY <1>1, <1>2 DEF StreamType
  <2>2. \A d \in Streams \ {c} : stream'[d] = stream[d]
    BY <1>1, <1>2
  <2> QED BY <1>1, <2>1, <2>2 DEF Over
<1>4. Phases' = Phases
  BY <1>1, <1>3, PhasesStay
<1> QED BY <1>1, <1>4, Stutters

LEMMA NextRefines == IInv /\ [Next]_vars => [Promise!BNext]_(Promise!bvars)
<1> SUFFICES ASSUME IInv, [Next]_vars
             PROVE  Promise!BNext \/ UNCHANGED Promise!bvars
  OBVIOUS
<1>1. ASSUME UNCHANGED <<stream, opened, taken, read, wrote, got, misled>>
      PROVE  UNCHANGED Promise!bvars
  <2>1. Phases' = Phases
    BY <1>1, PhasesStay
  <2> QED BY <1>1, <2>1, Stutters
<1>2. CASE UNCHANGED vars
  BY <1>1, <1>2 DEF vars, app
<1>3. CASE Gui
  <2>1. CASE Poll
    BY <2>1, PollRefines
  <2>2. CASE StepBegins \/ StepEnds
    BY <1>1, <2>2 DEF StepBegins, StepEnds, app
  <2>3. ASSUME NEW h \in Slots, RunL(h) PROVE UNCHANGED Promise!bvars
    BY <1>1, <2>3 DEF RunL, CtlRunL, ReaderRunL, WriterRunL, Pushes, app
  <2> QED BY <1>3, <2>1, <2>2, <2>3 DEF Gui
<1>4. CASE App
  <2>1. ASSUME NEW h \in Slots, Open(h) PROVE Promise!BNext
    BY <2>1, OpenRefines
  <2>2. ASSUME NEW c \in Streams, c \notin misled,
               \/ Connect(c) \/ Close(c)
               \/ \E k \in 1..TxCap : Write(c, k)
               \/ \E k \in 1..RxCap : Read(c, k)
        PROVE  Promise!BNext \/ UNCHANGED Promise!bvars
    BY <2>2, ConnectRefines, CloseRefines, WriteRefines, ReadRefines
  <2>3. ASSUME NEW c \in Streams, c \in misled,
               \/ Connect(c) \/ Close(c)
               \/ \E k \in 1..TxCap : Write(c, k)
               \/ \E k \in 1..RxCap : Read(c, k)
        PROVE  Promise!BNext
    <3>1. Apart(c) /\ misled' = misled
      BY <2>3, AppApart
    <3>2. opened' = opened
      BY <2>3, Zenon DEF Connect, Close, Write, Read, app
    <3> QED BY <2>3, <3>1, <3>2, MisledStrays
  <2> QED BY <1>4, <2>1, <2>2, <2>3 DEF App
<1>5. CASE Network
  <2>1. ASSUME NEW h \in Slots, NEW status,
               ConnectEnds(h, status) \/ ReadStops(h, status)
        PROVE  UNCHANGED Promise!bvars
    BY <1>1, <2>1 DEF ConnectEnds, ReadStops, app
  <2>2. ASSUME NEW h \in Slots, sock[h].owner \notin misled,
               \/ \E k \in 1..RxCap : ReadEnds(h, k)
               \/ \E status \in {"ok", "error"} : \E k \in 0..TxCap : SendEnds(h, status, k)
        PROVE  Promise!BNext
    BY <2>2, ReadEndsRefines, SendEndsRefines
  <2>3. ASSUME NEW h \in Slots, sock[h].owner \in misled,
               \/ \E k \in 1..RxCap : ReadEnds(h, k)
               \/ \E status \in {"ok", "error"} : \E k \in 0..TxCap : SendEnds(h, status, k)
        PROVE  Promise!BNext
    <3>1. sock[h].owner \in Streams /\ Apart(sock[h].owner) /\ misled' = misled
      BY <2>3, SocketApart
    <3>2. opened' = opened
      BY <2>3, Zenon DEF ReadEnds, SendEnds, app
    <3> QED BY <2>3, <3>1, <3>2, MisledStrays
  <2> QED BY <1>5, <2>1, <2>2, <2>3 DEF Network
<1> QED BY <1>2, <1>3, <1>4, <1>5 DEF Next

\* The streams implement ByteStream: reads give the peer's bytes, each once and in order, the
\* peer receives what was written, each byte once and in order, and an ended stream accepts
\* nothing more, whatever fails and however often slots are used again. A stream that takes a
\* completion left in the ring by the last owner of its slot (TcpStream::on_event checks the
\* slot alone) is void from there on; no other stream is touched by it.
THEOREM StreamKeepsPromise == Spec => Duplex
  BY InitRefines, NextRefines, InvariantHolds, PTL DEF Spec, Duplex, Promise!BSpec
=============================================================================
