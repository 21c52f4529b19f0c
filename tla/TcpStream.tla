----------------------------- MODULE TcpStream -----------------------------
(***************************************************************************)
(* A TCP connection: TcpStream of crates/symbian/src/net.rs over the       *)
(* socket slots of shim/src/shim_net.cpp and the event ring.               *)
(*                                                                         *)
(* A stream owns three buffers: rx, what arrived and was not read; land,   *)
(* where the platform writes while a read is out; tx, what waits to be     *)
(* sent, of which an outstanding send covers a front part. Its socket has  *)
(* three active objects, whose RunL puts an event in the ring; the event   *)
(* names the slot of the socket, and slots are used again, whatever of the *)
(* last socket is still in the ring.                                       *)
(*                                                                         *)
(* A byte is its place in its stream, 0 a byte of land never written. An   *)
(* orderly close of the peer and a read of no bytes are both "eof".        *)
(* SHIM_EV_CLOSED is left out: only Shutdown makes it, which no exported   *)
(* call reaches.                                                           *)
(* Bounds: MaxStreams streams are opened; the bytes that their peers send  *)
(* and that the application offers stay within one of the cases of Traffic.*)
(***************************************************************************)
EXTENDS Integers, Sequences, EventRing

CONSTANTS MaxStreams, MaxSockets,   \* KMaxSockets: 8 in the code
          RxCap, TxCap,             \* the capacities TcpStream::open is given
          Traffic                   \* a set of [in, out], each the bytes of every stream

ASSUME BoundsAssumption == /\ MaxStreams \in Nat /\ MaxSockets \in Nat
                           /\ Traffic \subseteq [in : [1..MaxStreams -> Nat],
                                                  out : [1..MaxStreams -> Nat]]
ASSUME CapsAssumption == RxCap \in Nat \ {0} /\ TxCap \in Nat \ {0}

Streams == 1..MaxStreams
Slots == 0..(MaxSockets - 1)
NoStream == 0
NoHandle == -1

VARIABLES
    stream,     \* [Streams -> TcpStream]
    sock,       \* [Slots -> gSockets[slot]: its stream and three active objects]
    ring,       \* the event ring; `of` in an event, for the properties, is the stream
                \* whose request it ends
    gui,        \* the GUI thread: "scheduler", or "step" inside rust_step
    opened,     \* streams opened so far
    taken,      \* [Streams -> bytes of the peer the socket server has handed over]
    read,       \* [Streams -> what the application has read]
    wrote,      \* [Streams -> how many bytes `write` has accepted]
    got,        \* [Streams -> what the peer has received]
    lost,       \* history: the completions a full ring dropped, <<stream, kind>>
    misled      \* history: the streams that took an event of another

app == <<opened, read, wrote>>
vars == <<stream, sock, ring, gui, app, taken, got, lost, misled>>

States == {"Opening", "Connecting", "Connected", "Closed", "Failed"}
Over == {"Closed", "Failed"}
Statuses == {"ok", "eof", "error"}
Kinds == {"connected", "recv", "sent"}

\* an active object: idle, waiting for the socket server, or completed and about to
\* run. n is the capacity asked for, then the length that came; the length to send
Idle == [st |-> "idle", status |-> "ok", n |-> 0]
Asked(n) == [st |-> "pending", status |-> "ok", n |-> n]
Done(status, n) == [st |-> "done", status |-> status, n |-> n]
IsActive(ao) == ao.st # "idle"

NewStream == [handle |-> NoHandle, state |-> "Opening", rx |-> <<>>, rxPending |-> FALSE,
              land |-> [i \in 1..RxCap |-> 0], tx |-> <<>>, txPending |-> 0]
FreeSocket == [owner |-> NoStream, ctl |-> Idle, recv |-> Idle, send |-> Idle]

Init ==
    /\ stream = [c \in Streams |-> NewStream]
    /\ sock = [h \in Slots |-> FreeSocket]
    /\ ring = <<>> /\ gui = "scheduler" /\ opened = 0
    /\ taken = [c \in Streams |-> 0]
    /\ read = [c \in Streams |-> <<>>] /\ wrote = [c \in Streams |-> 0]
    /\ got = [c \in Streams |-> <<>>]
    /\ lost = {} /\ misled = {}

Within(in, out) ==
    \E q \in Traffic : \A c \in Streams : in[c] <= q.in[c] /\ out[c] <= q.out[c]

\* the stream behind a slot, while it has not closed its handle
Held(h) == {c \in Streams : stream[c].handle = h}
-----------------------------------------------------------------------------
(* pump_rx and pump_tx, on a stream s and the active object ao of its socket *)

\* room left for a read to fill
FreeMutant(s) == RxCap
Free(s) == RxCap - Len(s.rx)

WantsReadMutant(s) == s.state = "Connected" /\ Free(s) > 0
WantsRead(s) == ~s.rxPending /\ s.state = "Connected" /\ Free(s) > 0
WantsSend(s) == s.txPending = 0 /\ s.tx # <<>> /\ s.state = "Connected"

\* shim_tcp_recv and shim_tcp_send answer IN_USE to an object that is active
RecvRefused(s, ao) == WantsRead(s) /\ IsActive(ao)
SendRefused(s, ao) == WantsSend(s) /\ IsActive(ao)
RecvsMutant(s, ao) == WantsRead(s) /\ ~IsActive(ao) /\ s.rx = <<>>
Recvs(s, ao) == WantsRead(s) /\ ~IsActive(ao)
Sends(s, ao) == WantsSend(s) /\ ~IsActive(ao)

RxPumped(s, ao) == IF Recvs(s, ao) THEN [s EXCEPT !.rxPending = TRUE] ELSE s
TxPumped(s, ao) == IF Sends(s, ao) THEN [s EXCEPT !.txPending = Len(s.tx)] ELSE s
RecvAfter(s, ao) == IF Recvs(s, ao) THEN Asked(Free(s)) ELSE ao
SendAfter(s, ao) == IF Sends(s, ao) THEN Asked(Len(s.tx)) ELSE ao

Failed(s) == [s EXCEPT !.state = "Failed"]

\* fail, when the pump is refused inside on_event
RxPumpedOrFailed(s, ao) == IF RecvRefused(s, ao) THEN Failed(s) ELSE RxPumped(s, ao)
TxPumpedOrFailed(s, ao) == IF SendRefused(s, ao) THEN Failed(s) ELSE TxPumped(s, ao)
-----------------------------------------------------------------------------
(* The application, inside rust_step *)

\* AllocSlot: the lowest free slot
IsNextSlot(h) == /\ sock[h].owner = NoStream
                 /\ \A g \in Slots : g < h => sock[g].owner # NoStream

\* open, on a bearer that is up and with a slot free; nobody looks whether events of the
\* socket that had the slot are still in the ring
Open(h) ==
    /\ gui = "step" /\ opened < MaxStreams
    /\ IsNextSlot(h)
    /\ opened' = opened + 1
    /\ stream' = [stream EXCEPT ![opened + 1].handle = h]
    /\ sock' = [sock EXCEPT ![h] = [FreeSocket EXCEPT !.owner = opened + 1]]
    /\ UNCHANGED <<ring, gui, read, wrote, taken, got, lost, misled>>

Connect(c) ==
    /\ gui = "step" /\ stream[c].handle # NoHandle
    /\ stream[c].state = "Opening"
    /\ ~IsActive(sock[stream[c].handle].ctl)
    /\ sock' = [sock EXCEPT ![stream[c].handle].ctl = Asked(0)]
    /\ stream' = [stream EXCEPT ![c].state = "Connecting"]
    /\ UNCHANGED <<ring, gui, app, taken, got, lost, misled>>

\* write: takes what there is room for, which may be nothing
Write(c, k) ==
    LET s == stream[c]
        room == TxCap - Len(s.tx)
        take == IF room < k THEN room ELSE k
        filled == [s EXCEPT !.tx = @ \o [i \in 1..take |-> wrote[c] + i]]
        ao == sock[s.handle].send
    IN  /\ gui = "step" /\ s.handle # NoHandle /\ s.state = "Connected"
        /\ Within(taken, [wrote EXCEPT ![c] = @ + k])
        /\ wrote' = [wrote EXCEPT ![c] = @ + take]
        /\ stream' = [stream EXCEPT ![c] = TxPumped(filled, ao)]
        /\ sock' = [sock EXCEPT ![s.handle].send = SendAfter(filled, ao)]
        /\ UNCHANGED <<ring, gui, opened, read, taken, got, lost, misled>>

\* read: also of a stream that has ended, where the pump does nothing
Read(c, k) ==
    LET s == stream[c]
        take == IF Len(s.rx) < k THEN Len(s.rx) ELSE k
        drained == [s EXCEPT !.rx = SubSeq(@, take + 1, Len(@))]
    IN  /\ gui = "step"
        /\ read' = [read EXCEPT ![c] = @ \o SubSeq(s.rx, 1, take)]
        /\ IF s.handle = NoHandle
           THEN stream' = [stream EXCEPT ![c] = drained] /\ UNCHANGED sock
           ELSE LET ao == sock[s.handle].recv IN
                /\ stream' = [stream EXCEPT ![c] = RxPumped(drained, ao)]
                /\ sock' = [sock EXCEPT ![s.handle].recv = RecvAfter(drained, ao)]
        /\ UNCHANGED <<ring, gui, opened, wrote, taken, got, lost, misled>>

\* close, or drop: the requests are cancelled, which takes a completion that has not
\* run with it, but not an event that is already in the ring. Of the buffers only rx is
\* ever looked at again
Close(c) ==
    /\ gui = "step" /\ stream[c].handle # NoHandle
    /\ sock' = [sock EXCEPT ![stream[c].handle] = FreeSocket]
    /\ stream' = [stream EXCEPT ![c] = [NewStream EXCEPT !.state = "Closed", !.rx = stream[c].rx]]
    /\ UNCHANGED <<ring, gui, app, taken, got, lost, misled>>
-----------------------------------------------------------------------------
(* on_event *)

\* the bytes go out of the landing buffer, as many as fit
Landed(s, n) ==
    LET take == IF n < Free(s) THEN n ELSE Free(s)
    IN  [s EXCEPT !.rx = @ \o SubSeq(s.land, 1, take), !.rxPending = FALSE]

\* a completion that went well, before the pump runs
TakenMutant(s, e) ==
    CASE e.kind = "connected" -> [s EXCEPT !.state = "Connected"]
      [] e.kind = "recv" -> Landed(s, e.n)
      [] e.kind = "sent" -> [s EXCEPT !.tx = <<>>, !.txPending = 0]
Taken(s, e) ==
    CASE e.kind = "connected" -> [s EXCEPT !.state = "Connected"]
      [] e.kind = "recv" -> Landed(s, e.n)
      [] e.kind = "sent" -> [s EXCEPT !.tx = SubSeq(@, s.txPending + 1, Len(@)),
                                      !.txPending = 0]

\* one that did not: what was queued to be sent is dropped, what arrived is kept
Broken(s, e) ==
    CASE e.kind = "connected" -> Failed(s)
      [] e.kind = "recv" -> [s EXCEPT !.rxPending = FALSE,
                                      !.state = IF e.status = "eof" THEN "Closed" ELSE "Failed"]
      [] e.kind = "sent" -> [Failed(s) EXCEPT !.tx = <<>>, !.txPending = 0]

Handled(s, e, b) ==
    IF e.status # "ok" THEN Broken(s, e)
    ELSE IF e.kind = "sent" THEN TxPumpedOrFailed(Taken(s, e), b.send)
    ELSE RxPumpedOrFailed(Taken(s, e), b.recv)

SockHandled(s, e, b) ==
    IF e.status # "ok" THEN b
    ELSE IF e.kind = "sent" THEN [b EXCEPT !.send = SendAfter(Taken(s, e), b.send)]
    ELSE [b EXCEPT !.recv = RecvAfter(Taken(s, e), b.recv)]

\* the application hands the event to every stream; one that has no such handle
\* ignores it
TakesMutant(c, e) == stream[c].handle # NoHandle
Takes(c, e) == stream[c].handle = e.handle

Poll ==
    /\ gui = "step" /\ ring # <<>>
    /\ LET e == Head(ring) IN
       /\ stream' = [c \in Streams |-> IF Takes(c, e)
                                       THEN Handled(stream[c], e, sock[stream[c].handle])
                                       ELSE stream[c]]
       /\ sock' = [h \in Slots |->
                      IF \E c \in Held(h) : Takes(c, e)
                      THEN SockHandled(stream[sock[h].owner], e, sock[h])
                      ELSE sock[h]]
       /\ misled' = misled \cup {c \in Streams : Takes(c, e) /\ e.of # c}
    /\ ring' = Tail(ring)
    /\ UNCHANGED <<gui, app, taken, got, lost>>
-----------------------------------------------------------------------------
(* The GUI thread *)

AOs(h) == {sock[h].ctl, sock[h].recv, sock[h].send}

\* the pump, whose priority is below every other object's; the step may also be about
\* something else
StepBegins ==
    /\ gui = "scheduler"
    /\ \A h \in Slots : \A ao \in AOs(h) : ao.st # "done"
    /\ gui' = "step"
    /\ UNCHANGED <<stream, sock, ring, app, taken, got, lost, misled>>

StepEnds ==
    /\ gui = "step" /\ ring = <<>>
    /\ gui' = "scheduler"
    /\ UNCHANGED <<stream, sock, ring, app, taken, got, lost, misled>>

\* RunL of a completed object: its event goes to the ring, or is dropped by a full one
Pushes(h, kind, ao) ==
    /\ gui = "scheduler" /\ ao.st = "done"
    /\ ring' = Pushed(ring, [kind |-> kind, handle |-> h, status |-> ao.status, n |-> ao.n,
                             of |-> sock[h].owner])
    /\ lost' = IF Fits(ring) THEN lost ELSE lost \cup {<<sock[h].owner, kind>>}
    /\ UNCHANGED <<stream, gui, app, taken, got, misled>>

CtlRunL(h) ==
    /\ Pushes(h, "connected", sock[h].ctl)
    /\ sock' = [sock EXCEPT ![h].ctl = Idle]
ReaderRunL(h) ==
    /\ Pushes(h, "recv", sock[h].recv)
    /\ sock' = [sock EXCEPT ![h].recv = Idle]
WriterRunL(h) ==
    /\ Pushes(h, "sent", sock[h].send)
    /\ sock' = [sock EXCEPT ![h].send = Idle]

RunL(h) == CtlRunL(h) \/ ReaderRunL(h) \/ WriterRunL(h)

Gui ==
    \/ \E h \in Slots : RunL(h)
    \/ StepBegins
    \/ Poll
    \/ StepEnds
-----------------------------------------------------------------------------
(* The socket server and the other end *)

ConnectEnds(h, status) ==
    /\ sock[h].ctl.st = "pending"
    /\ sock' = [sock EXCEPT ![h].ctl = Done(status, 0)]
    /\ UNCHANGED <<stream, ring, gui, app, taken, got, lost, misled>>

\* RecvOneOrMore: what there is, up to what was asked for, into the landing buffer
ReadEnds(h, k) ==
    LET c == sock[h].owner IN
    /\ sock[h].recv.st = "pending"
    /\ k <= sock[h].recv.n /\ Within([taken EXCEPT ![c] = @ + k], wrote)
    /\ sock' = [sock EXCEPT ![h].recv = Done("ok", k)]
    /\ stream' = [stream EXCEPT ![c].land =
                     [i \in 1..RxCap |-> IF i <= k THEN taken[c] + i ELSE @[i]]]
    /\ taken' = [taken EXCEPT ![c] = @ + k]
    /\ UNCHANGED <<ring, gui, app, got, lost, misled>>

\* the other end closed, or the connection broke
ReadStops(h, status) ==
    /\ sock[h].recv.st = "pending"
    /\ sock' = [sock EXCEPT ![h].recv = Done(status, 0)]
    /\ UNCHANGED <<stream, ring, gui, app, taken, got, lost, misled>>

\* Write sends all it was given, or breaks somewhere in it
SendEnds(h, status, k) ==
    LET c == sock[h].owner
        n == sock[h].send.n
    IN  /\ sock[h].send.st = "pending"
        /\ k <= n /\ (status = "ok" => k = n) /\ k <= Len(stream[c].tx)
        /\ got' = [got EXCEPT ![c] = @ \o SubSeq(stream[c].tx, 1, k)]
        /\ sock' = [sock EXCEPT ![h].send = Done(status, IF status = "ok" THEN n ELSE 0)]
        /\ UNCHANGED <<stream, ring, gui, app, taken, lost, misled>>
-----------------------------------------------------------------------------
App ==
    \/ \E h \in Slots : Open(h)
    \/ \E c \in Streams : Connect(c) \/ Close(c)
    \/ \E c \in Streams : \E k \in 1..TxCap : Write(c, k)
    \/ \E c \in Streams : \E k \in 1..RxCap : Read(c, k)

Network == \E h \in Slots :
    \/ \E status \in {"ok", "error"} : ConnectEnds(h, status)
    \/ \E k \in 1..RxCap : ReadEnds(h, k)
    \/ \E status \in {"eof", "error"} : ReadStops(h, status)
    \/ \E status \in {"ok", "error"} : \E k \in 0..TxCap : SendEnds(h, status, k)

Next == Gui \/ App \/ Network

Spec == Init /\ [][Next]_vars

\* the scheduler dispatches what is ready, and a drain goes on; nothing is asked of the
\* network or of the application
FairSpec == Spec /\ WF_vars(Gui)
-----------------------------------------------------------------------------
(* Properties *)

AO == [st : {"idle", "pending", "done"}, status : Statuses, n : 0..(RxCap + TxCap)]
Event == [kind : Kinds, handle : Slots, status : Statuses, n : 0..(RxCap + TxCap),
          of : Streams \cup {NoStream}]

\* Types; what is buffered never exceeds the capacity it was given, whatever the
\* completions say.
TypeOK ==
    /\ stream \in [Streams -> [handle : Slots \cup {NoHandle}, state : States,
                              rx : Seq(Nat), rxPending : BOOLEAN, land : [1..RxCap -> Nat],
                              tx : Seq(Nat), txPending : 0..TxCap]]
    /\ \A c \in Streams : Len(stream[c].rx) <= RxCap /\ Len(stream[c].tx) <= TxCap
    /\ sock \in [Slots -> [owner : Streams \cup {NoStream}, ctl : AO, recv : AO, send : AO]]
    /\ ring \in Seq(Event) /\ Len(ring) <= Capacity
    /\ gui \in {"scheduler", "step"} /\ opened \in 0..MaxStreams
    /\ taken \in [Streams -> Nat]
    /\ read \in [Streams -> Seq(Nat)] /\ wrote \in [Streams -> Nat]
    /\ got \in [Streams -> Seq(Nat)]
    /\ lost \subseteq Streams \X Kinds /\ misled \subseteq Streams

\* the events in the ring that end a request of a stream
IsFor(e, c, kind) == e.of = c /\ e.kind = kind
Queued(c, kind) == \E i \in DOMAIN ring : IsFor(ring[i], c, kind)
IsOpen(c) == stream[c].handle # NoHandle
\* open, and whatever it took was its own
Sound(c) == IsOpen(c) /\ c \notin misled

\* a connected stream with room has a read out, and one with bytes to send a send
Asks(s) == s.state = "Connected" => /\ Free(s) > 0 => s.rxPending
                                    /\ s.tx # <<>> => s.txPending > 0

\* A stream asks whenever it may, and what it believes to be outstanding is exactly what
\* is: a request its active object holds, an event still in the ring, or a completion a
\* full ring has dropped, and then it waits for ever. A stream that believed less would ask
\* again and be refused; one that believed more would never ask again. This is so until the
\* stream takes a completion of another one, left in the ring by the last owner of its slot
\* (misled): that clears a flag whose request is still out.
RequestsTracked ==
    \A c \in Streams : Sound(c) =>
        LET s == stream[c]
            b == sock[s.handle]
        IN  /\ s.rxPending <=> IsActive(b.recv) \/ Queued(c, "recv") \/ <<c, "recv">> \in lost
            /\ s.txPending > 0 <=> IsActive(b.send) \/ Queued(c, "sent") \/ <<c, "sent">> \in lost
            /\ Asks(s)

\* the length of a read that came and that on_event has not yet queued
Arriving(c) ==
    {ao.n : ao \in {x \in {sock[stream[c].handle].recv} : x.st = "done"}}
    \cup {ring[i].n : i \in {j \in DOMAIN ring : IsFor(ring[j], c, "recv")}}

\* No byte is mislaid on the way: what the socket server handed over is read, waiting in
\* rx or on its way through the ring; and what was accepted for sending is at the peer or
\* still in tx, until a send breaks. Again of streams that were not misled: another's
\* completion lands bytes that never came, or drops from tx what was not sent.
NothingMislaid ==
    \A c \in Streams : Sound(c) =>
        LET s == stream[c]
            unread == taken[c] - Len(read[c]) - Len(s.rx)
            acknowledged == wrote[c] - Len(s.tx)
        IN  /\ <<c, "recv">> \notin lost =>
                   IF Arriving(c) = {} THEN unread = 0 ELSE Arriving(c) = {unread}
            /\ s.state = "Connected" =>
                   Len(got[c]) \in acknowledged .. (acknowledged + s.txPending)

\* Reads only ever give the peer's bytes, each once and in order, and the peer only
\* receives what was written, each byte once and in order, across partial reads, a full
\* buffer and failures; an ended stream accepts nothing more. A slot that is used again
\* changes nothing of that for as long as its new stream takes none of the events of the
\* old one; of a stream that did (misled) nothing is promised from there on, while the
\* others keep their promise.
Phase(c) == IF c \in misled THEN "void" ELSE IF c > opened THEN "new"
            ELSE IF stream[c].state \in Over THEN "ended" ELSE "open"
Promise == INSTANCE ByteStream WITH
    phase <- [c \in Streams |-> Phase(c)],
    sent <- taken
Duplex == Promise!BSpec

\* A connected stream with room always comes back to reading: whatever completes, in
\* whatever order with what the application reads, on_event or read issues the next read
\* (unless the ring dropped the completion of the last one).
Deaf(c) == /\ stream[c].state = "Connected" /\ Free(stream[c]) > 0
           /\ sock[stream[c].handle].recv.st # "pending"
           /\ <<c, "recv">> \notin lost
Listens == \A c \in Streams : []<>~Deaf(c)

\* "Checking it is what keeps one socket's completion from being consumed by another"
\* (net.rs, on_event): no byte that was never received is offered to the application.
NoJunk == \A c \in Streams : \A i \in DOMAIN stream[c].rx : stream[c].rx[i] # 0

\* What is left of it: such a byte is only ever offered by a stream that took a completion
\* of another.
JunkIsMisled == \A c \in Streams \ misled : \A i \in DOMAIN stream[c].rx : stream[c].rx[i] # 0
=============================================================================
