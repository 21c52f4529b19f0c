----------------------------- MODULE ByteStream -----------------------------
(***************************************************************************)
(* What a TCP connection promises the application that holds it: two byte  *)
(* queues that neither lose, repeat, reorder nor invent a byte, and an end *)
(* after which nothing more is accepted for sending. A byte is its place   *)
(* in the stream it belongs to.                                            *)
(*                                                                         *)
(* A connection may turn void, and then nothing is promised of it; the     *)
(* others go on.                                                           *)
(***************************************************************************)
EXTENDS Naturals, Sequences

CONSTANT Streams

VARIABLES
    phase,      \* [Streams -> {"new", "open", "ended", "void"}]
    sent,       \* [Streams -> Nat]: bytes that have come from the peer
    read,       \* [Streams -> Seq]: what the application has read
    wrote,      \* [Streams -> Nat]: bytes accepted from the application
    got         \* [Streams -> Seq]: what the peer has received

bvars == <<phase, sent, read, wrote, got>>

\* the k bytes after the first n of a stream
Following(n, k) == [i \in 1..k |-> n + i]

BInit ==
    /\ phase = [c \in Streams |-> "new"]
    /\ sent = [c \in Streams |-> 0]  /\ read = [c \in Streams |-> <<>>]
    /\ wrote = [c \in Streams |-> 0] /\ got = [c \in Streams |-> <<>>]

Opens(c) ==
    /\ phase[c] = "new"
    /\ phase' = [phase EXCEPT ![c] = "open"]
    /\ UNCHANGED <<sent, read, wrote, got>>

PeerWrites(c) ==
    /\ sent'[c] \in Nat /\ sent[c] <= sent'[c]
    /\ sent' = [sent EXCEPT ![c] = sent'[c]]
    /\ UNCHANGED <<phase, read, wrote, got>>

\* what has arrived stays readable after the end
Reads(c) ==
    /\ \E k \in 0..(sent[c] - Len(read[c])) :
          read' = [read EXCEPT ![c] = @ \o Following(Len(@), k)]
    /\ UNCHANGED <<phase, sent, wrote, got>>

Accepts(c) ==
    /\ phase[c] = "open"
    /\ wrote'[c] \in Nat /\ wrote[c] <= wrote'[c]
    /\ wrote' = [wrote EXCEPT ![c] = wrote'[c]]
    /\ UNCHANGED <<phase, sent, read, got>>

PeerReads(c) ==
    /\ \E k \in 0..(wrote[c] - Len(got[c])) :
          got' = [got EXCEPT ![c] = @ \o Following(Len(@), k)]
    /\ UNCHANGED <<phase, sent, read, wrote>>

Ends(c) ==
    /\ phase[c] # "void"
    /\ phase' = [phase EXCEPT ![c] = "ended"]
    /\ UNCHANGED <<sent, read, wrote, got>>

TurnsVoid(c) ==
    /\ phase[c] # "new"
    /\ phase' = [phase EXCEPT ![c] = "void"]
    /\ UNCHANGED <<sent, read, wrote, got>>

\* anything may become of the bytes of a void connection, and of no other's
Strays(c) ==
    /\ phase[c] = "void"
    /\ \A d \in Streams \ {c} : /\ sent'[d] = sent[d] /\ read'[d] = read[d]
                               /\ wrote'[d] = wrote[d] /\ got'[d] = got[d]
    /\ UNCHANGED phase

BNext ==
    \E c \in Streams :
        \/ Opens(c) \/ PeerWrites(c) \/ Reads(c) \/ Accepts(c) \/ PeerReads(c) \/ Ends(c)
        \/ TurnsVoid(c) \/ Strays(c)

BSpec == BInit /\ [][BNext]_bvars
=============================================================================
