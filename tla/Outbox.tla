------------------------------- MODULE Outbox -------------------------------
(***************************************************************************)
(* What the user of the Messaging application may rely on: a reply he has  *)
(* finished is carried out or marked, one of his that shows as sent was    *)
(* really carried, one that shows as failed stays where it is, and what he *)
(* never finished, or deleted before it was taken, goes nowhere.           *)
(***************************************************************************)
EXTENDS Naturals

CONSTANT Replies

VARIABLES
    shown,      \* [Replies -> how the store shows it]
    carried     \* [Replies -> how often it went out]

ovars == <<shown, carried>>

OInit == shown \in [Replies -> {"nowhere", "draft"}] /\ carried = [r \in Replies |-> 0]

Becomes(r, from, to) == shown[r] \in from /\ shown' = [shown EXCEPT ![r] = to]

Write(r)  == Becomes(r, {"nowhere"}, "draft") /\ UNCHANGED carried
Finish(r) == Becomes(r, {"draft"}, "waiting") /\ UNCHANGED carried
Delete(r) == Becomes(r, {"draft", "waiting", "sent", "failed"}, "deleted") /\ UNCHANGED carried

\* replies that were taken while they waited go out, also when just deleted; when the
\* daemon dies, several may go out at once
Carry(out) == /\ \A r \in out : shown[r] \in {"waiting", "deleted"}
              /\ carried' = [r \in Replies |-> carried[r] + IF r \in out THEN 1 ELSE 0]
              /\ UNCHANGED shown
Sent(r)   == carried[r] > 0 /\ Becomes(r, {"waiting"}, "sent") /\ UNCHANGED carried
Failed(r) == Becomes(r, {"waiting"}, "failed") /\ UNCHANGED carried

ONext ==
    \/ \E r \in Replies : Write(r) \/ Finish(r) \/ Delete(r) \/ Sent(r) \/ Failed(r)
    \/ \E out \in SUBSET Replies : Carry(out)

OSpec == OInit /\ [][ONext]_ovars
=============================================================================
