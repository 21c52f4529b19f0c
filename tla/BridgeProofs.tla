---------------------------- MODULE BridgeProofs ----------------------------
(***************************************************************************)
(* Proofs about Bridge, for every finite set of replies and every number   *)
(* of errors and deaths: its type, its two safety invariants, and that it  *)
(* implements Outbox.                                                      *)
(*                                                                         *)
(* The argument.  Whatever is with the service, or is being handed over or *)
(* recorded, was found pending, and only the daemon changes a reply after  *)
(* that, but for a deletion (Claimed, and HeldOnce, which keeps the two    *)
(* apart).  A reply that may still be carried out (Open) has been carried  *)
(* out no more often than there were faults (Paid); carrying it out closes *)
(* it, and only a fault opens it again.                                    *)
(***************************************************************************)
EXTENDS Bridge, TLAPS, FiniteSetTheorems, SequenceTheorems

Entry == [folder : Watched \cup {"none", "sent", "gone"}, published : BOOLEAN, failed : BOOLEAN]
At == [pc : {"idle", "list", "look"} \cup Handling, folders : Seq(Watched), todo : Seq(Replies)]

\* the reply being handed over or recorded
Current == Head(at.todo)

Claimed ==
    /\ at.pc \in Handling =>
          /\ Current \notin Foreign /\ entry[Current].published /\ ~entry[Current].failed
          /\ entry[Current].folder \in Watched \cup {"gone"}
    /\ at.pc \in {"flags", "move"} => carried[Current] > 0

Unfinished ==
    \A r \in Replies :
        /\ entry[r].folder = "none" => ~entry[r].published
        /\ ~entry[r].published => ~entry[r].failed /\ carried[r] = 0

Spent(r) == at.pc \in {"flags", "move"} /\ r = Current
Open(r) == ~Spent(r) /\ (r \in inFlight \/ Pending(r) \/ (at.pc = "send" /\ r = Current))

PaidFor(r) == /\ carried[r] <= 1 + errors + deaths
              /\ Open(r) => carried[r] <= errors + deaths
Paid == \A r \in Replies : PaidFor(r)

IInv == TypeOK /\ HeldOnce /\ Claimed /\ Unfinished /\ Paid

-----------------------------------------------------------------------------
\* What a change of one field leaves of an entry

LEMMA FolderDoes ==
    ASSUME NEW e \in Entry, NEW folder \in Watched \cup {"none", "sent", "gone"}
    PROVE  /\ [e EXCEPT !.folder = folder] \in Entry
           /\ [e EXCEPT !.folder = folder].folder = folder
           /\ [e EXCEPT !.folder = folder].published = e.published
           /\ [e EXCEPT !.folder = folder].failed = e.failed
  BY DEF Entry

LEMMA PublishedDoes ==
    ASSUME NEW e \in Entry
    PROVE  /\ [e EXCEPT !.published = TRUE] \in Entry
           /\ [e EXCEPT !.published = TRUE].folder = e.folder
           /\ [e EXCEPT !.published = TRUE].published = TRUE
           /\ [e EXCEPT !.published = TRUE].failed = e.failed
  BY DEF Entry

LEMMA FailedDoes ==
    ASSUME NEW e \in Entry
    PROVE  /\ [e EXCEPT !.failed = TRUE] \in Entry
           /\ [e EXCEPT !.failed = TRUE].folder = e.folder
           /\ [e EXCEPT !.failed = TRUE].published = e.published
           /\ [e EXCEPT !.failed = TRUE].failed = TRUE
  BY DEF Entry

\* one entry changes, one field of it
Changes(r, folder, published, failed) ==
    /\ entry' \in [Replies -> Entry]
    /\ \A s \in Replies \ {r} : entry'[s] = entry[s]
    /\ entry'[r].folder = folder /\ entry'[r].published = published
    /\ entry'[r].failed = failed

LEMMA OneChanges ==
    ASSUME TypeOK, NEW r \in Replies, NEW e \in Entry, entry' = [entry EXCEPT ![r] = e]
    PROVE  Changes(r, e.folder, e.published, e.failed)
  BY DEF TypeOK, Changes, Entry

LEMMA ComposeDoes ==
    ASSUME TypeOK, NEW r \in Replies, NEW folder \in Watched, Compose(r, folder)
    PROVE  Changes(r, folder, entry[r].published, entry[r].failed)
<1> DEFINE e == [entry[r] EXCEPT !.folder = folder]
<1>1. entry[r] \in Entry /\ entry' = [entry EXCEPT ![r] = e]
  BY DEF TypeOK, Entry, Compose
<1>2. e \in Entry /\ Changes(r, e.folder, e.published, e.failed)
  BY <1>1, FolderDoes, OneChanges DEF Watched
<1> QED BY <1>1, <1>2, FolderDoes DEF Watched

LEMMA PublishDoes ==
    ASSUME TypeOK, NEW r \in Replies, Publish(r)
    PROVE  Changes(r, entry[r].folder, TRUE, entry[r].failed)
<1> DEFINE e == [entry[r] EXCEPT !.published = TRUE]
<1>1. entry[r] \in Entry /\ entry' = [entry EXCEPT ![r] = e]
  BY DEF TypeOK, Entry, Publish
<1>2. e \in Entry /\ Changes(r, e.folder, e.published, e.failed)
  BY <1>1, PublishedDoes, OneChanges DEF Watched
<1> QED BY <1>1, <1>2, PublishedDoes DEF Watched

LEMMA DeleteDoes ==
    ASSUME TypeOK, NEW r \in Replies, Delete(r)
    PROVE  Changes(r, "gone", entry[r].published, entry[r].failed)
<1> DEFINE e == [entry[r] EXCEPT !.folder = "gone"]
<1>1. entry[r] \in Entry /\ entry' = [entry EXCEPT ![r] = e]
  BY DEF TypeOK, Entry, Delete
<1>2. e \in Entry /\ Changes(r, e.folder, e.published, e.failed)
  BY <1>1, FolderDoes, OneChanges DEF Watched
<1> QED BY <1>1, <1>2, FolderDoes DEF Watched

LEMMA MoveDoes ==
    ASSUME TypeOK, NEW r \in Replies, entry' = [entry EXCEPT ![r].folder = "sent"]
    PROVE  Changes(r, "sent", entry[r].published, entry[r].failed)
<1> DEFINE e == [entry[r] EXCEPT !.folder = "sent"]
<1>1. entry[r] \in Entry /\ entry' = [entry EXCEPT ![r] = e]
  BY DEF TypeOK, Entry, Move
<1>2. e \in Entry /\ Changes(r, e.folder, e.published, e.failed)
  BY <1>1, FolderDoes, OneChanges DEF Watched
<1> QED BY <1>1, <1>2, FolderDoes DEF Watched

LEMMA MarkDoes ==
    ASSUME TypeOK, NEW r \in Replies, entry' = [entry EXCEPT ![r].failed = TRUE]
    PROVE  Changes(r, entry[r].folder, entry[r].published, TRUE)
<1> DEFINE e == [entry[r] EXCEPT !.failed = TRUE]
<1>1. entry[r] \in Entry /\ entry' = [entry EXCEPT ![r] = e]
  BY DEF TypeOK, Entry, MarkFailed
<1>2. e \in Entry /\ Changes(r, e.folder, e.published, e.failed)
  BY <1>1, FailedDoes, OneChanges DEF Watched
<1> QED BY <1>1, <1>2, FailedDoes DEF Watched

-----------------------------------------------------------------------------
\* Where poll goes from a reply

LEMMA CurrentIsReply ==
    ASSUME TypeOK, at.pc \in Handling \/ at.todo # <<>>
    PROVE  Current \in Replies /\ Tail(at.todo) \in Seq(Replies)
  BY HeadTailProperties DEF TypeOK, Current

LEMMA OnwardDoes ==
    ASSUME TypeOK, NEW todo \in Seq(Replies)
    PROVE  Onward(todo) \in At /\ Onward(todo).pc \in {"list", "look"}
  BY DEF TypeOK, At, Onward, Handling

LEMMA IdleDoes == Idle \in At /\ Idle.pc = "idle"
  BY DEF Idle, At, Watched, Handling

LEMMA RecordingDoes ==
    ASSUME NEW r \in Replies, NEW pc \in Handling
    PROVE  /\ [pc |-> pc, folders |-> <<>>, todo |-> <<r>>] \in At
           /\ <<r>> # <<>> /\ Head(<<r>>) = r
  BY EmptySeq DEF At, Handling

LEMMA ChildrenType ==
    ASSUME NEW folder, NEW children \in Children(folder)
    PROVE  children \in Seq(Replies)
<1> DEFINE S == {r \in Replies : entry[r].folder = folder}
<1>1. IsFiniteSet(S)
  BY FS_Subset, RepliesAssumption
<1>2. Cardinality(S) \in Nat
  BY <1>1, FS_CardinalityType
<1>3. children \in [1..Cardinality(S) -> S]
  BY DEF Children, SetToSeqs
<1>4. children \in [1..Cardinality(S) -> Replies]
  BY <1>3
<1> HIDE DEF S
<1>5. \A n \in Nat : children \in [1..n -> Replies] => children \in Seq(Replies)
  BY SeqDef, Zenon
<1> QED BY <1>2, <1>4, <1>5

-----------------------------------------------------------------------------
\* The type

LEMMA TypeInit == Init => TypeOK
  BY IdleDoes, RepliesAssumption, FaultsAssumption DEF Init, TypeOK, Watched, At, Handling

LEMMA TypeNext == TypeOK /\ [Next]_vars => TypeOK'
<1> SUFFICES ASSUME TypeOK, [Next]_vars PROVE TypeOK'
  OBVIOUS
<1> USE FaultsAssumption
<1>1. CASE Messaging
  <2>1. PICK r \in Replies : (\E folder \in Watched : Compose(r, folder)) \/ Publish(r) \/ Delete(r)
    BY <1>1 DEF Messaging
  <2>2. entry' \in [Replies -> Entry]
    BY <2>1, ComposeDoes, PublishDoes, DeleteDoes DEF Changes
  <2> QED BY <2>1, <2>2 DEF Compose, Publish, Delete, TypeOK, Entry, faults
<1>2. CASE PollBegins
  BY <1>2 DEF PollBegins, TypeOK, Watched, faults, Handling
<1>3. CASE List
  <2>1. at' \in At /\ at'.pc \notin Handling
    <3>1. CASE at' = Idle
      BY <3>1, IdleDoes DEF Handling
    <3>2. CASE at.folders # <<>> /\ \E children \in Children(Head(at.folders)) :
                    at' = [pc |-> "look", folders |-> Tail(at.folders), todo |-> children]
      BY <3>2, ChildrenType, HeadTailProperties DEF TypeOK, At, Handling
    <3> QED BY <1>3, <3>1, <3>2 DEF List, Left
  <2> QED BY <1>3, <2>1 DEF List, StoreFails, TypeOK, At, faults
<1>4. CASE Look
  <2>1. at' \in At /\ (at'.pc \in Handling => at'.todo # <<>>)
    <3>1. CASE at' = Onward(<<>>)
      BY <3>1, OnwardDoes, EmptySeq DEF Handling
    <3>2. CASE at.todo # <<>> /\ at' = Onward(Tail(at.todo))
      BY <3>2, OnwardDoes, CurrentIsReply DEF Handling
    <3>3. CASE at.todo # <<>> /\ at' = [at EXCEPT !.pc = "send"]
      BY <3>3 DEF TypeOK, At, Handling
    <3> QED BY <1>4, <3>1, <3>2, <3>3 DEF Look
  <2> QED BY <1>4, <2>1 DEF Look, StoreFails, TypeOK, At, faults
<1>5. CASE Send
  <2>1. at.pc \in Handling /\ Current \in Replies /\ Tail(at.todo) \in Seq(Replies)
    BY <1>5, CurrentIsReply DEF Send, Handling
  <2>2. at' \in At /\ (at'.pc \in Handling => at'.todo # <<>>)
    BY <1>5, <2>1, OnwardDoes, IdleDoes DEF Send, Left, TypeOK, At, Handling
  <2>3. carried' \in [Replies -> Nat] /\ inFlight' \subseteq Replies
    BY <1>5, <2>1 DEF Send, TypeOK, Current
  <2> QED BY <1>5, <2>2, <2>3 DEF Send, StoreFails, TypeOK, At, faults
<1>6. CASE Flags
  <2>1. at' \in At /\ (at'.pc \in Handling => at'.todo # <<>>)
    BY <1>6, IdleDoes DEF Flags, Left, TypeOK, At, Handling
  <2> QED BY <1>6, <2>1 DEF Flags, StoreFails, TypeOK, At, faults
<1>7. CASE Move \/ MarkFailed
  <2>1. at.pc \in Handling /\ Current \in Replies /\ Tail(at.todo) \in Seq(Replies)
    BY <1>7, CurrentIsReply DEF Move, MarkFailed, Handling
  <2>2. at' \in At /\ at'.pc \notin Handling
    BY <1>7, <2>1, OnwardDoes, IdleDoes DEF Move, MarkFailed, Left, Recorded, Handling
  <2>3. entry' \in [Replies -> Entry]
    BY <1>7, <2>1, MoveDoes, MarkDoes DEF Move, MarkFailed, TypeOK, Entry, Changes, Current
  <2> QED BY <1>7, <2>2, <2>3 DEF Move, MarkFailed, StoreFails, TypeOK, At, Entry, faults
<1>8. CASE Answers
  <2>1. PICK r \in Replies : Confirm(r) \/ Fail(r)
    BY <1>8 DEF Answers
  <2>2. CASE Confirm(r)
    <3>1. carried' \in [Replies -> Nat] /\ inFlight' \subseteq Replies
      BY <2>2 DEF Confirm, TypeOK
    <3> QED BY <2>2, <3>1, RecordingDoes DEF Confirm, TypeOK, At, Handling, faults
  <2>3. CASE Fail(r)
    BY <2>3, RecordingDoes DEF Fail, TypeOK, At, Handling, faults
  <2> QED BY <2>1, <2>2, <2>3
<1>9. CASE Dies
  <2>1. at' \in At /\ at'.pc \notin Handling
    BY <1>9, IdleDoes DEF Dies, Handling
  <2>2. carried' \in [Replies -> Nat]
    BY <1>9 DEF Dies, TypeOK
  <2> QED BY <1>9, <2>1, <2>2 DEF Dies, TypeOK, At
<1>10. CASE UNCHANGED vars
  BY <1>10 DEF vars, faults, TypeOK
<1> QED
  BY <1>1, <1>2, <1>3, <1>4, <1>5, <1>6, <1>7, <1>8, <1>9, <1>10 DEF Next, Working

\* The store, the position of the call, the tokens and the counts keep their types.
THEOREM TypeHolds == Spec => []TypeOK
  BY TypeInit, TypeNext, PTL DEF Spec
-----------------------------------------------------------------------------
\* The invariant

\* the facts a step keeps, apart from the type
Kept == HeldOnce /\ Claimed /\ Unfinished /\ Paid

LEMMA InitKept == Init => IInv
<1>1. ASSUME Init PROVE Kept
  <2>1. HeldOnce /\ Claimed
    BY <1>1 DEF Init, Idle, HeldOnce, Claimed, Handling
  <2>2. Unfinished
    BY <1>1 DEF Init, Unfinished
  <2>3. Paid
    BY <1>1 DEF Init, Paid, PaidFor
  <2> QED BY <2>1, <2>2, <2>3 DEF Kept
<1> QED BY <1>1, TypeInit DEF IInv, Kept

LEMMA MessagingKeeps == IInv /\ Messaging => Kept'
<1> SUFFICES ASSUME IInv, Messaging PROVE Kept'
  OBVIOUS
<1>1. PICK r \in Replies \ Foreign :
         (\E folder \in Watched : Compose(r, folder)) \/ Publish(r) \/ Delete(r)
  BY DEF Messaging
<1>2. UNCHANGED <<at, inFlight, carried, errors, deaths>> /\ Current' = Current
  BY <1>1 DEF Compose, Publish, Delete, faults, Current
<1>3. at.pc \in Handling => Current \in Replies
  BY CurrentIsReply DEF IInv
<1>4. CASE \E folder \in Watched : Compose(r, folder)
  <2>1. /\ entry[r].folder = "none" /\ entry'[r].folder \in Watched
        /\ \A s \in Replies \ {r} : entry'[s] = entry[s]
        /\ entry'[r].published = entry[r].published /\ entry'[r].failed = entry[r].failed
    BY <1>4, ComposeDoes DEF IInv, Changes, Compose
  <2>2. HeldOnce'
    BY <1>2, <1>3, <2>1 DEF IInv, HeldOnce, Claimed, Watched, Pending, Skips, TypeOK, Current
  <2>3. Claimed'
    BY <1>2, <1>3, <2>1 DEF IInv, Claimed, Watched, Pending, Skips, TypeOK
  <2>4. Unfinished'
    BY <1>2, <1>3, <2>1 DEF IInv, Unfinished, Watched, TypeOK
  <2>5. Paid'
    <3> SUFFICES ASSUME NEW s \in Replies PROVE PaidFor(s)'
      BY DEF Paid
    <3>1. Open(s)' => Open(s) \/ carried[s] = 0
      BY <1>2, <1>3, <2>1 DEF Open, Spent, Pending, Skips, IInv, Unfinished, Watched
    <3> QED BY <1>2, <1>3, <2>1, <3>1 DEF IInv, Paid, PaidFor, TypeOK, faults
  <2> QED BY <2>2, <2>3, <2>4, <2>5 DEF Kept
<1>5. CASE Publish(r)
  <2>1. /\ ~entry[r].published /\ entry'[r].folder = entry[r].folder
        /\ \A s \in Replies \ {r} : entry'[s] = entry[s]
        /\ entry'[r].published /\ entry'[r].failed = entry[r].failed
        /\ entry[r].folder \in Watched
    BY <1>5, PublishDoes DEF IInv, Changes, Publish
  <2>2. HeldOnce'
    BY <1>2, <1>3, <2>1 DEF IInv, HeldOnce, Claimed, Watched, Pending, Skips, TypeOK, Current
  <2>3. Claimed'
    BY <1>2, <1>3, <2>1 DEF IInv, Claimed, Watched, Pending, Skips, TypeOK
  <2>4. Unfinished'
    BY <1>2, <1>3, <2>1 DEF IInv, Unfinished, Watched, TypeOK
  <2>5. Paid'
    <3> SUFFICES ASSUME NEW s \in Replies PROVE PaidFor(s)'
      BY DEF Paid
    <3>1. Open(s)' => Open(s) \/ carried[s] = 0
      BY <1>2, <1>3, <2>1 DEF Open, Spent, Pending, Skips, IInv, Unfinished, Watched
    <3> QED BY <1>2, <1>3, <2>1, <3>1 DEF IInv, Paid, PaidFor, TypeOK, faults
  <2> QED BY <2>2, <2>3, <2>4, <2>5 DEF Kept
<1>6. CASE Delete(r)
  <2>1. /\ entry'[r].folder = "gone"
        /\ \A s \in Replies \ {r} : entry'[s] = entry[s]
        /\ entry'[r].published = entry[r].published /\ entry'[r].failed = entry[r].failed
    BY <1>6, DeleteDoes DEF IInv, Changes
  <2>2. HeldOnce'
    BY <1>2, <1>3, <2>1 DEF IInv, HeldOnce, Claimed, Watched, Pending, Skips, TypeOK, Current
  <2>3. Claimed'
    BY <1>2, <1>3, <2>1 DEF IInv, Claimed, Watched, Pending, Skips, TypeOK
  <2>4. Unfinished'
    BY <1>2, <1>3, <2>1 DEF IInv, Unfinished, Watched, TypeOK
  <2>5. Paid'
    <3> SUFFICES ASSUME NEW s \in Replies PROVE PaidFor(s)'
      BY DEF Paid
    <3>1. Open(s)' => Open(s) \/ carried[s] = 0
      BY <1>2, <1>3, <2>1 DEF Open, Spent, Pending, Skips, IInv, Unfinished, Watched
    <3> QED BY <1>2, <1>3, <2>1, <3>1 DEF IInv, Paid, PaidFor, TypeOK, faults
  <2> QED BY <2>2, <2>3, <2>4, <2>5 DEF Kept
<1> QED BY <1>1, <1>4, <1>5, <1>6

\* what a pending reply is until it is recorded, unless it is deleted
Ready(r) == /\ r \notin Foreign /\ entry[r].published /\ ~entry[r].failed
            /\ entry[r].folder \in Watched \cup {"gone"}

\* faults only add up
Faulty == /\ errors \in Nat /\ deaths \in Nat /\ errors' \in Nat /\ deaths' \in Nat
          /\ errors <= errors' /\ deaths <= deaths'

\* a step that changes neither the store nor a token or a count, and goes nowhere new
LEMMA IdleKeeps ==
    ASSUME IInv, UNCHANGED <<entry, inFlight, carried>>, at'.pc \notin Handling,
           Faulty,
           at.pc \notin {"flags", "move"}
    PROVE  Kept'
<1>1. HeldOnce' /\ Claimed'
  BY DEF IInv, HeldOnce, Claimed, Handling
<1>2. Unfinished'
  BY DEF IInv, Unfinished
<1>3. Paid'
  <2> SUFFICES ASSUME NEW s \in Replies PROVE PaidFor(s)'
    BY DEF Paid
  <2>1. Open(s)' => Open(s)
    BY DEF Open, Spent, Pending, Handling
  <2>2. carried[s] \in Nat
    BY DEF IInv, TypeOK
  <2>3. carried'[s] = carried[s]
    OBVIOUS
  <2>4. PaidFor(s)
    BY DEF IInv, Paid
  <2> QED BY <2>1, <2>2, <2>3, <2>4 DEF PaidFor, Faulty
<1> QED BY <1>1, <1>2, <1>3 DEF Kept

LEMMA LookingKeeps == IInv /\ (PollBegins \/ List \/ Look) => Kept'
<1> SUFFICES ASSUME IInv, PollBegins \/ List \/ Look PROVE Kept'
  OBVIOUS
<1>1. /\ UNCHANGED <<entry, inFlight, carried>> /\ at.pc \notin Handling
      /\ Faulty
  BY FaultsAssumption DEF PollBegins, List, Look, StoreFails, faults, Faulty, IInv, TypeOK,
     Handling
<1>2. CASE at'.pc \notin Handling
  BY <1>1, <1>2, IdleKeeps DEF Handling
<1>3. CASE at'.pc \in Handling
  <2>1. /\ at.todo # <<>> /\ ~Skips(Current) /\ at' = [at EXCEPT !.pc = "send"]
        /\ UNCHANGED faults
    <3>1. ~PollBegins /\ ~List
      BY <1>3, IdleDoes DEF PollBegins, List, Left, Handling
    <3>2. at' # Onward(<<>>)
      BY <1>3, OnwardDoes, EmptySeq DEF Handling, IInv
    <3>3. at.todo # <<>> => at' # Onward(Tail(at.todo))
      BY <1>3, OnwardDoes, CurrentIsReply DEF Handling, IInv
    <3> QED BY <3>1, <3>2, <3>3, Zenon DEF Look, Current
  <2>2. at'.pc = "send" /\ Current' = Current
    BY <2>1 DEF IInv, TypeOK, At, Current
  <2>3. Current \in Replies
    BY <2>1, CurrentIsReply DEF IInv
  <2>4. HeldOnce'
    BY <1>1, <2>1, <2>2, <2>3 DEF IInv, HeldOnce, Claimed, Watched, Pending, Skips, TypeOK, Current
  <2>5. Claimed'
    BY <1>1, <2>1, <2>2, <2>3 DEF IInv, Claimed, Watched, Pending, Skips, TypeOK
  <2>6. Unfinished'
    BY <1>1, <2>1, <2>2, <2>3 DEF IInv, Unfinished, Watched, TypeOK
  <2>7. Paid'
    <3> SUFFICES ASSUME NEW s \in Replies PROVE PaidFor(s)'
      BY DEF Paid
    <3>1. Open(s)' => Open(s) \/ carried[s] = 0
      BY <1>1, <2>1, <2>2, <2>3 DEF Open, Spent, Pending, Skips, Handling
    <3> QED BY <1>1, <2>1, <2>2, <2>3, <3>1 DEF IInv, Paid, PaidFor, TypeOK, faults
  <2> QED BY <2>4, <2>5, <2>6, <2>7 DEF Kept
<1> QED BY <1>2, <1>3

LEMMA SendKeeps == IInv /\ Send => Kept'
<1> SUFFICES ASSUME IInv, Send PROVE Kept'
  OBVIOUS
<1>1. Current \in Replies /\ Tail(at.todo) \in Seq(Replies) /\ Ready(Current)
  BY CurrentIsReply DEF Send, IInv, Handling, Claimed, Ready
<1>2. UNCHANGED <<entry, deaths>> /\ Faulty /\ at.pc = "send"
  BY FaultsAssumption DEF Send, StoreFails, faults, Faulty, IInv, TypeOK
<1>3. CASE carried' = [carried EXCEPT ![Current] = @ + 1] /\ at' = [at EXCEPT !.pc = "flags"]
           /\ UNCHANGED <<inFlight, errors>>
  <2>1. at'.pc = "flags" /\ Current' = Current
    BY <1>3 DEF IInv, TypeOK, At, Current
  <2>2. /\ carried'[Current] = carried[Current] + 1 /\ carried[Current] \in Nat
        /\ \A s \in Replies \ {Current} : carried'[s] = carried[s]
    BY <1>1, <1>3 DEF IInv, TypeOK
  <2>3. HeldOnce' /\ Claimed'
    BY <1>1, <1>2, <1>3, <2>1, <2>2 DEF IInv, HeldOnce, Claimed, Ready, Handling, Current
  <2>4. Unfinished'
    BY <1>1, <1>2, <2>2 DEF IInv, Unfinished, Ready
  <2>5. Paid'
    <3> SUFFICES ASSUME NEW s \in Replies PROVE PaidFor(s)'
      BY DEF Paid
    <3>1. CASE s = Current
      <4>1. Open(s) /\ ~Open(s)'
        BY <3>1, <1>2, <2>1 DEF Open, Spent
      <4> QED BY <3>1, <4>1, <2>2, <1>2, <1>3 DEF Faulty, IInv, Paid, PaidFor, TypeOK
    <3>2. CASE s # Current
      <4>1. Open(s)' => Open(s)
        BY <3>2, <1>2, <1>3, <2>1 DEF Open, Spent, Pending
      <4> QED BY <3>2, <4>1, <2>2, <1>2, <1>3 DEF Faulty, IInv, Paid, PaidFor
    <3> QED BY <3>1, <3>2
  <2> QED BY <2>3, <2>4, <2>5 DEF Kept
<1>4. CASE at' = [at EXCEPT !.pc = "mark"] /\ UNCHANGED <<carried, inFlight, errors>>
  <2>1. at'.pc = "mark" /\ Current' = Current
    BY <1>4 DEF IInv, TypeOK, At, Current
  <2>2. HeldOnce' /\ Claimed'
    BY <1>1, <1>2, <1>4, <2>1 DEF IInv, HeldOnce, Claimed, Ready, Handling, Current
  <2>3. Unfinished'
    BY <1>2, <1>4 DEF IInv, Unfinished
  <2>4. \A s \in Replies : Open(s)' => Open(s)
    BY <1>2, <1>4, <2>1 DEF Open, Spent, Pending
  <2>5. Paid'
    BY <2>4, <1>2, <1>4 DEF IInv, Paid, PaidFor, Faulty
  <2> QED BY <2>2, <2>3, <2>5 DEF Kept
<1>5. CASE inFlight' = inFlight \cup {Current} /\ at' = Onward(Tail(at.todo))
           /\ UNCHANGED <<carried, errors>>
  <2>1. at'.pc \notin Handling
    BY <1>1, <1>5, OnwardDoes DEF IInv, Handling
  <2>2. HeldOnce' /\ Claimed'
    BY <1>1, <1>2, <1>5, <2>1 DEF IInv, HeldOnce, Claimed, Ready, Handling
  <2>3. Unfinished'
    BY <1>2, <1>5 DEF IInv, Unfinished
  <2>4. \A s \in Replies : Open(s)' => Open(s)
    BY <1>2, <1>5, <2>1 DEF Open, Spent, Pending, Handling
  <2>5. Paid'
    BY <2>4, <1>2, <1>5 DEF IInv, Paid, PaidFor, Faulty
  <2> QED BY <2>2, <2>3, <2>5 DEF Kept
<1>6. CASE at' = Idle /\ UNCHANGED <<carried, inFlight>>
  <2>1. at'.pc \notin Handling
    BY <1>6, IdleDoes DEF Handling
  <2> QED BY <1>2, <1>6, <2>1, IdleKeeps DEF Faulty
<1> QED
  BY <1>3, <1>4, <1>5, <1>6, Zenon DEF Send, StoreFails, Left, Current, faults

LEMMA FlagsKeeps == IInv /\ Flags => Kept'
<1> SUFFICES ASSUME IInv, Flags PROVE Kept'
  OBVIOUS
<1>1. Current \in Replies /\ Ready(Current)
  BY CurrentIsReply DEF Flags, IInv, Handling, Claimed, Ready
<1>2. UNCHANGED <<entry, inFlight, carried, deaths>> /\ Faulty /\ at.pc = "flags"
  BY FaultsAssumption DEF Flags, StoreFails, faults, Faulty, IInv, TypeOK
<1>3. CASE at' = [at EXCEPT !.pc = "move"] /\ UNCHANGED errors
  <2>1. at'.pc = "move" /\ Current' = Current
    BY <1>3 DEF IInv, TypeOK, At, Current
  <2>2. HeldOnce' /\ Claimed'
    BY <1>1, <1>2, <2>1 DEF IInv, HeldOnce, Claimed, Ready, Handling, Current
  <2>3. Unfinished'
    BY <1>2 DEF IInv, Unfinished
  <2>4. \A s \in Replies : Open(s)' => Open(s)
    BY <1>2, <2>1 DEF Open, Spent, Pending
  <2>5. Paid'
    BY <2>4, <1>2, <1>3 DEF IInv, Paid, PaidFor
  <2> QED BY <2>2, <2>3, <2>5 DEF Kept
<1>4. CASE at' = Idle /\ (~Exists(Current) \/ errors' = errors + 1)
  <2>1. at'.pc = "idle"
    BY <1>4, IdleDoes
  <2>2. HeldOnce' /\ Claimed' /\ Unfinished'
    BY <1>2, <2>1 DEF IInv, HeldOnce, Claimed, Unfinished, Handling
  <2>3. ASSUME NEW s \in Replies PROVE PaidFor(s)'
    <3>1. CASE errors' = errors + 1
      BY <3>1, <1>2 DEF IInv, TypeOK, Paid, PaidFor, Faulty
    <3>2. CASE ~Exists(Current)
      <4>1. Open(s)' => Open(s)
        BY <1>2, <2>1, <3>2 DEF Open, Spent, Pending, Exists, IInv, HeldOnce, Current, Handling
      <4> QED BY <4>1, <1>2 DEF IInv, TypeOK, Paid, PaidFor, Faulty
    <3> QED BY <1>4, <3>1, <3>2
  <2> QED BY <2>2, <2>3 DEF Kept, Paid
<1> QED
  BY <1>3, <1>4, Zenon DEF Flags, StoreFails, Left, Current, faults

\* a recording that is done, or that cannot be
LEMMA RecordingEnds ==
    ASSUME IInv, at.pc \in {"move", "mark"}, at'.pc \notin Handling,
           UNCHANGED <<inFlight, carried, deaths>>, Faulty,
           \/ Changes(Current, "sent", entry[Current].published, entry[Current].failed)
           \/ Changes(Current, entry[Current].folder, entry[Current].published, TRUE)
           \/ entry' = entry /\ (~Exists(Current) \/ errors' = errors + 1 \/ at.pc = "mark")
    PROVE  Kept'
<1>1. Current \in Replies /\ Ready(Current) /\ Current \notin inFlight
  BY CurrentIsReply DEF IInv, Handling, Claimed, Ready, HeldOnce, Current
<1>2. \A s \in Replies \ {Current} : entry'[s] = entry[s]
  BY DEF Changes
<1>3. entry'[Current].published /\ entry'[Current].folder # "none"
  BY <1>1 DEF Changes, Ready, Watched
<1>4. HeldOnce' /\ Claimed'
  BY <1>1, <1>2 DEF IInv, HeldOnce, Claimed, Handling, TypeOK
<1>5. Unfinished'
  BY <1>1, <1>2, <1>3 DEF IInv, Unfinished
<1>6. ASSUME NEW s \in Replies PROVE PaidFor(s)'
  <2>1. CASE errors' = errors + 1
    BY <2>1 DEF IInv, TypeOK, Paid, PaidFor, Faulty
  <2>2. CASE errors' # errors + 1
    <3>1. Open(s)' => Open(s)
      <4>1. CASE s # Current
        BY <4>1, <1>2 DEF Open, Spent, Pending, Handling
      <4>2. CASE s = Current
        <5>1. CASE at.pc = "mark"
          BY <5>1, <4>2, <1>1 DEF Open, Spent, Pending, Handling, Changes, Watched
        <5>2. CASE at.pc = "move"
          BY <5>2, <2>2, <4>2, <1>1 DEF Open, Spent, Pending, Handling, Changes, Watched, Exists
        <5> QED BY <5>1, <5>2
      <4> QED BY <4>1, <4>2
    <3> QED BY <3>1 DEF IInv, TypeOK, Paid, PaidFor, Faulty
  <2> QED BY <2>1, <2>2
<1> QED BY <1>4, <1>5, <1>6 DEF Kept, Paid

LEMMA RecordKeeps == IInv /\ (Move \/ MarkFailed) => Kept'
<1> SUFFICES ASSUME IInv, Move \/ MarkFailed PROVE Kept'
  OBVIOUS
<1>1. /\ at.pc \in {"move", "mark"} /\ UNCHANGED <<inFlight, carried, deaths>> /\ Faulty
      /\ Current \in Replies /\ Tail(at.todo) \in Seq(Replies)
  BY FaultsAssumption, CurrentIsReply
     DEF Move, MarkFailed, StoreFails, faults, Faulty, IInv, TypeOK, Handling
<1>2. at'.pc \notin Handling
  BY <1>1, IdleDoes, OnwardDoes DEF Move, MarkFailed, Left, Recorded, IInv, Handling
<1>3. CASE entry' = [entry EXCEPT ![Current].folder = "sent"]
  BY <1>1, <1>2, <1>3, MoveDoes, RecordingEnds DEF IInv
<1>4. CASE entry' = [entry EXCEPT ![Current].failed = TRUE]
  BY <1>1, <1>2, <1>4, MarkDoes, RecordingEnds DEF IInv
<1>5. CASE entry' = entry /\ (~Exists(Current) \/ errors' = errors + 1)
  BY <1>1, <1>2, <1>5, RecordingEnds
<1> QED BY <1>3, <1>4, <1>5, Zenon DEF Move, MarkFailed, StoreFails, Current

LEMMA AnswersKeep == IInv /\ Answers => Kept'
<1> SUFFICES ASSUME IInv, Answers PROVE Kept'
  OBVIOUS
<1>1. PICK r \in Replies : Confirm(r) \/ Fail(r)
  BY DEF Answers
<1>2. /\ UNCHANGED <<entry, errors, deaths>> /\ r \in inFlight /\ inFlight' = inFlight \ {r}
      /\ at.pc = "idle" /\ Ready(r)
  BY <1>1 DEF Confirm, Fail, faults, IInv, HeldOnce, Ready
<1>3. /\ at'.pc \in {"flags", "mark"} /\ Current' = r
      /\ \A s \in Replies \ {r} : carried'[s] = carried[s]
      /\ at'.pc = "flags" => carried'[r] = carried[r] + 1
      /\ at'.pc = "mark" => carried'[r] = carried[r]
  BY <1>1, RecordingDoes DEF Confirm, Fail, Current, IInv, TypeOK
<1>4. carried[r] \in Nat /\ errors \in Nat /\ deaths \in Nat
  BY DEF IInv, TypeOK
<1>5. HeldOnce'
  BY <1>2, <1>3 DEF IInv, HeldOnce, Ready, Handling, Current
<1>6. Claimed'
  <2>1. at'.pc = "flags" => carried'[r] > 0
    BY <1>3, <1>4
  <2> QED BY <1>2, <1>3, <2>1 DEF Claimed, Ready, Handling
<1>7. Unfinished'
  BY <1>2, <1>3 DEF IInv, Unfinished, Ready
<1>8. ASSUME NEW s \in Replies PROVE PaidFor(s)'
  <2>1. CASE s = r
    <3>1. Open(r) /\ (at'.pc = "flags" => ~Open(r)')
      BY <1>2, <1>3 DEF Open, Spent
    <3>2. carried[r] <= errors + deaths
      BY <3>1 DEF IInv, Paid, PaidFor
    <3> QED BY <2>1, <1>2, <1>3, <1>4, <3>1, <3>2 DEF PaidFor
  <2>2. CASE s # r
    <3>1. Open(s)' => Open(s)
      BY <2>2, <1>2, <1>3 DEF Open, Spent, Pending
    <3> QED BY <2>2, <1>2, <1>3, <3>1 DEF IInv, Paid, PaidFor
  <2> QED BY <2>1, <2>2
<1> QED BY <1>5, <1>6, <1>7, <1>8 DEF Kept, Paid

LEMMA DeathKeeps == IInv /\ Dies => Kept'
<1> SUFFICES ASSUME IInv, Dies PROVE Kept'
  OBVIOUS
<1>1. PICK out \in SUBSET inFlight :
         carried' = [r \in Replies |-> carried[r] + IF r \in out THEN 1 ELSE 0]
  BY DEF Dies
<1>2. UNCHANGED <<entry, errors>> /\ deaths' = deaths + 1 /\ inFlight' = {} /\ at'.pc = "idle"
  BY IdleDoes DEF Dies
<1>3. HeldOnce' /\ Claimed'
  BY <1>2 DEF HeldOnce, Claimed, Handling
<1>4. Unfinished'
  BY <1>1, <1>2 DEF IInv, Unfinished, HeldOnce, TypeOK
<1>5. ASSUME NEW s \in Replies PROVE PaidFor(s)'
  <2>1. carried[s] \in Nat /\ errors \in Nat /\ deaths \in Nat
    BY DEF IInv, TypeOK
  <2>2. PaidFor(s) /\ (s \in out => Open(s))
    BY DEF IInv, Paid, Open, Spent, HeldOnce, Current, Handling
  <2>3. carried'[s] \in Nat /\ carried'[s] <= 1 + errors + deaths
    BY <1>1, <2>1, <2>2 DEF PaidFor
  <2> QED BY <1>2, <2>1, <2>3, <2>2 DEF PaidFor
<1> QED BY <1>3, <1>4, <1>5 DEF Kept, Paid

LEMMA StutterKeeps == IInv /\ UNCHANGED vars => Kept'
<1> SUFFICES ASSUME IInv, UNCHANGED vars PROVE Kept'
  OBVIOUS
<1>1. UNCHANGED <<entry, at, inFlight, carried, errors, deaths>>
  BY DEF vars, faults
<1>2. HeldOnce' /\ Claimed' /\ Unfinished'
  BY <1>1 DEF IInv, HeldOnce, Claimed, Unfinished, Current
<1>3. \A s \in Replies : Open(s)' <=> Open(s)
  BY <1>1 DEF Open, Spent, Pending, Current
<1> QED BY <1>1, <1>2, <1>3 DEF IInv, Kept, Paid, PaidFor

LEMMA NextKeeps == IInv /\ [Next]_vars => IInv'
<1>1. IInv /\ [Next]_vars => Kept'
  BY MessagingKeeps, LookingKeeps, SendKeeps, FlagsKeeps, RecordKeeps, AnswersKeep,
     DeathKeeps, StutterKeeps, Zenon DEF Next, Working
<1> QED BY <1>1, TypeNext DEF IInv, Kept

LEMMA InvariantHolds == Spec => []IInv
  BY InitKept, NextKeeps, PTL DEF Spec

\* What is with the service was finished in this account and is recorded nowhere, and no
\* reply is with the service and in the bridge's own hands at once.
THEOREM HoldingIsExclusive == Spec => []HeldOnce
  BY InvariantHolds, PTL DEF IInv

\* However many replies, errors and deaths: a reply goes out once, and once more for each
\* fault at most.
THEOREM SecondSendingsArePaidFor == Spec => []TwicePaidFor
<1>1. IInv => TwicePaidFor
  BY DEF IInv, Paid, PaidFor, TwicePaidFor
<1> QED BY <1>1, InvariantHolds, PTL
-----------------------------------------------------------------------------
\* The refinement

ShownFields(r) ==
    /\ entry[r].folder = "none" => Shown(r) = "nowhere"
    /\ entry[r].folder = "gone" => Shown(r) = "deleted"
    /\ entry[r].folder = "sent" => Shown(r) = "sent"
    /\ entry[r].folder \in Watched =>
          /\ entry[r].failed => Shown(r) = "failed"
          /\ ~entry[r].failed /\ entry[r].published /\ r \notin Foreign => Shown(r) = "waiting"
          /\ ~entry[r].failed /\ (~entry[r].published \/ r \in Foreign) => Shown(r) = "draft"

LEMMA ShownDoes == TypeOK => \A r \in Replies : ShownFields(r)
  BY DEF TypeOK, Shown, ShownFields, Watched

LEMMA ShownDoesNext == TypeOK' => \A r \in Replies : ShownFields(r)'
  BY DEF TypeOK, Shown, ShownFields, Watched

\* one entry changes, and no sending is counted
LEMMA BecomesDoes ==
    ASSUME NEW r \in Replies, \A s \in Replies \ {r} : entry'[s] = entry[s], NEW from,
           Shown(r) \in from, carried' = carried
    PROVE  Promise!Becomes(r, from, Shown(r)') /\ UNCHANGED carried
<1>1. \A s \in Replies \ {r} : Shown(s)' = Shown(s)
  BY DEF Shown
<1> QED BY <1>1 DEF Promise!Becomes

\* no entry changes
LEMMA CarryDoes ==
    ASSUME entry' = entry, NEW out \in SUBSET Replies,
           \A r \in out : Shown(r) \in {"waiting", "deleted"},
           carried' = [r \in Replies |-> carried[r] + IF r \in out THEN 1 ELSE 0]
    PROVE  Promise!Carry(out)
<1>1. \A r \in Replies : Shown(r)' = Shown(r)
  BY DEF Shown
<1> QED BY <1>1 DEF Promise!Carry

LEMMA CarryOneDoes ==
    ASSUME IInv, entry' = entry, NEW r \in Replies, Ready(r),
           carried' = [carried EXCEPT ![r] = @ + 1]
    PROVE  Promise!ONext
<1>1. carried' = [s \in Replies |-> carried[s] + IF s \in {r} THEN 1 ELSE 0]
  <2>1. carried \in [Replies -> Nat]
    BY DEF IInv, TypeOK
  <2>2. \A s \in Replies : carried[s] + 0 = carried[s]
    BY <2>1
  <2> QED BY <2>1, <2>2
<1>2. Shown(r) \in {"waiting", "deleted"}
  BY ShownDoes DEF IInv, ShownFields, Ready
<1>3. Promise!Carry({r})
  BY <1>1, <1>2, CarryDoes
<1> QED BY <1>3 DEF Promise!ONext

LEMMA SteadyStutters ==
    ASSUME UNCHANGED <<entry, carried>>
    PROVE  UNCHANGED Promise!ovars
<1>1. \A r \in Replies : Shown(r)' = Shown(r)
  BY DEF Shown
<1> QED BY <1>1 DEF Promise!ovars

LEMMA InitRefines == Init => Promise!OInit
<1> SUFFICES ASSUME Init PROVE Promise!OInit
  OBVIOUS
<1>1. \A r \in Replies : /\ entry[r].folder \in {"none", "drafts"} /\ ~entry[r].failed
                         /\ entry[r].folder = "drafts" => r \in Foreign
  BY DEF Init
<1>2. \A r \in Replies : Shown(r) \in {"nowhere", "draft"}
  <2>1. Init => TypeOK
    BY TypeInit
  <2>2. \A r \in Replies : ShownFields(r)
    BY <2>1, ShownDoes
  <2> QED BY <1>1, <2>2 DEF ShownFields, Watched
<1> QED BY <1>2 DEF Promise!OInit, Init

LEMMA MessagingRefines == IInv /\ IInv' /\ Messaging => Promise!ONext
<1> SUFFICES ASSUME IInv, IInv', Messaging PROVE Promise!ONext
  OBVIOUS
<1>1. PICK r \in Replies \ Foreign :
         (\E folder \in Watched : Compose(r, folder)) \/ Publish(r) \/ Delete(r)
  BY DEF Messaging
<1>2. carried' = carried /\ ShownFields(r) /\ ShownFields(r)'
  BY <1>1, ShownDoes, ShownDoesNext DEF Compose, Publish, Delete, IInv
<1>3. ~entry[r].published => ~entry[r].failed
  BY DEF IInv, Unfinished
<1>4. CASE \E folder \in Watched : Compose(r, folder)
  <2>1. /\ entry[r].folder = "none" /\ entry'[r].folder \in Watched
        /\ \A s \in Replies \ {r} : entry'[s] = entry[s]
        /\ entry'[r].published = entry[r].published /\ entry'[r].failed = entry[r].failed
        /\ ~entry[r].published
    BY <1>4, ComposeDoes DEF IInv, Changes, Compose, Unfinished
  <2>2. Shown(r) = "nowhere" /\ Shown(r)' = "draft"
    BY <1>2, <1>3, <2>1 DEF ShownFields
  <2>3. Promise!Write(r)
    BY <1>2, <2>1, <2>2, BecomesDoes DEF Promise!Write
  <2> QED BY <2>3 DEF Promise!ONext
<1>5. CASE Publish(r)
  <2>1. /\ ~entry[r].published /\ entry'[r].folder = entry[r].folder
        /\ \A s \in Replies \ {r} : entry'[s] = entry[s]
        /\ entry'[r].published /\ entry'[r].failed = entry[r].failed
        /\ entry[r].folder \in Watched
    BY <1>5, PublishDoes DEF IInv, Changes, Publish
  <2>2. Shown(r) = "draft" /\ Shown(r)' = "waiting"
    BY <1>2, <1>3, <2>1 DEF ShownFields
  <2>3. Promise!Finish(r)
    BY <1>2, <2>1, <2>2, BecomesDoes DEF Promise!Finish
  <2> QED BY <2>3 DEF Promise!ONext
<1>6. CASE Delete(r)
  <2>1. /\ entry[r].folder \in Watched /\ entry'[r].folder = "gone"
        /\ \A s \in Replies \ {r} : entry'[s] = entry[s]
    BY <1>6, DeleteDoes DEF IInv, Changes, Delete
  <2>2. Shown(r) \in {"draft", "waiting", "sent", "failed"} /\ Shown(r)' = "deleted"
    BY <1>2, <2>1 DEF ShownFields
  <2>3. Promise!Delete(r)
    BY <1>2, <2>1, <2>2, BecomesDoes DEF Promise!Delete
  <2> QED BY <2>3 DEF Promise!ONext
<1> QED BY <1>1, <1>4, <1>5, <1>6

LEMMA RecordRefines ==
    IInv /\ IInv' /\ (Move \/ MarkFailed) => Promise!ONext \/ UNCHANGED Promise!ovars
<1> SUFFICES ASSUME IInv, IInv', Move \/ MarkFailed
             PROVE  Promise!ONext \/ UNCHANGED Promise!ovars
  OBVIOUS
<1>1. Current \in Replies /\ Ready(Current) /\ carried' = carried
  BY CurrentIsReply DEF Move, MarkFailed, IInv, Handling, Claimed, Ready
<1>2. PICK r \in Replies : r = Current
  BY <1>1
<1>3. ShownFields(r) /\ ShownFields(r)'
  BY ShownDoes, ShownDoesNext DEF IInv
<1>4. CASE Exists(r) /\ Move /\ entry' = [entry EXCEPT ![r].folder = "sent"]
  <2>1. /\ entry[r].folder \in Watched /\ entry'[r].folder = "sent" /\ carried[r] > 0
        /\ \A s \in Replies \ {r} : entry'[s] = entry[s]
    BY <1>1, <1>2, <1>4, MoveDoes DEF IInv, Changes, Ready, Exists, Watched, Claimed, Move
  <2>2. Shown(r) = "waiting" /\ Shown(r)' = "sent"
    BY <1>1, <1>2, <1>3, <2>1 DEF ShownFields, Ready
  <2>3. Promise!Sent(r)
    BY <1>1, <2>1, <2>2, BecomesDoes DEF Promise!Sent
  <2> QED BY <2>3 DEF Promise!ONext
<1>5. CASE Exists(r) /\ MarkFailed /\ entry' = [entry EXCEPT ![r].failed = TRUE]
  <2>1. /\ entry[r].folder \in Watched /\ entry'[r].folder = entry[r].folder
        /\ entry'[r].failed /\ \A s \in Replies \ {r} : entry'[s] = entry[s]
    BY <1>1, <1>2, <1>5, MarkDoes DEF IInv, Changes, Ready, Exists, Watched
  <2>2. Shown(r) = "waiting" /\ Shown(r)' = "failed"
    BY <1>1, <1>2, <1>3, <2>1 DEF ShownFields, Ready
  <2>3. Promise!Failed(r)
    BY <1>1, <2>1, <2>2, BecomesDoes DEF Promise!Failed
  <2> QED BY <2>3 DEF Promise!ONext
<1>6. CASE entry' = entry
  BY <1>1, <1>6, SteadyStutters
<1> QED BY <1>2, <1>4, <1>5, <1>6, Zenon DEF Move, MarkFailed, Current

LEMMA NextRefines == IInv /\ IInv' /\ [Next]_vars => [Promise!ONext]_(Promise!ovars)
<1> SUFFICES ASSUME IInv, IInv', [Next]_vars
             PROVE  Promise!ONext \/ UNCHANGED Promise!ovars
  OBVIOUS
<1>1. CASE PollBegins \/ List \/ Look \/ Flags \/ UNCHANGED vars
  BY <1>1, SteadyStutters DEF PollBegins, List, Look, Flags, vars
<1>2. CASE Send
  <2>1. Current \in Replies /\ Ready(Current) /\ entry' = entry
    BY <1>2, CurrentIsReply DEF Send, IInv, Handling, Claimed, Ready
  <2>2. carried' = carried \/ carried' = [carried EXCEPT ![Current] = @ + 1]
    BY <1>2 DEF Send, Current
  <2> QED BY <2>1, <2>2, CarryOneDoes, SteadyStutters
<1>3. CASE Answers
  <2>1. PICK r \in Replies : Confirm(r) \/ Fail(r)
    BY <1>3 DEF Answers
  <2>2. Ready(r) /\ entry' = entry
    BY <2>1 DEF Confirm, Fail, IInv, HeldOnce, Ready
  <2>3. carried' = carried \/ carried' = [carried EXCEPT ![r] = @ + 1]
    BY <2>1 DEF Confirm, Fail
  <2> QED BY <2>2, <2>3, CarryOneDoes, SteadyStutters
<1>4. CASE Dies
  <2>1. PICK out \in SUBSET inFlight :
           carried' = [r \in Replies |-> carried[r] + IF r \in out THEN 1 ELSE 0]
    BY <1>4 DEF Dies
  <2>2. entry' = entry /\ out \in SUBSET Replies
    BY <1>4 DEF Dies, IInv, TypeOK
  <2>3. \A r \in out : Shown(r) \in {"waiting", "deleted"}
    BY <2>2, ShownDoes DEF IInv, HeldOnce, ShownFields
  <2>4. Promise!Carry(out)
    BY <2>1, <2>2, <2>3, CarryDoes
  <2> QED BY <2>2, <2>4 DEF Promise!ONext
<1> QED
  BY <1>1, <1>2, <1>3, <1>4, MessagingRefines, RecordRefines, Zenon DEF Next, Working

\* The bridge implements Outbox: what a user finished in this account goes out or is marked,
\* what shows as sent was carried, and nothing else ever goes out.
THEOREM BridgeKeepsPromise == Spec => KeepsPromise
  BY InitRefines, NextRefines, InvariantHolds, PTL DEF Spec, KeepsPromise, Promise!OSpec
=============================================================================
