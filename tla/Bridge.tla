------------------------------- MODULE Bridge -------------------------------
(***************************************************************************)
(* The messaging bridge of crates/symbian-mtm/src/lib.rs: a daemon that    *)
(* finds the replies the user wrote in the Messaging application, hands    *)
(* each to its service, and records in the message store what became of    *)
(* it. The Messaging application is another process: it writes, publishes  *)
(* and deletes entries between any two calls of the daemon to the store.   *)
(*                                                                         *)
(* Every call to the store is a step, and may fail. The daemon may die     *)
(* between two of them; then what it knew of replies in flight is gone,    *)
(* and the store is all there is.                                          *)
(*                                                                         *)
(* poll may begin at any time, for it is called on a timer; handle_raw and *)
(* rescan_owed only make it begin sooner and are left out. A token stands  *)
(* for one reply, so in_flight is a set of replies. The replies of another *)
(* account wait in the drafts from the start and for ever: the daemon of   *)
(* that account is left out.                                               *)
(*                                                                         *)
(* Bounds: MaxErrors store errors, MaxDeaths deaths.                       *)
(***************************************************************************)
EXTENDS Integers, SequencesExt

CONSTANTS Replies,              \* their ids
          Foreign,              \* those of another account
          MaxErrors, MaxDeaths

ASSUME RepliesAssumption == IsFiniteSet(Replies) /\ Foreign \subseteq Replies
ASSUME FaultsAssumption == MaxErrors \in Nat /\ MaxDeaths \in Nat

VARIABLES
    entry,      \* [Replies -> the entry in the store: its folder; published, for complete,
                \*  visible and not in preparation; failed]
    at,         \* where poll, confirm or fail is: pc, folders and ids still to visit
    inFlight,   \* Bridge.in_flight
    carried,    \* [Replies -> how often the service carried it out]
    errors, deaths

faults == <<errors, deaths>>
vars == <<entry, at, inFlight, carried, faults>>

Watched == {"drafts", "outbox"}
Idle == [pc |-> "idle", folders |-> <<>>, todo |-> <<>>]

Init ==
    /\ entry = [r \in Replies |-> [folder |-> IF r \in Foreign THEN "drafts" ELSE "none",
                                   published |-> r \in Foreign, failed |-> FALSE]]
    /\ at = Idle
    /\ inFlight = {}
    /\ carried = [r \in Replies |-> 0]
    /\ errors = 0 /\ deaths = 0

Exists(r) == entry[r].folder \in Watched \cup {"sent"}
-----------------------------------------------------------------------------
(* The Messaging application: ReplyL, and the user's deletions *)

Compose(r, folder) ==
    /\ entry[r].folder = "none"
    /\ entry' = [entry EXCEPT ![r].folder = folder]
    /\ UNCHANGED <<at, inFlight, carried, faults>>

\* the ChangeL after the body is committed
Publish(r) ==
    /\ entry[r].folder \in Watched /\ ~entry[r].published
    /\ entry' = [entry EXCEPT ![r].published = TRUE]
    /\ UNCHANGED <<at, inFlight, carried, faults>>

\* a reply abandoned in its dialog, or an entry the user throws away; what he does with one
\* in the sent folder, which the bridge never visits, is left out
Delete(r) ==
    /\ entry[r].folder \in Watched
    /\ entry' = [entry EXCEPT ![r].folder = "gone"]
    /\ UNCHANGED <<at, inFlight, carried, faults>>

Messaging == \E r \in Replies \ Foreign :
    (\E folder \in Watched : Compose(r, folder)) \/ Publish(r) \/ Delete(r)
-----------------------------------------------------------------------------
(* poll *)

\* is_pending: a finished reply of this account, not yet refused
PendingMutant(r) == /\ entry[r].folder \in Watched /\ r \notin Foreign /\ ~entry[r].failed
Pending(r) == /\ entry[r].folder \in Watched /\ r \notin Foreign
              /\ entry[r].published /\ ~entry[r].failed

\* newest first, by dates that are set anew on publishing by a clock the user may set: in
\* any order
Children(folder) == SetToSeqs({r \in Replies : entry[r].folder = folder})

\* what an error does: poll, confirm and fail all return it at once
Left == at' = Idle
StoreFails == errors < MaxErrors /\ errors' = errors + 1 /\ UNCHANGED deaths

PollBegins ==
    /\ at.pc = "idle"
    /\ at' = [pc |-> "list", folders |-> <<"drafts", "outbox">>, todo |-> <<>>]
    /\ UNCHANGED <<entry, inFlight, carried, faults>>

List ==
    /\ at.pc = "list"
    /\ IF at.folders = <<>> THEN Left /\ UNCHANGED faults
       ELSE \/ /\ \E children \in Children(Head(at.folders)) :
                    at' = [pc |-> "look", folders |-> Tail(at.folders), todo |-> children]
               /\ UNCHANGED faults
            \/ StoreFails /\ Left
    /\ UNCHANGED <<entry, inFlight, carried>>

\* to the next id of the listing, or to the next folder
Onward(todo) == [at EXCEPT !.todo = todo, !.pc = IF todo = <<>> THEN "list" ELSE "look"]

\* an id in flight, and an entry that cannot be read, or is not pending, is passed over
SkipsMutant(r) == ~Pending(r)
Skips(r) == r \in inFlight \/ ~Pending(r)

Look ==
    /\ at.pc = "look"
    /\ IF at.todo = <<>> THEN at' = Onward(<<>>) /\ UNCHANGED faults
       ELSE \/ /\ at' = IF Skips(Head(at.todo)) THEN Onward(Tail(at.todo))
                        ELSE [at EXCEPT !.pc = "send"]
               /\ UNCHANGED faults
            \/ StoreFails /\ at' = Onward(Tail(at.todo))
    /\ UNCHANGED <<entry, inFlight, carried>>

\* body, then send: carried out, refused, or accepted with the answer to come
Send ==
    LET r == Head(at.todo) IN
    /\ at.pc = "send"
    /\ \/ /\ Exists(r)
          /\ \/ /\ carried' = [carried EXCEPT ![r] = @ + 1]
                /\ at' = [at EXCEPT !.pc = "flags"]
                /\ UNCHANGED inFlight
             \/ /\ at' = [at EXCEPT !.pc = "mark"]
                /\ UNCHANGED <<carried, inFlight>>
             \/ /\ inFlight' = inFlight \cup {r}
                /\ at' = Onward(Tail(at.todo))
                /\ UNCHANGED carried
          /\ UNCHANGED faults
       \/ ~Exists(r) /\ Left /\ UNCHANGED <<carried, inFlight, faults>>
       \/ StoreFails /\ Left /\ UNCHANGED <<carried, inFlight>>
    /\ UNCHANGED entry
-----------------------------------------------------------------------------
(* confirm and fail: the token is taken first *)

Confirm(r) ==
    /\ at.pc = "idle" /\ r \in inFlight
    /\ inFlight' = inFlight \ {r}
    /\ carried' = [carried EXCEPT ![r] = @ + 1]
    /\ at' = [pc |-> "flags", folders |-> <<>>, todo |-> <<r>>]
    /\ UNCHANGED <<entry, faults>>

Fail(r) ==
    /\ at.pc = "idle" /\ r \in inFlight
    /\ inFlight' = inFlight \ {r}
    /\ at' = [pc |-> "mark", folders |-> <<>>, todo |-> <<r>>]
    /\ UNCHANGED <<entry, carried, faults>>

\* confirm and fail have no more ids, and so no more folders: they end where poll ends
RecordedMutant == at' = [at EXCEPT !.todo = Tail(@)]
Recorded == at' = Onward(Tail(at.todo))

\* finish: stop it looking unread, then move it
Flags ==
    /\ at.pc = "flags"
    /\ \/ Exists(Head(at.todo)) /\ at' = [at EXCEPT !.pc = "move"] /\ UNCHANGED faults
       \/ ~Exists(Head(at.todo)) /\ Left /\ UNCHANGED faults
       \/ StoreFails /\ Left
    /\ UNCHANGED <<entry, inFlight, carried>>

MoveMutant ==
    LET r == Head(at.todo) IN
    /\ at.pc = "move"
    /\ \/ Exists(r) /\ entry' = [entry EXCEPT ![r].folder = "outbox"] /\ Recorded /\ UNCHANGED faults
       \/ ~Exists(r) /\ Left /\ UNCHANGED <<entry, faults>>
       \/ StoreFails /\ Left /\ UNCHANGED entry
    /\ UNCHANGED <<inFlight, carried>>
Move ==
    LET r == Head(at.todo) IN
    /\ at.pc = "move"
    /\ \/ Exists(r) /\ entry' = [entry EXCEPT ![r].folder = "sent"] /\ Recorded /\ UNCHANGED faults
       \/ ~Exists(r) /\ Left /\ UNCHANGED <<entry, faults>>
       \/ StoreFails /\ Left /\ UNCHANGED entry
    /\ UNCHANGED <<inFlight, carried>>

MarkFailedMutant ==
    LET r == Head(at.todo) IN
    /\ at.pc = "mark"
    /\ \/ Exists(r) /\ entry' = [entry EXCEPT ![r].failed = FALSE] /\ Recorded /\ UNCHANGED faults
       \/ ~Exists(r) /\ Left /\ UNCHANGED <<entry, faults>>
       \/ StoreFails /\ Left /\ UNCHANGED entry
    /\ UNCHANGED <<inFlight, carried>>
MarkFailed ==
    LET r == Head(at.todo) IN
    /\ at.pc = "mark"
    /\ \/ Exists(r) /\ entry' = [entry EXCEPT ![r].failed = TRUE] /\ Recorded /\ UNCHANGED faults
       \/ ~Exists(r) /\ Left /\ UNCHANGED <<entry, faults>>
       \/ StoreFails /\ Left /\ UNCHANGED entry
    /\ UNCHANGED <<inFlight, carried>>

\* the daemon dies and is started again; install leaves the store as it finds it. What was
\* in flight may have gone out all the same
Dies ==
    /\ deaths < MaxDeaths
    /\ deaths' = deaths + 1
    /\ at' = Idle /\ inFlight' = {}
    /\ \E out \in SUBSET inFlight :
          carried' = [r \in Replies |-> carried[r] + IF r \in out THEN 1 ELSE 0]
    /\ UNCHANGED <<entry, errors>>

Working == List \/ Look \/ Send \/ Flags \/ Move \/ MarkFailed
Answers == \E r \in Replies : Confirm(r) \/ Fail(r)

Next == Messaging \/ PollBegins \/ Working \/ Answers \/ Dies

Spec == Init /\ [][Next]_vars

\* the timer comes back, a call goes on, and the service answers what it has accepted
FairSpec ==
    /\ Spec /\ WF_vars(PollBegins) /\ WF_vars(Working)
    /\ \A r \in Replies : SF_vars(Confirm(r) \/ Fail(r))
-----------------------------------------------------------------------------
(* Properties *)

\* where one reply, the first still to visit, is being handed over or recorded
Handling == {"send", "flags", "move", "mark"}

TypeOK ==
    /\ entry \in [Replies -> [folder : Watched \cup {"none", "sent", "gone"},
                              published : BOOLEAN, failed : BOOLEAN]]
    /\ at \in [pc : {"idle", "list", "look"} \cup Handling,
               folders : Seq(Watched), todo : Seq(Replies)]
    /\ at.pc \in Handling => at.todo # <<>>
    /\ inFlight \subseteq Replies
    /\ carried \in [Replies -> Nat]
    /\ errors \in 0..MaxErrors /\ deaths \in 0..MaxDeaths

\* What is with the service is a finished reply of this account that nothing has recorded
\* yet, and it is never at the same time the one a poll is handing over or recording: a
\* confirm and a poll that both held it would send or move it twice (poll's in_flight test,
\* take_in_flight before finish).
HeldOnce ==
    /\ \A r \in inFlight : r \notin Foreign /\ entry[r].published /\ ~entry[r].failed
                           /\ entry[r].folder \in Watched \cup {"gone"}
    /\ at.pc \in Handling => Head(at.todo) \notin inFlight

\* Each sending of a reply after the first is paid for by a store error or a death of the
\* daemon: whatever is polled, queued, answered and deleted in between, a bridge that meets
\* no fault sends a reply once (finish: "the failure mode of forgetting is sending the
\* user's message a second time").
TwicePaidFor == \A r \in Replies : carried[r] <= 1 + errors + deaths

\* What the user sees of the replies. One that is unfinished, or of another account, is a draft
Shown(r) ==
    IF entry[r].folder \notin Watched
    THEN [none |-> "nowhere", sent |-> "sent", gone |-> "deleted"][entry[r].folder]
    ELSE IF entry[r].failed THEN "failed"
    ELSE IF entry[r].published /\ r \notin Foreign THEN "waiting" ELSE "draft"

Promise == INSTANCE Outbox WITH shown <- [r \in Replies |-> Shown(r)]

\* The bridge keeps the promise of Outbox: only what was finished in this account goes out,
\* what shows as sent was carried, and a sent or failed reply stays so.
KeepsPromise == Promise!OSpec

\* A finished reply is recorded as sent or failed, or the user deletes it: no death, error
\* or answer in between leaves it waiting for ever, neither in the store nor in in_flight.
EveryReplyEnds == \A r \in Replies \ Foreign : (Pending(r) ~> ~Pending(r))
=============================================================================
