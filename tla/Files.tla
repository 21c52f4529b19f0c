-------------------------------- MODULE Files --------------------------------
(***************************************************************************)
(* How a file is replaced and taken: write_atomic of                       *)
(* crates/symbian/src/fs.rs over the calls of shim/src/shim_file.cpp, and  *)
(* take_request of crates/symbian/src/intent.rs, which reads the file and  *)
(* deletes it. Saving writes path.tmp and renames it over the path; the    *)
(* file server has no rename that replaces, so the shim deletes first.     *)
(*                                                                         *)
(* Every call to the file server is a step. Between any two of them another*)
(* process may call, the caller may die, or the power may go: the server   *)
(* closes what the dead had open and keeps the files as they are.          *)
(*                                                                         *)
(* A file is open to one process at a time (EFileShareExclusive). What was *)
(* written to a file that is closed is assumed to be on the disk. copy     *)
(* goes through the same calls, with a source to read; the table of        *)
(* handles, in which a caller has never more than two, is left out.        *)
(*                                                                         *)
(* A value stands for one posting, which is made once. The variables       *)
(* `crossed`, `asked`, `put`, `given`, `kept` and the field `over` only    *)
(* watch.                                                                  *)
(* Bound: the delete of a taker fails MaxKept times for each contents it   *)
(* had read and found still there.                                         *)
(***************************************************************************)
EXTENDS Naturals

CONSTANTS Savers,       \* processes that save to the path
          Takers,       \* processes that take from it: the launcher
          Values,       \* what is saved
          NoFile, Torn, \* no such file; one that is part-written
          NoOne,        \* nobody has the file open
          MaxKept

ASSUME DistinctAssumption == /\ NoFile \notin Values \cup {Torn} /\ Torn \notin Values
                             /\ NoOne \notin Savers \cup Takers
ASSUME TakerAssumption == \A s, t \in Takers : s = t
ASSUME KeptAssumption == MaxKept \in Nat

VARIABLES
    target, tmp,            \* the contents of path and path.tmp
    targetOpen, tmpOpen,    \* who has it open
    saver,      \* [Savers -> the last call of write_atomic that returned; the value; what
                \*  the path held at the start, or nothing once that was taken]
    taker,      \* [Takers -> the last call of take_request that returned; what it read]
    crossed,    \* savers at work that another saver has met at work
    asked,      \* what somebody set out to save
    put,        \* what the path has held
    given,      \* [Contents -> how often a taker has handed it to its caller]
    kept        \* [Contents -> how often it was still there after a taker's delete]

files == <<target, tmp, targetOpen, tmpOpen>>
watch == <<asked, put, given, kept>>
vars == <<files, saver, taker, crossed, watch>>

Contents == Values \cup {Torn}
Resting == [at |-> "idle", data |-> NoFile, over |-> NoFile]
Away == [at |-> "idle", got |-> NoFile]

Init ==
    /\ target = NoFile /\ tmp = NoFile
    /\ targetOpen = NoOne /\ tmpOpen = NoOne
    /\ saver = [p \in Savers |-> Resting]
    /\ taker = [t \in Takers |-> Away]
    /\ crossed = {} /\ asked = {} /\ put = {}
    /\ given = [v \in Contents |-> 0] /\ kept = [v \in Contents |-> 0]
------------------------------------------------------------------------------
(* write_atomic *)

Moves(p, from, to) == /\ saver[p].at = from /\ saver' = [saver EXCEPT ![p].at = to]
                      /\ UNCHANGED crossed
\* an error goes to the caller at once; the File that is dropped closes its handle
Returns(p, from) == /\ saver[p].at = from
                    /\ saver' = [saver EXCEPT ![p] = Resting]
                    /\ crossed' = crossed \ {p}
                    /\ tmpOpen' = IF tmpOpen = p THEN NoOne ELSE tmpOpen
                    /\ UNCHANGED <<target, tmp, targetOpen, put>>

Saving == {p \in Savers : saver[p].at # "idle"}
\* whoever begins while others are at work has met them, and they have met it
Met(p) == crossed \cup (IF Saving = {} THEN {} ELSE Saving \cup {p})

\* File::open of path.tmp, with OpenMode::Replace, which truncates what another saver may
\* have closed there and is about to rename
Begin(p, v) ==
    /\ saver[p].at = "idle"
    /\ v \notin asked
    /\ asked' = asked \cup {v}
    /\ \/ /\ tmpOpen = NoOne
          /\ tmp' = Torn /\ tmpOpen' = p
          /\ saver' = [saver EXCEPT ![p] = [at |-> "opened", data |-> v, over |-> target]]
          /\ crossed' = Met(p)
       \/ UNCHANGED <<tmp, tmpOpen, saver, crossed>>
    /\ UNCHANGED <<target, targetOpen, taker, put, given, kept>>

\* write_all
WriteMutant(p) ==
    /\ Moves(p, "opened", "written")
    /\ tmp' \in {saver[p].data, Torn}
    /\ UNCHANGED <<target, targetOpen, tmpOpen, taker, watch>>
Write(p) ==
    /\ \/ Moves(p, "opened", "written") /\ tmp' = saver[p].data
          /\ UNCHANGED <<target, targetOpen, tmpOpen, put>>
       \/ Returns(p, "opened")
    /\ UNCHANGED <<taker, asked, given, kept>>

\* the File goes out of scope
Close(p) ==
    /\ Moves(p, "written", "closed")
    /\ tmpOpen' = NoOne
    /\ UNCHANGED <<target, tmp, targetOpen, taker, watch>>

\* shim_file_rename: the destination goes first
DeleteTarget(p) ==
    /\ \/ /\ Moves(p, "closed", "deleted")
          /\ targetOpen = NoOne
          /\ target' = NoFile
          /\ UNCHANGED <<tmp, targetOpen, tmpOpen, put>>
       \/ Returns(p, "closed")
    /\ UNCHANGED <<taker, asked, given, kept>>

\* a target that has come back is refused by some handsets and replaced by others
Rename(p) ==
    /\ saver[p].at = "deleted"
    /\ \/ /\ tmp # NoFile /\ tmpOpen = NoOne /\ targetOpen = NoOne
          /\ target' = tmp /\ tmp' = NoFile
          /\ put' = put \cup {tmp}
          /\ saver' = [saver EXCEPT ![p] = Resting] /\ crossed' = crossed \ {p}
          /\ UNCHANGED <<targetOpen, tmpOpen>>
       \/ Returns(p, "deleted")
    /\ UNCHANGED <<taker, asked, given, kept>>
------------------------------------------------------------------------------
(* take_request *)

\* read: a file that is not there, or that another has open, is nothing to take
ReadableMutant == targetOpen = NoOne
Readable == target # NoFile /\ targetOpen = NoOne
Look(t) ==
    /\ taker[t].at = "idle" /\ Readable
    /\ targetOpen' = t
    /\ taker' = [taker EXCEPT ![t].at = "reading"]
    /\ UNCHANGED <<target, tmp, tmpOpen, saver, crossed, watch>>

Read(t) ==
    /\ taker[t].at = "reading"
    /\ targetOpen' = NoOne
    /\ \/ taker' = [taker EXCEPT ![t] = [at |-> "read", got |-> target]]
       \/ taker' = [taker EXCEPT ![t] = Away]
    /\ UNCHANGED <<target, tmp, tmpOpen, saver, crossed, watch>>

\* whatever is there by now is deleted; whether that went well is not asked, and where it
\* did not the request is handed out and stays
Remove(t) ==
    /\ taker[t].at = "read"
    /\ \/ /\ targetOpen = NoOne
          /\ target' = NoFile
          /\ saver' = [p \in Savers |-> IF p \in Saving THEN [saver[p] EXCEPT !.over = NoFile]
                                       ELSE saver[p]]
          /\ UNCHANGED kept
       \/ /\ IF target = taker[t].got
             THEN kept[target] < MaxKept /\ kept' = [kept EXCEPT ![target] = @ + 1]
             ELSE UNCHANGED kept
          /\ UNCHANGED <<target, saver>>
    /\ taker' = [taker EXCEPT ![t].at = "removed"]
    /\ UNCHANGED <<tmp, targetOpen, tmpOpen, crossed, asked, put, given>>

Hand(t) ==
    /\ taker[t].at = "removed"
    /\ given' = [given EXCEPT ![taker[t].got] = @ + 1]
    /\ taker' = [taker EXCEPT ![t] = Away]
    /\ UNCHANGED <<files, saver, crossed, asked, put, kept>>
------------------------------------------------------------------------------
(* Processes end, and what they had open is closed *)

Ends(dead) ==
    /\ saver' = [p \in Savers |-> IF p \in dead THEN Resting ELSE saver[p]]
    /\ taker' = [t \in Takers |-> IF t \in dead THEN Away ELSE taker[t]]
    /\ tmpOpen' = IF tmpOpen \in dead THEN NoOne ELSE tmpOpen
    /\ targetOpen' = IF targetOpen \in dead THEN NoOne ELSE targetOpen
    /\ crossed' = crossed \ dead
    /\ UNCHANGED <<target, tmp, watch>>
Dies(p) == Ends({p})
PowerCut == Ends(Savers \cup Takers)

Next ==
    \/ \E p \in Savers : \/ \E v \in Values : Begin(p, v)
                         \/ Write(p) \/ Close(p) \/ DeleteTarget(p) \/ Rename(p)
    \/ \E t \in Takers : Look(t) \/ Read(t) \/ Remove(t) \/ Hand(t)
    \/ \E p \in Savers \cup Takers : Dies(p)
    \/ PowerCut

Spec == Init /\ [][Next]_vars
------------------------------------------------------------------------------
(* Properties *)

TypeOK ==
    /\ target \in Contents \cup {NoFile} /\ tmp \in Contents \cup {NoFile}
    /\ targetOpen \in Takers \cup {NoOne} /\ tmpOpen \in Savers \cup {NoOne}
    /\ saver \in [Savers -> [at : {"idle", "opened", "written", "closed", "deleted"},
                             data : Values \cup {NoFile}, over : Contents \cup {NoFile}]]
    /\ taker \in [Takers -> [at : {"idle", "reading", "read", "removed"},
                             got : Contents \cup {NoFile}]]
    /\ \A t \in Takers : taker[t].at \in {"read", "removed"} => taker[t].got # NoFile
    /\ crossed \subseteq Savers /\ asked \subseteq Values /\ put \subseteq Contents
    /\ given \in [Contents -> Nat] /\ kept \in [Contents -> 0..MaxKept]

\* The path holds a posting that is complete or nothing, whoever died or whenever the power
\* went, unless two savers were at work at once: their path.tmp is one file, and either may
\* rename what the other has half written (write_atomic: "never a mixture"). It lacks a file
\* only for a save or a take that was under way. A request is opened once, and once more for
\* each delete of take_request that failed, as its error is dropped (take_request: "the
\* request must not still be here to do it again").
AtWork == \/ \E p \in Savers : saver[p].at \in {"closed", "deleted"}
          \/ \E t \in Takers : taker[t].at = "read"
Promise == INSTANCE SavedFile WITH
    content <- target, Nothing <- NoFile, Partial <- Torn, atWork <- AtWork,
    crossing <- crossed # {}
KeepsWhole == Promise!FSpec

\* "A battery pull at any point leaves either the old contents or the new ones"
\* (fs.rs, write_atomic), when nobody takes the file meanwhile.
OldOrNew == [][PowerCut => \A p \in Savers : saver[p].at # "idle" =>
                  target' \in {saver[p].over, saver[p].data}]_vars

\* What is left of it: whenever a save that met no other is cut off, the path has the old
\* contents, as far as nobody has taken them, or path.tmp the new ones, complete.
OldOrNewSomewhere == \A p \in Saving \ crossed : target = saver[p].over \/ tmp = saver[p].data
==============================================================================
