------------------------------ MODULE SavedFile ------------------------------
(***************************************************************************)
(* What a file that is replaced whole, and taken by a reader, owes to both *)
(* sides: it holds something that was asked for, complete, each at most    *)
(* once; it is missing only through someone at work on it; and each of its *)
(* contents is handed to the reader's caller once, whole.                  *)
(*                                                                         *)
(* Two faults are written into it. Saves that cross may leave a part of a  *)
(* file; and contents that were still there after the reader had removed   *)
(* them are handed out again, once for each time.                          *)
(***************************************************************************)
EXTENDS Naturals

CONSTANTS Values, Nothing, Partial

VARIABLES
    content,    \* of the file, or Nothing
    asked,      \* the values somebody set out to save
    put,        \* what the file has held
    given,      \* [what it may hold -> how often the reader's caller got it]
    kept,       \* [what it may hold -> how often it outlived its removal]
    atWork,     \* a save or a take is between two calls that change the file
    crossing    \* a save is under way that another one has met

fvars == <<content, asked, put, given, kept, atWork, crossing>>

Holdable == Values \cup {Partial}

FInit == /\ content = Nothing
         /\ asked = {} /\ put = {}
         /\ given = [v \in Holdable |-> 0] /\ kept = [v \in Holdable |-> 0]
         /\ ~atWork /\ ~crossing

Ask(v) == v \notin asked /\ asked' = asked \cup {v} /\ UNCHANGED <<content, put, given, kept>>

Put(v) == /\ atWork
          /\ v \in asked \ put \/ (v = Partial /\ crossing)
          /\ content' = v /\ put' = put \cup {v}
          /\ UNCHANGED <<asked, given, kept>>

Vanish == /\ atWork /\ content' = Nothing
          /\ UNCHANGED <<asked, put, given, kept>>

\* the removal failed
Keep(v) == /\ atWork /\ content = v
           /\ kept' = [kept EXCEPT ![v] = @ + 1]
           /\ UNCHANGED <<content, asked, put, given>>

\* what is given and still there has outlived a removal that nobody was given it for
Give(v) == /\ v \in put
           /\ v \in Values => given[v] <= kept[v] /\ (content = v => given[v] < kept[v])
           /\ given' = [given EXCEPT ![v] = @ + 1]
           /\ UNCHANGED <<content, asked, put, kept>>

Rest == UNCHANGED <<content, asked, put, given, kept>>

FNext == \/ \E v \in Values : Ask(v)
         \/ \E v \in Holdable : Put(v) \/ Keep(v) \/ Give(v)
         \/ Vanish
         \/ Rest

FSpec == FInit /\ [][FNext]_fvars
==============================================================================
