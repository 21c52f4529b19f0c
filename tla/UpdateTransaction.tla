-------------------------- MODULE UpdateTransaction --------------------------
(***************************************************************************)
(* What an update promises, as crates/symbian-bootcfg/src/update.rs states *)
(* it in its module comment (lines 1-26): the operation on disk either     *)
(* ends with the candidate, which has run and said so, or goes back, once, *)
(* to the package that worked before; and what has ended stays ended.      *)
(*                                                                         *)
(* A promise is stated per update (Proof, lines 106-138).  `waived` says   *)
(* that this one asks for no evidence of its versions.                     *)
(***************************************************************************)
CONSTANTS Versions,
          Unknown     \* no version

VARIABLES op,         \* how far the operation on disk has got
          ran,        \* the versions that have run since the update was armed
          wanted,     \* the candidate's version
          previous,   \* the version before it, or Unknown
          wayBack,    \* a known-good package exists
          waived

tvars == <<op, ran, wanted, previous, wayBack, waived>>
terms == <<wanted, previous, wayBack, waived>>

Ops == {"Trying", "GoingBack", "Done", "WrittenOff"}

HasRun(v) == waived \/ IF v = Unknown THEN ran # {} ELSE v \in ran

TInit ==
    /\ op = "Trying"
    /\ ran = {}
    /\ wanted \in Versions
    /\ previous \in Versions \cup {Unknown}
    /\ wayBack \in BOOLEAN
    /\ waived \in BOOLEAN

\* A version runs and says so.
Runs(v) == ran' = ran \cup {v} /\ UNCHANGED <<op, terms>>

GoBack == op = "Trying" /\ wayBack /\ op' = "GoingBack" /\ UNCHANGED <<ran, terms>>

Commit ==
    /\ \/ op = "Trying" /\ HasRun(wanted)
       \/ op = "GoingBack" /\ HasRun(previous)
    /\ op' = "Done"
    /\ UNCHANGED <<ran, terms>>

\* Nothing is left to try: the way back has been tried, or there is none.
WriteOff ==
    /\ op = "GoingBack" \/ (op = "Trying" /\ ~wayBack)
    /\ op' = "WrittenOff"
    /\ UNCHANGED <<ran, terms>>

TNext == GoBack \/ Commit \/ WriteOff \/ \E v \in Versions : Runs(v)

TSpec == TInit /\ [][TNext]_tvars
=============================================================================
