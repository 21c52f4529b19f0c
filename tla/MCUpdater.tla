----------------------------- MODULE MCUpdater -----------------------------
\* Updates to arm, for Updater: the settings of a phone that differ in what the
\* update can prove and where it can go back to.
EXTENDS Updater

Ordinary == [proof |-> "Stamp", fromKnown |-> TRUE, rebuild |-> FALSE, knownGood |-> TRUE,
             reopen |-> {1}, stamping |-> Builds]
\* installed by hand: a known-good package of unrecorded version
ByHand == [Ordinary EXCEPT !.fromKnown = FALSE]
FirstInstall == [Ordinary EXCEPT !.fromKnown = FALSE, !.knownGood = FALSE]
Rebuild == [Ordinary EXCEPT !.rebuild = TRUE]
\* the user turns reopening off and on while the update runs
Undecided == [Ordinary EXCEPT !.reopen = {NoReopen, 1}]
\* cannot report a version
Silent == [Ordinary EXCEPT !.proof = "Launch", !.stamping = {}]

AllUpdates == {Ordinary, ByHand, FirstInstall, Rebuild, Undecided, Silent}

\* the candidate dies on start, before it can stamp: one of the things an ordinary one may do
Broken == [Ordinary EXCEPT !.stamping = {"old"}]
BrokenOnly == {Broken}
=============================================================================
