------------------------- MODULE MCSupervisorHistory -------------------------
(***************************************************************************)
(* Boot lists for the questions about what happens in the long run.        *)
(***************************************************************************)
EXTENDS SupervisorHistory

\* an ordinary entry that the ceiling lets restart once
Flapper == [policy |-> <<Always, Never>>, enabled |-> {1}, refused |-> {2},
            critical |-> {}, maxRestarts |-> 1, firstDelay |-> 1, delay |-> <<0, 1>>]
\* one home screen, which may be restarted without limit, up to CountMax
Home == [Flapper EXCEPT !.critical = {1}]
\* beside one that is launched once; restarted only while it has never come up
BesideNever == [Flapper EXCEPT !.enabled = {1, 2}, !.refused = {}, !.maxRestarts = 0]
FairConfigs == {Flapper, Home, BesideNever}
==============================================================================
