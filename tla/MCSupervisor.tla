---------------------------- MODULE MCSupervisor ----------------------------
(***************************************************************************)
(* Small boot lists for TLC: what a configuration exercises is in its name.*)
(***************************************************************************)
EXTENDS Supervisor

TwoSlots == [policy |-> <<Always, Always>>, enabled |-> {1, 2}, refused |-> {},
             critical |-> {}, maxRestarts |-> 1, firstDelay |-> 1, delay |-> <<0, 1>>]

\* an ordinary entry that burns the ceiling, ahead of the home screen
FlapperAndHome == [TwoSlots EXCEPT !.critical = {2}]
\* two budgets of their own, and a ceiling neither reaches
Budgeted == [TwoSlots EXCEPT !.policy = <<Times(1), Times(1)>>, !.maxRestarts = 2]
\* Never, which is never disarmed, beside an entry that is
NeverAndTimes == [TwoSlots EXCEPT !.policy = <<Never, Times(1)>>]
\* the boot manager itself in the list, which is refused, and a disabled entry
RefusedAndOff == [TwoSlots EXCEPT !.refused = {1}, !.enabled = {1}]

AllConfigs == {FlapperAndHome, Budgeted, NeverAndTimes, RefusedAndOff}
=============================================================================
