-------------------------- MODULE SupervisorHistory --------------------------
(***************************************************************************)
(* Supervisor with history variables for what its documentation says of    *)
(* several polls together:                                                 *)
(*   sinceGrant[i]  time since a death of entry i was last answered by a   *)
(*                  restart (up to EntryBackoffMax)                        *)
(*   due[i]         the least that has to pass before the next one: 0 at   *)
(*                  first, then base, 2 base, 4 base ... up to the maximum *)
(* They only watch: a step of the supervisor never depends on them.        *)
(***************************************************************************)
EXTENDS Supervisor

VARIABLES sinceGrant, due
hvars == <<vars, sinceGrant, due>>

Granted(i) == slot'[i].restarts > slot[i].restarts

HInit == /\ Init
         /\ sinceGrant = [i \in Slots |-> EntryBackoffMax]
         /\ due = [i \in Slots |-> 0]

Doubled(n) == IF n = 0 THEN EntryBackoffBase ELSE CapAt(2 * n, EntryBackoffMax)

\* the time that passed is what the slots aged by, so it is chosen with them
Watch(d) ==
    /\ sinceGrant' = [i \in Slots |-> IF Granted(i) THEN 0
                                      ELSE CapAt(sinceGrant[i] + d, EntryBackoffMax)]
    /\ due' = [i \in Slots |-> IF Granted(i) THEN Doubled(due[i]) ELSE due[i]]

HNext == \/ Step /\ Watch(0)
         \/ (\E ok \in BOOLEAN : NoteLaunch(ok)) /\ Watch(0)
         \/ (PersistDisarm \/ WriteStatus) /\ Watch(0)
         \/ \E d \in 0..(MaxWait + Lateness) :
               d <= action.ms + Lateness /\ TimerFires(d) /\ Watch(d)

HSpec == HInit /\ [][HNext]_hvars
\* The daemon's process runs until it exits, and its timer always fires.
HFairSpec == HSpec /\ WF_hvars(HNext)

-----------------------------------------------------------------------------
\* An entry that keeps dying comes back at base, 2 base, 4 base ... and never sooner,
\* whatever the polls, the installer and other entries do in between.
GrantsAreSpaced ==
    [][\A i \in Slots : Granted(i) => sinceGrant[i] >= due[i]]_hvars
==============================================================================
