------------------------------ MODULE MCTimers ------------------------------
(* A daemon that caps its sleep with deadlines now and in a while.           *)
EXTENDS Timers

CapsOfADaemon == {0, 2}
=============================================================================
