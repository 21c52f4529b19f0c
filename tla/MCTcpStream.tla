---------------------------- MODULE MCTcpStream ----------------------------
(* What goes over two streams, that are open at once or one after the other  *)
(* in the same slot: much over the first, much over the second, or a byte of *)
(* each, where what comes in for one may meet what is of the other.          *)
EXTENDS TcpStream

Early == [in |-> <<3,0>>, out |-> <<2,0>>]
Late == [in |-> <<0,2>>, out |-> <<0,2>>]
BothReceive == [in |-> <<1,1>>, out |-> <<1,0>>]
BothSend == [in |-> <<0,1>>, out |-> <<1,1>>]
Cases == {Early, Late, BothReceive, BothSend}
=============================================================================
