--------------------------- MODULE MCStateMaster ---------------------------
(* StateMaster for the model checker: two hosts with a thread each, and    *)
(* the server threads that serve them.                                     *)
EXTENDS StateMaster

CONSTANTS h1, h2, t1, t2

OneEach == [t \in Thread |-> IF t = t1 THEN h1 ELSE h2]
=============================================================================
