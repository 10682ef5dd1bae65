---------------------------- MODULE MCStateValue ----------------------------
(* StateValue for the model checker: a master with one thread, and a host  *)
(* with two.                                                               *)
EXTENDS StateValue

CONSTANTS h1, h2, t1, t2, t3

HostsOfThreads == [t \in Thread |-> IF t = t1 THEN h1 ELSE h2]
Writers == [h \in Host |-> IF h = h1 THEN t1 ELSE t2]
CallBound == [s \in Styles |-> IF s = "append" THEN 3 ELSE IF s \in {"set", "offset"} THEN 1 ELSE 0]
FaultBound == [s \in Styles |-> IF s \in {"set", "ptr"} THEN 1 ELSE 0]

Apart == {1..1, 2..3}
=============================================================================
