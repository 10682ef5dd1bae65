------------------------- MODULE MCFaabricScheduler -------------------------
(* FaabricScheduler for the model checker: hosts, executors and batches.   *)
EXTENDS FaabricScheduler, TLC

CONSTANTS h1, h2, h3, e1, e2, e3, f1, f2, c1, c2, c3, c4

OneCore == [h \in Host |-> 1]
TwoHosts == [e \in Exec |-> IF e = e1 THEN h1 ELSE h2]
TwoOnFirst == (e1 :> h1) @@ (e2 :> h1) @@ (e3 :> h2)
SameFunc == [c \in Call |-> f1]
TwoFuncs == [c \in Call |-> IF c \in {c1, c2} THEN f1 ELSE f2]

Singles == {<<c>> : c \in Call}
OneThread == {<<c1>>}
=============================================================================
