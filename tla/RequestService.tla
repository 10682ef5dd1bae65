--------------------------- MODULE RequestService ---------------------------
(***************************************************************************)
(* What RFIT promises its clients: a request that was made is handed to    *)
(* its function once, and its I is deleted once, after that.               *)
(***************************************************************************)
EXTENDS Naturals

CONSTANTS Request, Function, None
VARIABLES target, served, deleted

svars == <<target, served, deleted>>

ServiceInit ==
  /\ target = [i \in Request |-> None]
  /\ served = [i \in Request |-> 0]
  /\ deleted = [i \in Request |-> 0]

Submit(i, f) ==
  /\ target[i] = None
  /\ target' = [target EXCEPT ![i] = f]
  /\ UNCHANGED <<served, deleted>>

Serve(i) ==
  /\ target[i] # None /\ served[i] = 0
  /\ served' = [served EXCEPT ![i] = 1]
  /\ UNCHANGED <<target, deleted>>

Delete(i) ==
  /\ served[i] = 1 /\ deleted[i] = 0
  /\ deleted' = [deleted EXCEPT ![i] = 1]
  /\ UNCHANGED <<target, served>>

ServiceNext ==
  \E i \in Request : (\E f \in Function : Submit(i, f)) \/ Serve(i) \/ Delete(i)

ServiceSpec == ServiceInit /\ [][ServiceNext]_svars
=============================================================================
