------------------------------ MODULE MCCalls ------------------------------
(* Calls for the model checker: what happens together in a run.            *)
EXTENDS Calls

CallStyles == {{"many", "status", "expire"}, {"chain", "output", "die"}, {"chain", "forget"}, {"status", "chain"}}
=============================================================================
