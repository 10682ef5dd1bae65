----------------------------- MODULE MCThreads -----------------------------
(* Threads for the model checker: a pool of two, and four kinds of         *)
(* function.                                                               *)
EXTENDS Threads

TwoStacks == <<10, 20>>
AllStyles == {{"chain", "grow"}, {"nest"}, {"mutex"}, {"abandon"}}
=============================================================================
