------------------------------- MODULE MCRFIT -------------------------------
(* RFIT for the model checker: the functions of each run, and symmetry.    *)
EXTENDS RFIT, TLC

CONSTANTS f1, f2, r1, r2

(* One concurrent F beside one that is not, on the same R. *)
MixedLimit == (f1 :> 2) @@ (f2 :> 1)
Limit4 == (f1 :> 4)
OneR == (f1 :> r1)
SameR == (f1 :> r1) @@ (f2 :> r1)
TwoR == (f1 :> r1) @@ (f2 :> r2)

(* restCap is whatever the memory held (0 is what run conc starts from). *)
Garbage == {-1, 1}

(* Fresh picks among Inst and Task, so only the malloced addresses of an   *)
(* FCGI run are interchangeable.                                           *)
Symmetric == Permutations(Addr)
=============================================================================
