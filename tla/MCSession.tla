------------------------------ MODULE MCSession -----------------------------
(* Session on small sets of people and of controller instances. *)
EXTENDS Session, TLC

CONSTANTS x, y, a1, a2, l1, l2

(* Instances of AuthVC and lines are interchangeable. *)
Symmetry == Permutations(AuthVCs) \cup Permutations(Lines)
=============================================================================
