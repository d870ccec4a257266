----------------------------- MODULE MCSession -----------------------------
(* Session for TLC: the requests are interchangeable model values. *)
EXTENDS Session, TLC

Symmetry == Permutations(Requests)
=============================================================================
