---------------------------- MODULE MCWebSession ----------------------------
(* WebSession for TLC: the requests of a page are interchangeable. *)
EXTENDS WebSession, TLC

Symmetry == Permutations(Request)
=============================================================================
