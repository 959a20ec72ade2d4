----------------------------- MODULE MCLiveRoom -----------------------------
(* LiveRoom for TLC: request slots are interchangeable. *)
EXTENDS LiveRoom, TLC

Symmetry == Permutations(Requests)
=============================================================================
