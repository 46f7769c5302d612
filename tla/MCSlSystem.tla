----------------------------- MODULE MCSlSystem -----------------------------
(* SlSystem for TLC, which may exchange structs and exchange contexts.     *)
EXTENDS SlSystem, TLC

Symmetry == Permutations(Socks) \cup Permutations(Ctxs)
=============================================================================
