------------------------------ MODULE MCSlSock ------------------------------
(* SlSock for TLC: the structs are interchangeable.                        *)
EXTENDS SlSockLife, TLC

Symmetry == Permutations(Socks)
=============================================================================
