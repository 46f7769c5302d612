---------------------------- MODULE MCSlDatagram ----------------------------
(* SlDatagram for TLC, between endpoints on different ports.               *)
EXTENDS SlDatagram, TLC

MCInit ==
  /\ Init
  /\ \A s \in Socks : sock[s].endpoint.port # 0
  /\ \A s, t \in Socks : s # t => sock[s].endpoint.port # sock[t].endpoint.port

MCSpec == MCInit /\ [][Next]_vars

\* Bound of the run: behaviours are not followed past a switch to nonblocking,
\* which decides nothing here, as a receive may fail at any time.
BlockingOnly == \A s \in Socks : "NONBLOCKING" \notin sock[s].flags

Symmetry == Permutations(Socks)
=============================================================================
