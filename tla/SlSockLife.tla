----------------------------- MODULE SlSockLife -----------------------------
(***************************************************************************)
(* SlSock implements SocketLife: what its struct says of a socket, and     *)
(* what the kernel says of the descriptor in it, is one socket's life,     *)
(* though descriptors are reused and the host opens and closes its own.    *)
(***************************************************************************)
EXTENDS SlSock

\* What a caller can tell from the struct, whoever owns the descriptor.
Stage(k) ==
  CASE k.state \in {"CREATED", "BOUND"} -> k.state
    [] k.state \notin {"CREATED", "BOUND"} /\ k.fd = 0 -> "none"
    [] k.state \notin {"CREATED", "BOUND"} /\ k.fd # 0 -> "half"

\* The life of the socket in struct k, with descriptor table d.
Life(k, d) ==
  IF Stage(k) = "none"
  THEN [stage |-> "none", addr |-> NoAddr, nonblock |-> FALSE]
  ELSE [stage |-> Stage(k), addr |-> d[k.fd].addr, nonblock |-> d[k.fd].nonblock]

LIFE == INSTANCE SocketLife WITH
  Dual <- ~Winsock,
  asks <- [s \in Socks |-> sock[s].endpoint],
  life <- [s \in Socks |-> Life(sock[s], desc)]

\* For a caller that keeps the usage rules the structs, the kernel and the
\* rest of the process together behave as one socket per struct.
ImplementsSocketLife == LIFE!Spec
=============================================================================
