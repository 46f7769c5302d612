----------------------------- MODULE SocketLife -----------------------------
(***************************************************************************)
(* What socklynx promises of a socket, with no descriptors and nobody else *)
(* in sight: a struct has no socket or one; a call on it changes that one  *)
(* and nothing else does; bound sockets do not share ports.  A create that *)
(* fails half way leaves a socket that can only be closed.                 *)
(***************************************************************************)
EXTENDS Integers

CONSTANTS
  Socks,   \* the structs
  Ports,
  Dual     \* IPv6 sockets serve, and take the ports of, IPv4 too

VARIABLES
  asks,    \* asks[s]: the endpoint in struct s
  life     \* life[s]: the socket of struct s

vars == <<asks, life>>

NoAddr == [af |-> "none", port |-> 0]
Endpoints == [af : {"v4", "v6"}, port : Ports] \cup {NoAddr}
Stages == {"none", "half", "CREATED", "BOUND"}
LifeType == [stage : Stages, addr : Endpoints, nonblock : BOOLEAN]

Fresh(stage, a) == [stage |-> stage, addr |-> a, nonblock |-> FALSE]
Nothing == Fresh("none", NoAddr)

Init ==
  /\ asks \in [Socks -> Endpoints]
  /\ life = [s \in Socks |-> Nothing]

Becomes(s, l) == life' = [life EXCEPT ![s] = l] /\ UNCHANGED asks

Shared(a, b) == a.port = b.port /\ (a.af = b.af \/ Dual)

\* The addresses s may be bound to: as it asks, and no one else's.
Available(s) ==
  {a \in Endpoints :
     /\ a.af = asks[s].af /\ a.port # 0 /\ (asks[s].port # 0 => a = asks[s])
     /\ \A t \in Socks : life[t].stage = "BOUND" => ~Shared(life[t].addr, a)}

Create(s) ==
  /\ life[s].stage = "none"
  /\ \E stage \in {"half", "CREATED"} : Becomes(s, Fresh(stage, NoAddr))

Bind(s) ==
  /\ life[s].stage = "CREATED"
  /\ \E a \in Available(s) :
       Becomes(s, [stage |-> "BOUND", addr |-> a, nonblock |-> life[s].nonblock])

Open(s) ==
  /\ life[s].stage = "none"
  /\ \E a \in Available(s) : Becomes(s, Fresh("BOUND", a))

Switch(s) ==
  /\ life[s].stage \in {"CREATED", "BOUND"}
  /\ \E enabled \in BOOLEAN : Becomes(s, [life[s] EXCEPT !.nonblock = enabled])

Close(s) == life[s].stage # "none" /\ Becomes(s, Nothing)

Next == \E s \in Socks : Create(s) \/ Bind(s) \/ Open(s) \/ Switch(s) \/ Close(s)

Spec == Init /\ [][Next]_vars

-----------------------------------------------------------------------------
(* Properties.                                                             *)

\* Types, and no address but that of a bound socket, as its struct asks.
TypeOK ==
  /\ asks \in [Socks -> Endpoints]
  /\ life \in [Socks -> LifeType]
  /\ \A s \in Socks : life[s].stage = "BOUND" => life[s].addr.af = asks[s].af

\* No two bound sockets share a port.
Exclusive ==
  \A s, t \in Socks :
    s # t /\ life[s].stage = "BOUND" /\ life[t].stage = "BOUND"
    => ~Shared(life[s].addr, life[t].addr)
=============================================================================
