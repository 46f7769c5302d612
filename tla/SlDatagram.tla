----------------------------- MODULE SlDatagram -----------------------------
(***************************************************************************)
(* sl_sock_send and sl_sock_recv of include/socklynx/sock.h over the       *)
(* sockets of SlSock: the datagrams on their way, the receive queue of     *)
(* each descriptor, and the one sl_endpoint_t the caller receives every    *)
(* sender's address into and answers to.                                   *)
(*                                                                         *)
(* sl_endpoint_t is a union of 16 and 28 bytes.  What matters of it here   *)
(* is its family, its port, and what the last 12 bytes hold: an IPv4       *)
(* address leaves them alone, and in an IPv6 address they tell a native    *)
(* from an IPv4-mapped one.                                                *)
(***************************************************************************)
EXTENDS Integers, Sequences, FiniteSets

CONSTANTS Socks, Ports, MaxFd, Host, None, Pinned, Winsock, Asserts, CloseMayFail, Rules,
          Lens,      \* sizes of a payload
          Caps,      \* sizes of the buffers given to a receive, in all
          Network,   \* what the network does to datagrams: {} on the loopback
          QueueMax,  \* datagrams a descriptor holds; more are dropped
          MaxSends   \* bound on the datagrams sent in a behaviour

VARIABLES sock, desc, net, last, aborted,  \* of SlSock
          sent,    \* the datagrams sent so far; a datagram is its index here
          flight,  \* those on their way
          queue,   \* queue[f]: those waiting in descriptor f
          ep,      \* the endpoint the caller receives into
          got      \* the last datagram taken from a queue, by which struct,
                   \* and the number of its bytes the caller was given

SOCK == INSTANCE SlSock

ASSUME SlDatagramAssumption ==
  /\ SOCK!SlSockAssumption
  /\ Lens \subseteq Nat /\ Caps \subseteq Nat
  /\ Network \subseteq {"loss", "dup", "reorder"}
  /\ QueueMax \in Nat /\ MaxSends \in Nat

sockvars == <<sock, desc, net, last, aborted>>
vars == <<sockvars, sent, flight, queue, ep, got>>

Ids == 1 .. MaxSends
Routes == {"v4", "v6"}                  \* the protocol a datagram travels by
Tails == {"zero", "native", "mapped"}
EndpointType == [af : Routes \cup {"none"}, port : Ports \cup {0}, tail : Tails]
Datagram == [by : Socks, route : Routes, src : Ports, dst : Ports, len : Lens]

Init ==
  /\ SOCK!Init
  /\ sent = <<>> /\ flight = {} /\ queue = [f \in SOCK!Fds |-> <<>>]
  /\ ep = [af |-> "none", port |-> 0, tail |-> "zero"]
  /\ got = [by |-> None, id |-> 0, n |-> 0]

-----------------------------------------------------------------------------
(* The operating system and the network.                                   *)

\* The protocol by which a datagram sent to e leaves.
Route(e) == IF e.af = "v6" /\ e.tail # "mapped" THEN "v6" ELSE "v4"

\* A socket of the other family refuses e, except that on POSIX a dual-stack
\* one takes an IPv4 endpoint as it is.
Reachable(f, e) ==
  /\ e.af # "none" /\ e.port # 0
  /\ LET af == sock[desc[f].owner].endpoint.af IN
     e.af = af \/ (~Winsock /\ af = "v6")

\* The address f sends from: the kernel binds a socket that is not bound.
Sources(f) ==
  IF desc[f].addr # SOCK!NoAddr THEN {desc[f].addr}
  ELSE SOCK!BindAddrs(desc, f, [af |-> sock[desc[f].owner].endpoint.af, port |-> 0])

\* The descriptors m may be delivered to: an IPv4 datagram goes to a
\* dual-stack socket only when no IPv4 one has the port.
Bound(af, port) == {f \in SOCK!Fds : desc[f].addr = [af |-> af, port |-> port]}
Receivers(m) ==
  IF Bound(m.route, m.dst) # {} \/ m.route = "v6" THEN Bound(m.route, m.dst)
  ELSE {f \in Bound("v6", m.dst) : ~desc[f].v6only}

Deliver(i) ==
  /\ ~aborted
  /\ "reorder" \notin Network => \A j \in flight : i <= j
  /\ \/ \E f \in Receivers(sent[i]) :
          /\ Len(queue[f]) < QueueMax
          /\ queue' = [queue EXCEPT ![f] = Append(@, i)]
     \/ /\ \A f \in Receivers(sent[i]) : Len(queue[f]) = QueueMax
        /\ UNCHANGED queue
  /\ flight' = flight \ {i} \/ ("dup" \in Network /\ flight' = flight)
  /\ UNCHANGED <<sockvars, sent, ep, got>>

Lose(i) ==
  /\ ~aborted /\ "loss" \in Network
  /\ flight' = flight \ {i}
  /\ UNCHANGED <<sockvars, sent, queue, ep, got>>

\* What a call that neither sends nor receives does to the datagrams: the
\* queue of a descriptor goes with it.
Drained ==
  /\ queue' = [f \in SOCK!Fds |-> IF desc'[f].owner = None THEN <<>> ELSE queue[f]]
  /\ UNCHANGED <<sent, flight, ep, got>>

-----------------------------------------------------------------------------
(* The calls.                                                              *)

\* As if the state were not tested.                    (mutant of AssertBound)
AssertOpen(s) == sock[s].state \in {"CREATED", "BOUND"}
AssertBound(s) == sock[s].state = "BOUND"

sl_sock_send(s, len, e) ==
  LET f == sock[s].fd IN
  /\ UNCHANGED <<queue, ep, got>>
  /\ \/ SOCK!AssertFails(AssertBound(s)) /\ UNCHANGED <<sent, flight>>
     \/ /\ SOCK!SL_ASSERT(AssertBound(s))
        /\ SOCK!Fails(s, sock[s], desc)
        /\ UNCHANGED <<sent, flight>>
     \/ /\ SOCK!SL_ASSERT(AssertBound(s))
        /\ Len(sent) < MaxSends
        /\ desc[f].owner \in Socks /\ Reachable(f, e)
        /\ \E a \in Sources(f) :
             /\ SOCK!Ok(s, sock[s], [desc EXCEPT ![f].addr = a])
             /\ sent' = Append(sent, [by |-> s, route |-> Route(e),
                                      src |-> a.port, dst |-> e.port, len |-> len])
        /\ flight' = flight \cup {Len(sent) + 1}

\* As if epsize were the size of an IPv4 address, or the caller's endpoint
\* were not passed at all.                              (mutants of Received)
ReceivedHead(s, m) == [ep EXCEPT !.af = sock[s].endpoint.af, !.port = m.src]
ReceivedNothing(s, m) == ep

\* The sender of m as recvmsg and WSARecvFrom write it over ep.
Received(s, m) ==
  IF sock[s].endpoint.af = "v4" THEN [ep EXCEPT !.af = "v4", !.port = m.src]
  ELSE [af |-> "v6", port |-> m.src, tail |-> IF m.route = "v4" THEN "mapped" ELSE "native"]

\* The first datagram leaves the queue of s.  Longer than the buffers, it is
\* cut on POSIX, where msg_flags is not looked at, and lost on Winsock.
Takes(s, cap) ==
  LET f == sock[s].fd
      i == Head(queue[f])
  IN  /\ queue[f] # <<>>
      /\ queue' = [queue EXCEPT ![f] = Tail(@)]
      /\ ep' = Received(s, sent[i])
      /\ IF Winsock /\ sent[i].len > cap
         THEN /\ got' = [by |-> s, id |-> i, n |-> 0]
              /\ SOCK!Fails(s, sock[s], desc)
         ELSE /\ got' = [by |-> s, id |-> i, n |-> IF sent[i].len > cap THEN cap ELSE sent[i].len]
              /\ SOCK!Ok(s, sock[s], desc)

\* A receive may fail at any time (EAGAIN, EINTR, WSAECONNRESET).  On a
\* blocking socket the action is its return: until then nothing happens.
RecvTakes(s, cap) ==
  SOCK!SL_ASSERT(AssertBound(s)) /\ Takes(s, cap) /\ UNCHANGED <<sent, flight>>
RecvFails(s) ==
  /\ \/ SOCK!AssertFails(AssertBound(s))
     \/ SOCK!SL_ASSERT(AssertBound(s)) /\ SOCK!Fails(s, sock[s], desc)
  /\ UNCHANGED <<queue, ep, got, sent, flight>>
sl_sock_recv(s, cap) == RecvTakes(s, cap) \/ RecvFails(s)

\* A caller sends to the endpoint of a struct, or back to the one it received.
AsGiven(a) == [af |-> a.af, port |-> a.port, tail |-> IF a.af = "v6" THEN "native" ELSE "zero"]
Destinations == {AsGiven(sock[s].endpoint) : s \in Socks} \cup {ep}

Transfer(s) ==
  \/ \E len \in Lens, e \in Destinations : sl_sock_send(s, len, e)
  \/ \E cap \in Caps : sl_sock_recv(s, cap)

SockCall(s) == SOCK!SockCall(s) /\ Drained
HostCall == SOCK!HostCall /\ Drained
Arrival(i) == Deliver(i) \/ Lose(i)

Next ==
  \/ \E s \in Socks : SockCall(s) \/ Transfer(s)
  \/ HostCall
  \/ \E i \in flight : Arrival(i)

Spec == Init /\ [][Next]_vars

-----------------------------------------------------------------------------
(* Properties.                                                             *)

\* Types of the variables.
TypeOK ==
  /\ SOCK!TypeOK
  /\ sent \in Seq(Datagram) /\ Len(sent) <= MaxSends
  /\ flight \subseteq 1 .. Len(sent)
  /\ queue \in [SOCK!Fds -> Seq(1 .. Len(sent))]
  /\ ep \in EndpointType
  /\ got \in [by : Socks \cup {None}, id : 0 .. Len(sent), n : Lens \cup Caps \cup {0}]

\* The answer reaches the sender: what sl_sock_recv leaves in the caller's
\* endpoint, whatever it held before, is an endpoint to which the struct that
\* received can send, and which stands for the address the datagram came from,
\* by the protocol it came by (a dual-stack socket sees IPv4-mapped senders).
ReplyReaches ==
  got.id # 0 /\ sock[got.by].state = "BOUND" =>
    LET m == sent[got.id] IN
    /\ Reachable(sock[got.by].fd, ep)
    /\ Route(ep) = m.route /\ ep.port = m.src

\* The receiver recognises the sender: between structs of one family that ask
\* for a port, sl_sock_recv gives exactly the endpoint in the sender's struct
\* (SLIntegration.cs compares the two), unless IPv6 structs talk by IPv4.
SenderRecognised ==
  got.id # 0 =>
    LET e == sock[sent[got.id].by].endpoint IN
    /\ e.af = sock[got.by].endpoint.af /\ e.port # 0
    /\ e.af = sent[got.id].route
    =>
      ep.af = e.af /\ ep.port = e.port /\ (e.af = "v6" => ep.tail = "native")
=============================================================================
