------------------------- MODULE SlDatagram_proofs -------------------------
(* Proofs about SlDatagram: answers reach, and senders are recognised, for *)
(* any number of structs, ports and datagrams, whatever the network does,  *)
(* on both platforms, provided the asserts are compiled in.                *)
EXTENDS SlDatagram, TLAPS

SOCKP == INSTANCE SlSock_proofs

\* sl_sock_send and sl_sock_recv are called on bound structs only because
\* they assert it.
AssertedCaller == SOCKP!IsolatedCaller /\ Asserts

\* The assumptions of SlSock.
LEMMA Assumed ==
  /\ MaxFd \in Nat /\ Ports \subseteq Nat
  /\ Host # None /\ Host \notin Socks /\ None \notin Socks
  /\ Winsock \in BOOLEAN /\ Asserts \in BOOLEAN
  /\ Pinned \subseteq SOCKP!Fds /\ (Winsock => 0 \notin Pinned)
  /\ CloseMayFail \in BOOLEAN /\ Rules \subseteq SOCKP!AllRules
  BY SlDatagramAssumption
  DEF SOCK!SlSockAssumption, SOCK!Fds, SOCKP!Fds, SOCK!AllRules, SOCKP!AllRules

-----------------------------------------------------------------------------
(* Sockets: SlSock comes here under two names, SOCK and SOCKP.             *)

LEMMA SameData ==
  /\ SOCK!Fds = SOCKP!Fds /\ SOCK!NoAddr = SOCKP!NoAddr
  /\ SOCK!Endpoints = SOCKP!Endpoints
  BY DEF SOCK!Fds, SOCKP!Fds, SOCK!NoAddr, SOCKP!NoAddr, SOCK!Endpoints, SOCKP!Endpoints

LEMMA SameInit == SOCK!Init => SOCKP!Init
  BY DEF SOCK!Init, SOCKP!Init, SOCK!Fds, SOCKP!Fds, SOCK!States, SOCKP!States,
         SOCK!Flags, SOCKP!Flags, SOCK!Errors, SOCKP!Errors, SOCK!NoAddr,
         SOCKP!NoAddr, SOCK!Endpoints, SOCKP!Endpoints, SOCK!NewUDP, SOCKP!NewUDP,
         SOCK!Descriptor, SOCKP!Descriptor, SOCK!Free, SOCKP!Free

LEMMA SameSockCall ==
  ASSUME NEW s \in Socks, SOCK!SockCall(s)
  PROVE  SOCKP!SockCall(s)
  BY DEF SOCK!SockCall, SOCKP!SockCall, SOCK!sl_sock_create, SOCKP!sl_sock_create,
         SOCK!sl_sock_bind, SOCKP!sl_sock_bind, SOCK!socklynx_socket_open,
         SOCKP!socklynx_socket_open, SOCK!socklynx_socket_close,
         SOCKP!socklynx_socket_close, SOCK!socklynx_socket_nonblocking,
         SOCKP!socklynx_socket_nonblocking, SOCK!Switched, SOCKP!Switched,
         SOCK!Closed, SOCKP!Closed, SOCK!Released, SOCKP!Released, SOCK!BindFrom,
         SOCKP!BindFrom, SOCK!AssertCreate, SOCKP!AssertCreate, SOCK!Creatable,
         SOCKP!Creatable, SOCK!CreateFails, SOCKP!CreateFails, SOCK!WithSocket,
         SOCKP!WithSocket, SOCK!Created, SOCKP!Created, SOCK!CreatedFlags,
         SOCKP!CreatedFlags, SOCK!AssertFails, SOCKP!AssertFails, SOCK!SL_ASSERT,
         SOCKP!SL_ASSERT, SOCK!Fails, SOCKP!Fails, SOCK!Ok, SOCKP!Ok, SOCK!Return,
         SOCKP!Return, SOCK!MaySwitch, SOCKP!MaySwitch, SOCK!MayBind, SOCKP!MayBind,
         SOCK!MayCreate, SOCKP!MayCreate, SOCK!MayClose, SOCKP!MayClose,
         SOCK!BindAddrs, SOCKP!BindAddrs, SOCK!Clash, SOCKP!Clash, SOCK!Accepts,
         SOCKP!Accepts, SOCK!NextFds, SOCKP!NextFds, SOCK!FreeFds, SOCKP!FreeFds,
         SOCK!Fds, SOCKP!Fds, SOCK!NoAddr, SOCKP!NoAddr, SOCK!Endpoints,
         SOCKP!Endpoints, SOCK!Descriptor, SOCKP!Descriptor, SOCK!Free, SOCKP!Free

LEMMA SameHostCall == SOCK!HostCall => SOCKP!HostCall
  BY DEF SOCK!HostCall, SOCKP!HostCall, SOCK!HostOpen, SOCKP!HostOpen, SOCK!HostClose,
         SOCKP!HostClose, SOCK!NetStop, SOCKP!NetStop, SOCK!NetStart, SOCKP!NetStart,
         SOCK!HostReturn, SOCKP!HostReturn, SOCK!MayStop, SOCKP!MayStop,
         SOCK!Released, SOCKP!Released, SOCK!NextFds, SOCKP!NextFds, SOCK!FreeFds,
         SOCKP!FreeFds, SOCK!Fds, SOCKP!Fds, SOCK!NoAddr, SOCKP!NoAddr,
         SOCK!Descriptor, SOCKP!Descriptor, SOCK!Free, SOCKP!Free

SockInv == SOCKP!TypeOK /\ SOCKP!OwnerInv /\ SOCKP!AgreeInv

LEMMA SockInvNext ==
  ASSUME AssertedCaller, SockInv, SOCKP!Next
  PROVE  SockInv'
  <1>1. SOCKP!TypeOK'
    BY SOCKP!NextType, Assumed DEF SockInv
  <1>2. SOCKP!OwnerInv'
    BY SOCKP!NextOwner, Assumed DEF SockInv, AssertedCaller, SOCKP!IsolatedCaller
  <1>3. SOCKP!AgreeInv'
    BY SOCKP!NextAgrees, Assumed DEF SockInv, AssertedCaller, SOCKP!CheckedCaller
  <1> QED
    BY <1>1, <1>2, <1>3 DEF SockInv

LEMMA SockInvInit == AssertedCaller /\ SOCK!Init => SockInv
  <1>1. SOCKP!Init => SOCKP!TypeOK
    BY SOCKP!InitType, Assumed
  <1>2. SOCKP!SafeCaller /\ SOCKP!Init => SOCKP!OwnerInv
    BY SOCKP!InitOwner, Assumed
  <1>3. SOCKP!Init => SOCKP!AgreeInv
    BY SOCKP!InitAgrees, Assumed
  <1> QED
    BY <1>1, <1>2, <1>3, SameInit DEF SockInv, AssertedCaller, SOCKP!IsolatedCaller

\* A bound struct holds its own socket, at an address of its family, which is
\* IPv4 or IPv6.
LEMMA BoundSocket ==
  ASSUME SockInv, NEW s \in Socks, sock[s].state = "BOUND"
  PROVE  LET f == sock[s].fd  e == sock[s].endpoint IN
         /\ f \in SOCK!Fds /\ desc[f].owner = s
         /\ desc[f].addr \in SOCK!Endpoints /\ desc[f].addr # SOCK!NoAddr
         /\ desc[f].addr.af = e.af /\ desc[f].addr.port # 0
         /\ e.port # 0 => desc[f].addr.port = e.port
         /\ e.af \in {"v4", "v6"}
  <1>1. /\ sock[s] \in SOCKP!SockType /\ desc \in [SOCKP!Fds -> SOCKP!DescType]
        /\ SOCKP!Attached(s, sock[s], desc) /\ SOCKP!Agrees(sock[s], desc)
    BY DEF SockInv, SOCKP!TypeOK, SOCKP!OwnerInv, SOCKP!AgreeInv
  <1>2. /\ sock[s].fd \in SOCKP!Fds /\ desc[sock[s].fd].owner = s
        /\ desc[sock[s].fd].addr \in SOCKP!Endpoints
    BY <1>1 DEF SOCKP!Attached, SOCKP!SockType, SOCKP!DescType
  <1>3. /\ desc[sock[s].fd].addr.af = sock[s].endpoint.af
        /\ desc[sock[s].fd].addr.port # 0
        /\ sock[s].endpoint.port # 0 => desc[sock[s].fd].addr = sock[s].endpoint
    BY <1>1 DEF SOCKP!Agrees
  <1>4. SOCKP!NoAddr.port = 0
    BY DEF SOCKP!NoAddr
  <1>5. \A a \in SOCKP!Endpoints : a # SOCKP!NoAddr => a.af \in {"v4", "v6"}
    BY DEF SOCKP!Endpoints
  <1> QED
    BY <1>2, <1>3, <1>4, <1>5, SameData

-----------------------------------------------------------------------------
(* What the socket calls leave alone: endpoints, and the address of every  *)
(* socket that has one and stays open.                                     *)

FreeInv == \A f \in SOCKP!Fds : desc[f].owner = None => desc[f].addr = SOCKP!NoAddr

Steady(d) ==
  \A f \in SOCKP!Fds :
    /\ d[f].owner = None => d[f].addr = SOCKP!NoAddr
    /\ desc[f].addr # SOCKP!NoAddr /\ d[f].owner # None => d[f].addr = desc[f].addr

SameEndpoints == \A s \in Socks : sock'[s].endpoint = sock[s].endpoint

LEMMA SteadyReturn ==
  ASSUME SOCKP!TypeOK, NEW s \in Socks, NEW k, NEW d, Steady(d),
         k.endpoint = sock[s].endpoint,
         k \in SOCKP!SockType,
         SOCKP!Ok(s, k, d) \/ SOCKP!Fails(s, k, d) \/ SOCKP!Return(s, k, d, "SL_ERR")
  PROVE  Steady(desc') /\ SameEndpoints
  <1>1. desc' = d /\ sock' \in {[sock EXCEPT ![s] = k], [sock EXCEPT ![s] = [k EXCEPT !.error = "errno"]]}
    BY DEF SOCKP!Ok, SOCKP!Fails, SOCKP!Return
  <1>2. [k EXCEPT !.error = "errno"].endpoint = sock[s].endpoint
    BY DEF SOCKP!SockType
  <1>3. sock \in [Socks -> SOCKP!SockType]
    BY DEF SOCKP!TypeOK
  <1>4. \A t \in Socks : sock'[t].endpoint = sock[t].endpoint
    BY <1>1, <1>2, <1>3
  <1> QED
    BY <1>1, <1>4 DEF SameEndpoints

LEMMA SteadyDesc == FreeInv => Steady(desc)
  BY DEF FreeInv, Steady

LEMMA SteadySocket ==
  ASSUME SOCKP!TypeOK, FreeInv, NEW s \in Socks, NEW f \in SOCKP!NextFds, NEW v
  PROVE  Steady(SOCKP!WithSocket(s, f, v))
  <1>1. f \in SOCKP!Fds /\ desc[f].owner = None /\ desc[f].addr = SOCKP!NoAddr
    BY DEF SOCKP!NextFds, SOCKP!FreeFds, FreeInv
  <1>2. SOCKP!Descriptor(s, SOCKP!NoAddr, v).owner = s /\ s # None
    BY Assumed DEF SOCKP!Descriptor
  <1>3. desc \in [SOCKP!Fds -> SOCKP!DescType]
    BY DEF SOCKP!TypeOK
  <1> QED
    BY <1>1, <1>2, <1>3 DEF SOCKP!WithSocket, Steady, FreeInv

LEMMA SteadyBind ==
  ASSUME SOCKP!TypeOK, FreeInv, NEW s \in Socks,
         NEW k \in SOCKP!SockType, k.endpoint = sock[s].endpoint,
         NEW d \in [SOCKP!Fds -> SOCKP!DescType], Steady(d), SOCKP!BindFrom(s, k, d)
  PROVE  Steady(desc') /\ SameEndpoints
  <1>1. CASE SOCKP!Fails(s, k, d)
    BY <1>1, SteadyReturn
  <1>2. ASSUME NEW a \in SOCKP!BindAddrs(d, k.fd, k.endpoint),
               SOCKP!Ok(s, [k EXCEPT !.state = "BOUND"], [d EXCEPT ![k.fd].addr = a])
        PROVE  Steady(desc') /\ SameEndpoints
    <2>1. d[k.fd].owner \in Socks /\ d[k.fd].addr = SOCKP!NoAddr /\ k.fd \in SOCKP!Fds
      BY DEF SOCKP!BindAddrs, SOCKP!SockType
    <2>2. d[k.fd].owner # None
      BY <2>1, Assumed
    <2>3. desc[k.fd].addr = SOCKP!NoAddr
      BY <2>1, <2>2 DEF Steady
    <2>4. \A f \in SOCKP!Fds : /\ [d EXCEPT ![k.fd].addr = a][f].owner = d[f].owner
                              /\ f # k.fd => [d EXCEPT ![k.fd].addr = a][f] = d[f]
      BY <2>1 DEF SOCKP!DescType
    <2>5. Steady([d EXCEPT ![k.fd].addr = a])
      BY <2>1, <2>2, <2>3, <2>4 DEF Steady
    <2>6. /\ [k EXCEPT !.state = "BOUND"] \in SOCKP!SockType
          /\ [k EXCEPT !.state = "BOUND"].endpoint = sock[s].endpoint
      BY DEF SOCKP!SockType, SOCKP!States
    <2> QED
      BY <1>2, <2>5, <2>6, SteadyReturn
  <1> QED
    BY <1>1, <1>2 DEF SOCKP!BindFrom

LEMMA SteadyCreateFails ==
  ASSUME SOCKP!TypeOK, FreeInv, NEW s \in Socks, SOCKP!CreateFails(s)
  PROVE  Steady(desc') /\ SameEndpoints
  <1>1. sock[s] \in SOCKP!SockType
    BY DEF SOCKP!TypeOK
  <1>2. CASE SOCKP!Fails(s, sock[s], desc)
    BY <1>1, <1>2, SteadyReturn, SteadyDesc
  <1>3. ASSUME NEW f \in SOCKP!NextFds, NEW v \in BOOLEAN,
               SOCKP!Return(s, [sock[s] EXCEPT !.fd = f], SOCKP!WithSocket(s, f, v), "SL_ERR")
        PROVE  Steady(desc') /\ SameEndpoints
    <2>1. /\ [sock[s] EXCEPT !.fd = f] \in SOCKP!SockType
          /\ [sock[s] EXCEPT !.fd = f].endpoint = sock[s].endpoint
      BY <1>1 DEF SOCKP!SockType, SOCKP!NextFds, SOCKP!FreeFds
    <2> QED
      BY <1>3, <2>1, SteadySocket, SteadyReturn
  <1> QED
    BY <1>2, <1>3 DEF SOCKP!CreateFails

LEMMA CreatedSteady ==
  ASSUME SOCKP!TypeOK, FreeInv, NEW s \in Socks, NEW f \in SOCKP!NextFds
  PROVE  /\ SOCKP!Created(s, f) \in SOCKP!SockType
         /\ SOCKP!Created(s, f).endpoint = sock[s].endpoint
         /\ SOCKP!WithSocket(s, f, FALSE) \in [SOCKP!Fds -> SOCKP!DescType]
         /\ Steady(SOCKP!WithSocket(s, f, FALSE))
  <1>1. f \in SOCKP!Fds /\ sock[s] \in SOCKP!SockType
    BY DEF SOCKP!NextFds, SOCKP!FreeFds, SOCKP!TypeOK
  <1>2. SOCKP!Created(s, f) \in SOCKP!SockType
    BY <1>1, SOCKP!CreatedType, Assumed
  <1>3. SOCKP!Created(s, f).endpoint = sock[s].endpoint
    BY <1>1 DEF SOCKP!Created, SOCKP!SockType
  <1>4. SOCKP!WithSocket(s, f, FALSE) \in [SOCKP!Fds -> SOCKP!DescType]
    BY <1>1, SOCKP!WithSocketType, Assumed
  <1> QED
    BY <1>2, <1>3, <1>4, SteadySocket

LEMMA SteadyCall ==
  ASSUME SOCKP!TypeOK, FreeInv, NEW s \in Socks, SOCKP!SockCall(s)
  PROVE  Steady(desc') /\ SameEndpoints
  <1>0. sock[s] \in SOCKP!SockType /\ desc \in [SOCKP!Fds -> SOCKP!DescType] /\ Steady(desc)
    BY SteadyDesc DEF SOCKP!TypeOK
  <1>1. ASSUME NEW expr, SOCKP!AssertFails(expr) PROVE Steady(desc') /\ SameEndpoints
    BY <1>0, <1>1 DEF SOCKP!AssertFails, SameEndpoints, Steady
  <1>2. CASE SOCKP!sl_sock_create(s)
    <2>1. ASSUME NEW f \in SOCKP!NextFds,
                 SOCKP!Ok(s, SOCKP!Created(s, f), SOCKP!WithSocket(s, f, FALSE))
          PROVE  Steady(desc') /\ SameEndpoints
      BY <2>1, CreatedSteady, SteadyReturn
    <2> QED
      BY <1>1, <1>2, <2>1, SteadyCreateFails DEF SOCKP!sl_sock_create
  <1>3. CASE SOCKP!sl_sock_bind(s)
    BY <1>0, <1>1, <1>3, SteadyBind DEF SOCKP!sl_sock_bind
  <1>4. CASE SOCKP!socklynx_socket_open(s)
    <2>1. ASSUME NEW f \in SOCKP!NextFds,
                 SOCKP!BindFrom(s, SOCKP!Created(s, f), SOCKP!WithSocket(s, f, FALSE))
          PROVE  Steady(desc') /\ SameEndpoints
      BY <2>1, CreatedSteady, SteadyBind
    <2> QED
      BY <1>1, <1>4, <2>1, SteadyCreateFails DEF SOCKP!socklynx_socket_open
  <1>5. CASE SOCKP!socklynx_socket_close(s)
    <2>0. 0 \in SOCKP!Fds
      BY Assumed DEF SOCKP!Fds
    <2>1. /\ SOCKP!Closed(sock[s]) \in SOCKP!SockType
          /\ SOCKP!Closed(sock[s]).endpoint = sock[s].endpoint
      BY <1>0, <2>0 DEF SOCKP!Closed, SOCKP!SockType, SOCKP!States
    <2>2. SOCKP!Free.owner = None /\ SOCKP!Free.addr = SOCKP!NoAddr
      BY DEF SOCKP!Free, SOCKP!Descriptor
    <2>3. \A f \in SOCKP!Fds : SOCKP!Released(sock[s].fd)[f] \in {desc[f], SOCKP!Free}
      BY <1>0 DEF SOCKP!Released
    <2>4. Steady(SOCKP!Released(sock[s].fd))
      BY <1>0, <2>2, <2>3 DEF Steady
    <2>5. \/ SOCKP!Ok(s, SOCKP!Closed(sock[s]), SOCKP!Released(sock[s].fd))
          \/ SOCKP!Fails(s, sock[s], desc)
      BY <1>5 DEF SOCKP!socklynx_socket_close
    <2> QED
      BY <1>0, <2>1, <2>4, <2>5, SteadyReturn
  <1>6. ASSUME NEW enabled \in BOOLEAN, SOCKP!socklynx_socket_nonblocking(s, enabled)
        PROVE  Steady(desc') /\ SameEndpoints
    <2>1. /\ [sock[s] EXCEPT !.flags = SOCKP!Switched(s, enabled)] \in SOCKP!SockType
          /\ [sock[s] EXCEPT !.flags = SOCKP!Switched(s, enabled)].endpoint = sock[s].endpoint
      BY <1>0 DEF SOCKP!Switched, SOCKP!SockType, SOCKP!Flags
    <2>2. \A f \in SOCKP!Fds :
            /\ [desc EXCEPT ![sock[s].fd].nonblock = enabled][f].owner = desc[f].owner
            /\ [desc EXCEPT ![sock[s].fd].nonblock = enabled][f].addr = desc[f].addr
      BY <1>0 DEF SOCKP!DescType
    <2>3. Steady([desc EXCEPT ![sock[s].fd].nonblock = enabled])
      BY <1>0, <2>2 DEF Steady
    <2> QED
      BY <1>0, <1>6, <2>1, <2>3, SteadyReturn DEF SOCKP!socklynx_socket_nonblocking
  <1> QED
    BY <1>2, <1>3, <1>4, <1>5, <1>6 DEF SOCKP!SockCall

LEMMA SteadyHost ==
  ASSUME SOCKP!TypeOK, FreeInv, SOCKP!HostCall
  PROVE  Steady(desc') /\ SameEndpoints
  <1>0. desc \in [SOCKP!Fds -> SOCKP!DescType] /\ Steady(desc)
    BY SteadyDesc DEF SOCKP!TypeOK
  <1>1. SameEndpoints
    BY DEF SOCKP!HostCall, SOCKP!HostOpen, SOCKP!HostClose, SOCKP!NetStop, SOCKP!NetStart,
           SOCKP!HostReturn, SameEndpoints
  <1>2. CASE SOCKP!HostOpen
    <2>1. PICK f \in SOCKP!NextFds :
                 desc' = [desc EXCEPT ![f] = SOCKP!Descriptor(Host, SOCKP!NoAddr, FALSE)]
      BY <1>2 DEF SOCKP!HostOpen
    <2>2. f \in SOCKP!Fds /\ desc[f].addr = SOCKP!NoAddr
      BY DEF SOCKP!NextFds, SOCKP!FreeFds, FreeInv
    <2>3. /\ SOCKP!Descriptor(Host, SOCKP!NoAddr, FALSE).owner = Host
          /\ SOCKP!Descriptor(Host, SOCKP!NoAddr, FALSE).addr = SOCKP!NoAddr
      BY DEF SOCKP!Descriptor
    <2> QED
      BY <1>0, <1>1, <2>1, <2>2, <2>3 DEF Steady
  <1>3. CASE SOCKP!HostClose
    BY <1>0, <1>1, <1>3
    DEF SOCKP!HostClose, SOCKP!Released, SOCKP!Free, SOCKP!Descriptor, Steady
  <1>4. CASE SOCKP!NetStop
    BY <1>0, <1>1, <1>4 DEF SOCKP!NetStop, SOCKP!Free, SOCKP!Descriptor, Steady
  <1>5. CASE SOCKP!NetStart
    BY <1>0, <1>1, <1>5 DEF SOCKP!NetStart, Steady
  <1> QED
    BY <1>2, <1>3, <1>4, <1>5 DEF SOCKP!HostCall
LEMMA FreeInvInit == SOCK!Init => FreeInv
  <1>1. \A f \in SOCKP!Fds : SOCKP!Init => desc[f].addr = SOCKP!NoAddr
    BY DEF SOCKP!Init, SOCKP!Free, SOCKP!Descriptor
  <1> QED
    BY <1>1, SameInit DEF FreeInv

-----------------------------------------------------------------------------
(* What the data calls leave alone: every descriptor, except for the       *)
(* address a send gives a socket that has none, which a bound one has.     *)

Kept == SockInv' /\ desc' = desc /\ SameEndpoints

LEMMA KeptReturn ==
  ASSUME SockInv, NEW s \in Socks,
         SOCK!Ok(s, sock[s], desc) \/ SOCK!Fails(s, sock[s], desc)
  PROVE  Kept
  <1>0. /\ SOCKP!TypeOK /\ SOCKP!OwnerInv /\ SOCKP!AgreeInv
        /\ sock \in [Socks -> SOCKP!SockType] /\ sock[s] \in SOCKP!SockType
        /\ desc \in [SOCKP!Fds -> SOCKP!DescType]
    BY DEF SockInv, SOCKP!TypeOK
  <1>1. SOCKP!Ok(s, sock[s], desc) \/ SOCKP!Fails(s, sock[s], desc)
    BY DEF SOCK!Ok, SOCK!Fails, SOCK!Return, SOCKP!Ok, SOCKP!Fails, SOCKP!Return
  <1>2. SOCKP!TypeOK'
    BY <1>0, <1>1, SOCKP!ReturnType, SOCKP!FailsType, Assumed DEF SOCKP!Ok
  <1>3. desc' = desc /\ \A t \in Socks : sock'[t] = sock[t] \/ sock'[t] = [sock[t] EXCEPT !.error = "errno"]
    BY <1>0, <1>1 DEF SOCKP!Ok, SOCKP!Fails, SOCKP!Return
  <1>4. \A t \in Socks : /\ sock'[t].fd = sock[t].fd /\ sock'[t].state = sock[t].state
                        /\ sock'[t].endpoint = sock[t].endpoint
    BY <1>0, <1>3 DEF SOCKP!SockType
  <1>5. SOCKP!OwnerInv'
    BY <1>0, <1>3, <1>4 DEF SOCKP!OwnerInv, SOCKP!Attached
  <1>6. SOCKP!AgreeInv'
    BY <1>0, <1>3, <1>4 DEF SOCKP!AgreeInv, SOCKP!Agrees
  <1> QED
    BY <1>2, <1>3, <1>4, <1>5, <1>6 DEF Kept, SockInv, SameEndpoints

LEMMA KeptAssert ==
  ASSUME SockInv, NEW expr, SOCK!AssertFails(expr)
  PROVE  Kept
  BY DEF SOCK!AssertFails, Kept, SameEndpoints, SockInv, SOCKP!TypeOK, SOCKP!OwnerInv,
         SOCKP!AgreeInv, SOCKP!ZeroOwner

LEMMA KeptUnchanged ==
  ASSUME SockInv, UNCHANGED sockvars
  PROVE  Kept
  BY DEF sockvars, Kept, SameEndpoints, SockInv, SOCKP!TypeOK, SOCKP!OwnerInv,
         SOCKP!AgreeInv, SOCKP!ZeroOwner

-----------------------------------------------------------------------------
(* The datagrams.                                                          *)

Sent == 1 .. Len(sent)

\* A datagram carries the port its sender's struct asks for.
HistoryInv ==
  /\ sent \in Seq(Datagram) /\ Len(sent) <= MaxSends
  /\ flight \subseteq Sent
  /\ \A i \in Sent :
       /\ sent[i].src # 0
       /\ LET p == sock[sent[i].by].endpoint.port IN p # 0 => sent[i].src = p

\* A socket that may have datagrams waiting has an address, and an IPv4 one
\* has IPv4 datagrams only.
Holdable(f, i) ==
  desc[f].addr # SOCK!NoAddr /\ (desc[f].addr.af = "v4" => sent[i].route = "v4")

QueueInv ==
  /\ queue \in [SOCK!Fds -> Seq(Sent)]
  /\ \A f \in SOCK!Fds : desc[f].owner = None => queue[f] = <<>>
  /\ \A f \in SOCK!Fds : \A j \in 1 .. Len(queue[f]) : Holdable(f, queue[f][j])

\* The caller's endpoint names the sender of the last datagram received, in
\* the family of the struct that received it.
GotInv ==
  /\ ep \in EndpointType
  /\ got \in [by : Socks \cup {None}, id : 0 .. Len(sent), n : Lens \cup Caps \cup {0}]
  /\ got.id # 0 =>
       /\ got.by \in Socks /\ ep.port = sent[got.id].src
       /\ IF sock[got.by].endpoint.af = "v4"
          THEN ep.af = "v4" /\ sent[got.id].route = "v4"
          ELSE ep.af = "v6" /\ ep.tail = IF sent[got.id].route = "v4" THEN "mapped" ELSE "native"

DataInv == HistoryInv /\ QueueInv /\ GotInv

LEMMA DataInvInit == Init => DataInv
  <1> SUFFICES ASSUME Init PROVE DataInv
    OBVIOUS
  <1>1. sent = <<>> /\ Len(sent) = 0 /\ Sent = {} /\ sent \in Seq(Datagram)
    BY DEF Init, Sent
  <1>2. HistoryInv
    BY <1>1, SlDatagramAssumption DEF Init, HistoryInv
  <1>3. QueueInv
    BY DEF Init, QueueInv
  <1>4. GotInv
    BY <1>1 DEF Init, GotInv, EndpointType, Routes, Tails
  <1> QED
    BY <1>2, <1>3, <1>4 DEF DataInv

LEMMA SentType == ASSUME HistoryInv, NEW i \in Sent PROVE sent[i] \in Datagram
  BY DEF HistoryInv, Sent

\* A socket or a host call loses the queue of a descriptor it closes.
LEMMA DataCall ==
  ASSUME DataInv, Steady(desc'), SameEndpoints, Drained
  PROVE  DataInv'
  <1>0. /\ sent' = sent /\ flight' = flight /\ ep' = ep /\ got' = got
        /\ queue' = [f \in SOCK!Fds |-> IF desc'[f].owner = None THEN <<>> ELSE queue[f]]
    BY DEF Drained
  <1>1. \A i \in Sent : sent[i].by \in Socks
    BY SentType DEF DataInv, Datagram
  <1>2. HistoryInv'
    BY <1>0, <1>1 DEF DataInv, HistoryInv, Sent, SameEndpoints
  <1>3. QueueInv'
    <2>1. <<>> \in Seq(Sent) /\ Len(<<>>) = 0
      OBVIOUS
    <2>2. queue' \in [SOCK!Fds -> Seq(Sent')]
      BY <1>0, <2>1 DEF DataInv, QueueInv, Sent
    <2>3. ASSUME NEW f \in SOCK!Fds, NEW j \in 1 .. Len(queue'[f])
          PROVE  LET a == desc'[f].addr IN
                 a # SOCK!NoAddr /\ (a.af = "v4" => sent'[queue'[f][j]].route = "v4")
      <3>1. queue'[f] = queue[f] /\ desc'[f].owner # None
        BY <1>0, <2>1, <2>3
      <3>2. Holdable(f, queue[f][j])
        BY <3>1, <2>3 DEF DataInv, QueueInv
      <3> QED
        BY <1>0, <3>1, <3>2, SameData DEF Holdable, Steady
    <2> QED
      BY <1>0, <2>2, <2>3 DEF QueueInv, Holdable
  <1>4. GotInv'
    BY <1>0 DEF DataInv, GotInv, SameEndpoints
  <1> QED
    BY <1>2, <1>3, <1>4 DEF DataInv
LEMMA FlightKept ==
  ASSUME HistoryInv, SameEndpoints, sent' = sent, flight' \subseteq flight
  PROVE  HistoryInv'
  <1>1. \A i \in Sent : sent[i].by \in Socks
    BY SentType DEF Datagram
  <1> QED
    BY <1>1 DEF HistoryInv, Sent, SameEndpoints

LEMMA GotKept ==
  ASSUME GotInv, SameEndpoints, UNCHANGED <<sent, ep, got>>
  PROVE  GotInv'
  BY DEF GotInv, SameEndpoints

LEMMA QueueKept ==
  ASSUME QueueInv, desc' = desc, sent' = sent, queue' = queue
  PROVE  QueueInv'
  BY DEF QueueInv, Holdable, Sent

LEMMA DataKept ==
  ASSUME DataInv, Kept, UNCHANGED <<sent, flight, queue, ep, got>>
  PROVE  DataInv'
  <1>1. HistoryInv'
    BY FlightKept DEF DataInv, Kept
  <1>2. QueueInv'
    BY QueueKept DEF DataInv, Kept
  <1>3. GotInv'
    BY GotKept DEF DataInv, Kept
  <1> QED
    BY <1>1, <1>2, <1>3 DEF DataInv

LEMMA AppendElements ==
  ASSUME NEW S, NEW q \in Seq(S), NEW e \in S
  PROVE  /\ Append(q, e) \in Seq(S) /\ Len(Append(q, e)) = Len(q) + 1
         /\ Append(q, e)[Len(q) + 1] = e
         /\ \A j \in 1 .. Len(Append(q, e)) :
              \/ Append(q, e)[j] = e
              \/ j \in 1 .. Len(q) /\ Append(q, e)[j] = q[j]
  OBVIOUS

\* A queue that changes at descriptor f, to datagrams that f may hold.
LEMMA QueueStep ==
  ASSUME QueueInv, desc' = desc, sent' = sent, NEW f \in SOCK!Fds, NEW q \in Seq(Sent),
         queue' = [queue EXCEPT ![f] = q], desc[f].owner = None => q = <<>>,
         \A j \in 1 .. Len(q) : Holdable(f, q[j])
  PROVE  QueueInv'
  <1>1. queue' \in [SOCK!Fds -> Seq(Sent')]
    BY DEF QueueInv, Sent
  <1>2. \A g \in SOCK!Fds : queue'[g] = IF g = f THEN q ELSE queue[g]
    BY DEF QueueInv
  <1>3. \A g \in SOCK!Fds : desc'[g].owner = None => queue'[g] = <<>>
    BY <1>2 DEF QueueInv
  <1>4. ASSUME NEW g \in SOCK!Fds, NEW j \in 1 .. Len(queue'[g])
        PROVE  LET a == desc'[g].addr IN
               a # SOCK!NoAddr /\ (a.af = "v4" => sent'[queue'[g][j]].route = "v4")
    <2>1. CASE g = f
      BY <1>2, <1>4, <2>1 DEF Holdable
    <2>2. CASE g # f
      BY <1>2, <1>4, <2>2 DEF Holdable, QueueInv
    <2> QED
      BY <2>1, <2>2
  <1> QED
    BY <1>1, <1>3, <1>4 DEF QueueInv, Holdable

\* The network brings an IPv4 socket IPv4 datagrams only.
LEMMA DataDeliver ==
  ASSUME SockInv, FreeInv, DataInv, NEW i \in flight, Deliver(i)
  PROVE  Kept /\ DataInv'
  <1>0. Kept
    BY KeptUnchanged DEF Deliver
  <1>1. i \in Sent /\ sent[i] \in Datagram
    BY SentType DEF DataInv, HistoryInv
  <1>2. sent' = sent /\ ep' = ep /\ got' = got /\ flight' \subseteq flight
    BY DEF Deliver
  <1>3. HistoryInv' /\ GotInv'
    BY <1>0, <1>2, FlightKept, GotKept DEF DataInv, Kept
  <1>4. ASSUME NEW f \in Receivers(sent[i]), queue' = [queue EXCEPT ![f] = Append(@, i)]
        PROVE  QueueInv'
    <2>1. f \in SOCK!Fds
      BY DEF Receivers, Bound
    <2>2. desc[f].addr.af \in {sent[i].route, "v6"} /\ desc[f].addr.af \in Routes
      BY <1>1 DEF Receivers, Bound, Datagram, Routes
    <2>3. SOCK!NoAddr.af = "none"
      BY DEF SOCK!NoAddr
    <2>4. Holdable(f, i) /\ desc[f].owner # None
      BY <2>1, <2>2, <2>3, SameData DEF Holdable, Routes, FreeInv
    <2>5. queue[f] \in Seq(Sent) /\ \A j \in 1 .. Len(queue[f]) : Holdable(f, queue[f][j])
      BY <2>1 DEF DataInv, QueueInv
    <2> DEFINE q == Append(queue[f], i)
    <2>6. q \in Seq(Sent) /\ \A j \in 1 .. Len(q) : q[j] = i \/ (j \in 1 .. Len(queue[f]) /\ q[j] = queue[f][j])
      BY <1>1, <2>5, AppendElements
    <2>7. \A j \in 1 .. Len(q) : Holdable(f, q[j])
      BY <2>4, <2>5, <2>6
    <2>8. queue' = [queue EXCEPT ![f] = q]
      BY <1>4
    <2> HIDE DEF q
    <2> QED
      BY <1>0, <1>2, <2>1, <2>4, <2>6, <2>7, <2>8, QueueStep DEF DataInv, Kept
  <1>5. CASE queue' = queue
    BY <1>0, <1>2, <1>3, <1>5, QueueKept DEF DataInv, Kept
  <1> QED
    BY <1>0, <1>3, <1>4, <1>5 DEF Deliver, DataInv

LEMMA DataLose ==
  ASSUME SockInv, DataInv, NEW i \in flight, Lose(i)
  PROVE  Kept /\ DataInv'
  <1>0. Kept
    BY KeptUnchanged DEF Lose
  <1>1. HistoryInv' /\ GotInv'
    BY <1>0, FlightKept, GotKept DEF Lose, DataInv, Kept
  <1>2. QueueInv'
    BY <1>0, QueueKept DEF Lose, DataInv, Kept
  <1> QED
    BY <1>0, <1>1, <1>2 DEF DataInv
LEMMA DestinationType == DataInv /\ SOCKP!TypeOK => Destinations \subseteq EndpointType
  <1> SUFFICES ASSUME DataInv, SOCKP!TypeOK, NEW s \in Socks
               PROVE  AsGiven(sock[s].endpoint) \in EndpointType
    BY DEF Destinations, DataInv, GotInv
  <1>1. sock[s].endpoint \in SOCKP!Endpoints
    BY DEF SOCKP!TypeOK, SOCKP!SockType
  <1>2. \A a \in SOCKP!Endpoints : a.af \in Routes \cup {"none"} /\ a.port \in Ports \cup {0}
    BY DEF SOCKP!Endpoints, SOCKP!NoAddr, Routes
  <1> QED
    BY <1>1, <1>2 DEF AsGiven, EndpointType, Tails

LEMMA SeqMono == ASSUME NEW S, NEW T, S \subseteq T, NEW q \in Seq(S) PROVE q \in Seq(T)
  OBVIOUS

\* One more datagram was sent.
LEMMA DataSend ==
  ASSUME DataInv, Kept, NEW m \in Datagram, Len(sent) < MaxSends,
         sent' = Append(sent, m), flight' = flight \cup {Len(sent) + 1},
         m.src # 0, LET p == sock[m.by].endpoint.port IN p # 0 => m.src = p,
         UNCHANGED <<queue, ep, got>>
  PROVE  DataInv'
  <1>0. sent \in Seq(Datagram) /\ Len(sent) \in Nat
    BY DEF DataInv, HistoryInv
  <1>1. /\ sent' \in Seq(Datagram) /\ Len(sent') = Len(sent) + 1
        /\ sent'[Len(sent) + 1] = m /\ \A i \in Sent : sent'[i] = sent[i]
    BY <1>0 DEF Sent
  <1>2. Sent \subseteq Sent' /\ \A i \in Sent' : i \in Sent \/ i = Len(sent) + 1
    BY <1>0, <1>1 DEF Sent
  <1>3. \A i \in Sent : sent[i].by \in Socks
    BY SentType DEF DataInv, Datagram
  <1>4. Len(sent') <= MaxSends
    BY <1>0, <1>1, SlDatagramAssumption
  <1>5. flight' \subseteq Sent'
    <2>1. Len(sent) + 1 \in Sent'
      BY <1>0, <1>1 DEF Sent
    <2>2. flight \subseteq Sent
      BY DEF DataInv, HistoryInv
    <2> QED
      BY <1>2, <2>1, <2>2
  <1>6. ASSUME NEW i \in Sent'
        PROVE  /\ sent'[i].src # 0
               /\ LET p == sock'[sent'[i].by].endpoint.port IN p # 0 => sent'[i].src = p
    <2>1. CASE i \in Sent
      BY <1>1, <1>3, <2>1 DEF DataInv, HistoryInv, Kept, SameEndpoints
    <2>2. CASE i = Len(sent) + 1
      <3>1. sent'[i] = m /\ m.by \in Socks
        BY <1>1, <2>2 DEF Datagram
      <3> QED
        BY <3>1 DEF Kept, SameEndpoints
    <2> QED
      BY <1>2, <2>1, <2>2
  <1>7. HistoryInv'
    BY <1>1, <1>4, <1>5, <1>6 DEF HistoryInv
  <1>8. QueueInv'
    <2>1. \A f \in SOCK!Fds : queue[f] \in Seq(Sent) /\ queue[f] \in Seq(Sent')
      BY <1>2, SeqMono DEF DataInv, QueueInv
    <2>2. queue' \in [SOCK!Fds -> Seq(Sent')]
      BY <2>1 DEF DataInv, QueueInv
    <2>3. ASSUME NEW f \in SOCK!Fds, NEW j \in 1 .. Len(queue'[f])
          PROVE  LET a == desc'[f].addr IN
                 a # SOCK!NoAddr /\ (a.af = "v4" => sent'[queue'[f][j]].route = "v4")
      <3>1. queue'[f] = queue[f] /\ queue[f][j] \in Sent
        BY <2>1, <2>3
      <3>2. Holdable(f, queue[f][j])
        BY <2>3, <3>1 DEF DataInv, QueueInv
      <3> QED
        BY <1>1, <3>1, <3>2 DEF Holdable, Kept
    <2>4. \A f \in SOCK!Fds : desc'[f].owner = None => queue'[f] = <<>>
      BY DEF DataInv, QueueInv, Kept
    <2> QED
      BY <2>2, <2>3, <2>4 DEF QueueInv, Holdable
  <1>9. GotInv'
    <2>1. got.id # 0 => got.id \in Sent
      BY DEF DataInv, GotInv, Sent
    <2>2. got' \in [by : Socks \cup {None}, id : 0 .. Len(sent'), n : Lens \cup Caps \cup {0}]
      <3>1. 0 .. Len(sent) \subseteq 0 .. Len(sent')
        BY <1>0, <1>1
      <3> QED
        BY <3>1 DEF DataInv, GotInv
    <2> QED
      BY <1>1, <2>1, <2>2 DEF DataInv, GotInv, Kept, SameEndpoints
  <1> QED
    BY <1>7, <1>8, <1>9 DEF DataInv

\* sl_sock_send asserts the state of the struct: a bound one keeps its address.
LEMMA SendStep ==
  ASSUME AssertedCaller, SockInv, DataInv, NEW s \in Socks, NEW len \in Lens,
         NEW e \in Destinations, sl_sock_send(s, len, e)
  PROVE  Kept /\ DataInv'
  <1> DEFINE f == sock[s].fd
             a == desc[f].addr
             m == [by |-> s, route |-> Route(e), src |-> a.port, dst |-> e.port, len |-> len]
  <1>1. CASE SOCK!AssertFails(AssertBound(s)) /\ UNCHANGED <<sent, flight>>
    BY <1>1, KeptAssert, DataKept DEF sl_sock_send
  <1>2. CASE SOCK!Fails(s, sock[s], desc) /\ UNCHANGED <<sent, flight>>
    BY <1>2, KeptReturn, DataKept DEF sl_sock_send
  <1>3. ASSUME SOCK!SL_ASSERT(AssertBound(s)), Len(sent) < MaxSends, Reachable(f, e),
               NEW b \in Sources(f), SOCK!Ok(s, sock[s], [desc EXCEPT ![f].addr = b]),
               sent' = Append(sent, [by |-> s, route |-> Route(e), src |-> b.port,
                                     dst |-> e.port, len |-> len]),
               flight' = flight \cup {Len(sent) + 1}
        PROVE  Kept /\ DataInv'
    <2>1. sock[s].state = "BOUND"
      BY <1>3 DEF SOCK!SL_ASSERT, AssertBound, AssertedCaller
    <2>2. /\ f \in SOCK!Fds /\ desc[f].owner = s
          /\ a \in SOCK!Endpoints /\ a # SOCK!NoAddr /\ a.port # 0
          /\ sock[s].endpoint.port # 0 => a.port = sock[s].endpoint.port
      BY <2>1, BoundSocket
    <2>3. b = a
      BY <1>3, <2>2 DEF Sources
    <2>4. desc \in [SOCK!Fds -> SOCKP!DescType]
      BY SameData DEF SockInv, SOCKP!TypeOK
    <2>5. [desc EXCEPT ![f].addr = a] = desc
      BY <2>2, <2>4 DEF SOCKP!DescType
    <2>6. Kept
      BY <1>3, <2>3, <2>5, KeptReturn
    <2>7. a.port \in Ports
      BY <2>2 DEF SOCK!Endpoints
    <2>8. e.port \in Ports /\ Route(e) \in Routes
      BY <1>3, DestinationType DEF Reachable, EndpointType, Route, Routes, SockInv
    <2>9. m \in Datagram /\ m.src = a.port /\ m.by = s
      BY <2>7, <2>8 DEF Datagram
    <2>10. sent' = Append(sent, m) /\ UNCHANGED <<queue, ep, got>>
      BY <1>3, <2>3 DEF sl_sock_send
    <2> HIDE DEF m
    <2> QED
      BY <1>3, <2>2, <2>6, <2>9, <2>10, DataSend
  <1> QED
    BY <1>1, <1>2, <1>3 DEF sl_sock_send

\* sl_sock_recv fills in the endpoint as GotInv says.
LEMMA TakesStep ==
  ASSUME SockInv, DataInv, NEW s \in Socks, NEW cap \in Caps, sock[s].state = "BOUND",
         Takes(s, cap), UNCHANGED <<sent, flight>>
  PROVE  Kept /\ DataInv'
  <1> DEFINE f == sock[s].fd
             i == Head(queue[f])
  <1>1. /\ f \in SOCK!Fds /\ desc[f].owner = s /\ desc[f].addr.af = sock[s].endpoint.af
        /\ sock[s].endpoint.af \in {"v4", "v6"}
    BY BoundSocket
  <1>2. queue[f] \in Seq(Sent) /\ queue[f] # <<>>
    BY <1>1 DEF DataInv, QueueInv, Takes
  <1>3. i \in Sent /\ i = queue[f][1] /\ 1 \in 1 .. Len(queue[f])
    BY <1>2
  <1>4. /\ Tail(queue[f]) \in Seq(Sent)
        /\ \A j \in 1 .. Len(Tail(queue[f])) :
             j + 1 \in 1 .. Len(queue[f]) /\ Tail(queue[f])[j] = queue[f][j + 1]
    BY <1>2
  <1>5. Holdable(f, i) /\ \A j \in 1 .. Len(Tail(queue[f])) : Holdable(f, Tail(queue[f])[j])
    BY <1>1, <1>3, <1>4 DEF DataInv, QueueInv
  <1>6. sent[i] \in Datagram
    BY <1>3, SentType DEF DataInv
  <1>7. Kept
    BY KeptReturn DEF Takes
  <1>8. /\ queue' = [queue EXCEPT ![f] = Tail(queue[f])] /\ ep' = Received(s, sent[i])
        /\ got' \in [by : {s}, id : {i}, n : {0, cap, sent[i].len}]
    BY DEF Takes
  <1>9. QueueInv'
    <2>1. desc[f].owner # None
      BY <1>1, Assumed
    <2> QED
      BY <1>1, <1>4, <1>5, <1>7, <1>8, <2>1, QueueStep DEF DataInv, Kept
  <1>10. GotInv'
    <2>1. /\ sent[i].src \in Ports /\ sent[i].len \in Lens /\ sent[i].route \in Routes
      BY <1>6 DEF Datagram
    <2>2. ep \in EndpointType
      BY DEF DataInv, GotInv
    <2>3. /\ ep' \in EndpointType /\ ep'.port = sent[i].src
          /\ IF sock[s].endpoint.af = "v4" THEN ep'.af = "v4"
             ELSE ep'.af = "v6" /\ ep'.tail = IF sent[i].route = "v4" THEN "mapped" ELSE "native"
      BY <1>8, <2>1, <2>2 DEF Received, EndpointType, Routes, Tails
    <2>4. sock[s].endpoint.af = "v4" => sent[i].route = "v4"
      BY <1>1, <1>5 DEF Holdable
    <2>5. got' \in [by : Socks \cup {None}, id : 0 .. Len(sent'), n : Lens \cup Caps \cup {0}]
      BY <1>3, <1>8, <2>1 DEF Sent
    <2>6. got'.by = s /\ got'.id = i
      BY <1>8
    <2> QED
      BY <1>7, <2>3, <2>4, <2>5, <2>6 DEF GotInv, Kept, SameEndpoints
  <1>11. HistoryInv'
    BY <1>7, FlightKept DEF DataInv, Kept
  <1> QED
    BY <1>7, <1>9, <1>10, <1>11 DEF DataInv

LEMMA RecvStep ==
  ASSUME AssertedCaller, SockInv, DataInv, NEW s \in Socks, NEW cap \in Caps,
         sl_sock_recv(s, cap)
  PROVE  Kept /\ DataInv'
  <1>1. CASE RecvTakes(s, cap)
    <2>1. sock[s].state = "BOUND"
      BY <1>1 DEF RecvTakes, SOCK!SL_ASSERT, AssertBound, AssertedCaller
    <2> QED
      BY <1>1, <2>1, TakesStep DEF RecvTakes
  <1>2. CASE RecvFails(s)
    BY <1>2, KeptAssert, KeptReturn, DataKept DEF RecvFails
  <1> QED
    BY <1>1, <1>2 DEF sl_sock_recv
-----------------------------------------------------------------------------
(* The theorems.                                                           *)

Inv == SockInv /\ FreeInv /\ DataInv

LEMMA KeptFree == FreeInv /\ Kept => FreeInv'
  BY DEF FreeInv, Kept

LEMMA CallStep ==
  ASSUME AssertedCaller, Inv, Drained,
         (\E s \in Socks : SOCKP!SockCall(s)) \/ SOCKP!HostCall
  PROVE  Inv'
  <1>1. SOCKP!Next
    BY DEF SOCKP!Next
  <1>2. Steady(desc') /\ SameEndpoints
    BY SteadyCall, SteadyHost DEF Inv, SockInv
  <1>3. FreeInv'
    BY <1>2 DEF FreeInv, Steady
  <1> QED
    BY <1>1, <1>2, <1>3, SockInvNext, DataCall DEF Inv

LEMMA InvNext == AssertedCaller /\ Inv /\ [Next]_vars => Inv'
  <1> SUFFICES ASSUME AssertedCaller, Inv, [Next]_vars PROVE Inv'
    OBVIOUS
  <1>0. Kept /\ DataInv' => Inv'
    BY KeptFree DEF Inv, Kept
  <1>1. ASSUME NEW s \in Socks, SockCall(s) PROVE Inv'
    BY <1>1, SameSockCall, CallStep DEF SockCall
  <1>2. CASE HostCall
    BY <1>2, SameHostCall, CallStep DEF HostCall
  <1>3. ASSUME NEW s \in Socks, Transfer(s) PROVE Inv'
    BY <1>0, <1>3, SendStep, RecvStep DEF Transfer, Inv
  <1>4. ASSUME NEW i \in flight, Arrival(i) PROVE Inv'
    BY <1>0, <1>4, DataDeliver, DataLose DEF Arrival, Inv
  <1>5. CASE UNCHANGED vars
    BY <1>0, <1>5, KeptUnchanged, DataKept DEF vars, Inv
  <1> QED
    BY <1>1, <1>2, <1>3, <1>4, <1>5 DEF Next

LEMMA InvInit == AssertedCaller /\ Init => Inv
  BY SockInvInit, FreeInvInit, DataInvInit DEF Init, Inv

LEMMA InvSafe == AssertedCaller /\ Spec => []Inv
  <1>1. AssertedCaller => []AssertedCaller
    OBVIOUS
  <1> QED
    BY <1>1, InvInit, InvNext, PTL DEF Spec

\* Type correctness of sockets, datagrams, queues and the caller's endpoint.
THEOREM TypeSafe == AssertedCaller /\ Spec => []TypeOK
  <1>1. SOCKP!TypeOK => SOCK!TypeOK
    BY DEF SOCK!TypeOK, SOCKP!TypeOK, SOCK!SockType, SOCKP!SockType, SOCK!DescType,
           SOCKP!DescType, SOCK!Fds, SOCKP!Fds, SOCK!States, SOCKP!States, SOCK!Flags,
           SOCKP!Flags, SOCK!Errors, SOCKP!Errors, SOCK!Endpoints, SOCKP!Endpoints,
           SOCK!NoAddr, SOCKP!NoAddr
  <1>2. Inv => TypeOK
    BY <1>1 DEF Inv, SockInv, DataInv, HistoryInv, QueueInv, GotInv, Sent, TypeOK
  <1> QED
    BY <1>2, InvSafe, PTL

\* An answer sent to the endpoint that a receive filled in goes to the address
\* and by the protocol of the datagram received, whatever that endpoint held
\* before, whichever structs received into it and whatever the network did.
THEOREM ReplySafe == AssertedCaller /\ Spec => []ReplyReaches
  <1>1. ASSUME Inv, got.id # 0, sock[got.by].state = "BOUND"
        PROVE  LET m == sent[got.id] IN
               /\ Reachable(sock[got.by].fd, ep)
               /\ Route(ep) = m.route /\ ep.port = m.src
    <2>1. /\ got.by \in Socks /\ got.id \in Sent /\ sent[got.id] \in Datagram
          /\ ep.port = sent[got.id].src /\ sent[got.id].src # 0
      BY <1>1, SentType DEF Inv, DataInv, GotInv, HistoryInv, Sent
    <2>2. /\ desc[sock[got.by].fd].owner = got.by
          /\ sock[got.by].endpoint.af \in {"v4", "v6"}
      BY <1>1, <2>1, BoundSocket DEF Inv
    <2>3. sent[got.id].route \in {"v4", "v6"}
      BY <2>1 DEF Datagram, Routes
    <2>4. /\ ep.af = sock[got.by].endpoint.af
          /\ ep.af = "v4" => sent[got.id].route = "v4"
          /\ ep.af = "v6" => ep.tail = IF sent[got.id].route = "v4" THEN "mapped" ELSE "native"
      BY <1>1, <2>2 DEF Inv, DataInv, GotInv
    <2> QED
      BY <2>1, <2>2, <2>3, <2>4 DEF Reachable, Route
  <1>2. Inv => ReplyReaches
    BY <1>1 DEF ReplyReaches
  <1> QED
    BY <1>2, InvSafe, PTL

\* A receiver can tell which struct a datagram came from by comparing the
\* endpoint it got with the sender's own.
THEOREM SenderSafe == AssertedCaller /\ Spec => []SenderRecognised
  <1>1. ASSUME Inv, got.id # 0,
               LET e == sock[sent[got.id].by].endpoint IN
               /\ e.af = sock[got.by].endpoint.af /\ e.port # 0
               /\ e.af = sent[got.id].route
        PROVE  LET e == sock[sent[got.id].by].endpoint IN
               ep.af = e.af /\ ep.port = e.port /\ (e.af = "v6" => ep.tail = "native")
    <2>1. /\ got.id \in Sent /\ sent[got.id] \in Datagram /\ ep.port = sent[got.id].src
      BY <1>1, SentType DEF Inv, DataInv, GotInv, Sent
    <2>2. ep.port = sock[sent[got.id].by].endpoint.port
      BY <1>1, <2>1 DEF Inv, DataInv, HistoryInv
    <2>3. sent[got.id].route \in {"v4", "v6"}
      BY <2>1 DEF Datagram, Routes
    <2> QED
      BY <1>1, <2>2, <2>3 DEF Inv, DataInv, GotInv
  <1>2. Inv => SenderRecognised
    BY <1>1 DEF SenderRecognised
  <1> QED
    BY <1>2, InvSafe, PTL
=============================================================================
