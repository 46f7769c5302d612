------------------------- MODULE SlExchange_proofs -------------------------
(* Proofs about SlExchange, for any number of descriptors, both platforms  *)
(* and whatever the host keeps open: no receive waits in vain, the test    *)
(* ends with no socket open, and what it receives is what it sent.         *)
EXTENDS SlExchange, TLAPS

Fds == DG!SOCK!Fds
NoAddr == DG!SOCK!NoAddr

-----------------------------------------------------------------------------
(* The inductive invariant.                                                *)

\* Structs and descriptors; an address is that of a struct, whose socket has it.
TypeInv ==
  /\ sock \in [Socks -> DG!SOCK!SockType]
  /\ desc \in [Fds -> DG!SOCK!DescType]
  /\ \A s \in Socks : sock[s].endpoint = EndpointOf[s]
  /\ \A f \in Fds : desc[f].addr = NoAddr
       \/ (desc[f].owner \in Socks /\ desc[f].addr = EndpointOf[desc[f].owner])

\* Every socket is in the fd of its struct, whatever failed, so that the close
\* of that struct closes it.
NoLeak ==
  \A f \in Fds, s \in Socks : desc[f].owner = s => sock[s].fd = f

NoneOf(s) == \A f \in Fds : desc[f].owner # s

\* Where the test has no socket of a struct open.
PcInv ==
  /\ pc \in {"setup", "open server", "finally client", "finally cleanup", "end"}
       => NoneOf(Server)
  /\ pc \in {"setup", "open server", "open client", "finally cleanup", "end"}
       => NoneOf(Client)

\* Until its first close the test calls no struct that has lost its socket: a
\* bound one holds it, at the address asked for.
Talking == {"setup", "open server", "open client", "client sends", "server receives",
            "server sends", "client receives"}
OwnInv ==
  \A s \in Socks : sock[s].state = "BOUND" =>
    sock[s].fd \in Fds /\ desc[sock[s].fd].owner = s /\ desc[sock[s].fd].addr = EndpointOf[s]

\* Until then a struct is new and has no socket, or it is open, and no socket
\* is out of its struct's reach.
Before(s) == {"setup", "open server"} \cup IF s = Client THEN {"open client"} ELSE {}
SidesInv ==
  /\ ~aborted /\ NoLeak
  /\ \A s \in Socks : pc \in Before(s) => sock[s].state = "NEW" /\ NoneOf(s)
  /\ \A s \in Socks : pc \notin Before(s) => sock[s].state = "BOUND"

\* The one datagram a struct sends.
Message(s) ==
  [by |-> s, route |-> "v4", src |-> EndpointOf[s].port,
   dst |-> EndpointOf[Peer(s)].port, len |-> Payload[s]]

\* Where the datagrams are: nowhere, or the one sent last is on its way to s or
\* alone in the queue of its socket.
Quiet == flight = {} /\ \A f \in Fds : queue[f] = <<>>
OnItsWay(i, s) ==
  \/ flight = {i} /\ \A f \in Fds : queue[f] = <<>>
  \/ flight = {} /\ \A f \in Fds : queue[f] = IF f = sock[s].fd THEN <<i>> ELSE <<>>
PathInv ==
  /\ pc \in {"setup", "open server", "open client", "client sends"} => sent = <<>> /\ Quiet
  /\ pc = "server receives" => sent = <<Message(Client)>> /\ OnItsWay(1, Server)
  /\ pc = "server sends" => sent = <<Message(Client)>> /\ Quiet
  /\ pc = "client receives" =>
       sent = Append(<<Message(Client)>>, Message(Server)) /\ OnItsWay(2, Client)

TalkInv == pc \in Talking => OwnInv /\ SidesInv /\ PathInv

\* Whatever is on its way, or waits in a queue, is such a datagram, and a queue
\* holds only those for the address of its socket.
DataInv ==
  /\ sent \in Seq({Message(s) : s \in Socks})
  /\ flight \subseteq 1 .. Len(sent)
  /\ queue \in [Fds -> Seq(Nat)]
  /\ \A f \in Fds : \A j \in 1 .. Len(queue[f]) :
       /\ queue[f][j] \in 1 .. Len(sent)
       /\ desc[f].addr = [af |-> "v4", port |-> sent[queue[f][j]].dst]
  /\ ep \in [af : {"none", "v4"}, port : Nat, tail : {"zero"}]

CloseInv == ~CloseMayFail => NoLeak /\ PcInv

IInv == TypeInv /\ TalkInv /\ DataInv /\ CloseInv /\ ReceivesWhatWasSent

-----------------------------------------------------------------------------
(* The data of the test.                                                   *)

LEMMA Assumed ==
  /\ MaxFd \in Nat /\ Server # Client
  /\ Host # None /\ Host \notin Socks /\ None \notin Socks
  /\ Pinned \subseteq Fds
  BY SlExchangeAssumption DEF DG!SlDatagramAssumption, DG!SOCK!SlSockAssumption, Fds

LEMMA Constants ==
  ASSUME NEW s \in Socks
  PROVE  /\ EndpointOf[s] = [af |-> "v4", port |-> EndpointOf[s].port]
         /\ EndpointOf[s].af = "v4"
         /\ EndpointOf[s].port \in Nat /\ EndpointOf[s].port # 0
         /\ EndpointOf[s] \in DG!SOCK!Endpoints /\ EndpointOf[s] # NoAddr
         /\ Payload[s] \in Nat /\ Payload[s] <= Memory
         /\ Peer(s) \in Socks /\ Peer(s) # s /\ Peer(Peer(s)) = s
         /\ EndpointOf[Peer(s)].port # EndpointOf[s].port
         /\ \A t \in Socks : t = s \/ t = Peer(s)
  <1>1. EndpointOf[s] = [af |-> "v4", port |-> IF s = Server THEN ServerPort ELSE ClientPort]
    BY DEF EndpointOf
  <1>2. ServerPort \in Nat /\ ClientPort \in Nat /\ ServerPort # 0 /\ ClientPort # 0
        /\ ServerPort # ClientPort
    BY DEF ServerPort, ClientPort
  <1>3. Peer(s) \in Socks /\ Peer(s) # s /\ Peer(Peer(s)) = s /\ \A t \in Socks : t = s \/ t = Peer(s)
    BY Assumed DEF Socks, Peer
  <1>4. EndpointOf[Peer(s)] = [af |-> "v4", port |-> IF Peer(s) = Server THEN ServerPort ELSE ClientPort]
    BY <1>3 DEF EndpointOf
  <1>5. EndpointOf[s] \in DG!SOCK!Endpoints
    BY <1>1 DEF DG!SOCK!Endpoints
  <1>6. EndpointOf[s] # NoAddr
    BY <1>1, <1>2 DEF NoAddr, DG!SOCK!NoAddr
  <1>7. Payload[s] \in Nat /\ Payload[s] <= Memory
    BY DEF Payload, Memory
  <1>8. EndpointOf[Peer(s)].port # EndpointOf[s].port
    BY <1>1, <1>2, <1>3, <1>4, Assumed DEF Socks, Peer
  <1> QED
    BY <1>1, <1>2, <1>3, <1>5, <1>6, <1>7, <1>8

-----------------------------------------------------------------------------
(* What each call does to structs and descriptors.                         *)

\* No struct but s is touched, and no endpoint.
SameBut(s) ==
  /\ sock' \in [Socks -> DG!SOCK!SockType]
  /\ \A t \in Socks : sock'[t].endpoint = EndpointOf[t]
  /\ \A t \in Socks : t # s => sock'[t] = sock[t]

Unmoved(s) ==
  SameBut(s) /\ desc' = desc /\ sock'[s].fd = sock[s].fd /\ sock'[s].state = sock[s].state

Opens(s, f, e) ==
  /\ SameBut(s)
  /\ f \in Fds /\ desc[f].owner = None
  /\ e \in DG!SOCK!DescType /\ e.owner = s /\ e.addr \in {NoAddr, EndpointOf[s]}
  /\ desc' = [desc EXCEPT ![f] = e]
  /\ sock'[s].fd = f
  /\ sock'[s].state = "BOUND" => e.addr = EndpointOf[s]

Closes(s) ==
  /\ SameBut(s)
  /\ desc' = [desc EXCEPT ![sock[s].fd] = DG!SOCK!Free]
  /\ sock'[s].fd = 0 /\ sock'[s].state = "CLOSED"

\* A file of the host is opened or closed.
Files(f, e) ==
  /\ sock' = sock
  /\ f \in Fds /\ desc[f].owner \in {None, Host}
  /\ desc[f].owner = None \/ e.owner = None
  /\ e \in DG!SOCK!DescType /\ e.owner \in {None, Host} /\ e.addr = NoAddr
  /\ desc' = [desc EXCEPT ![f] = e]

\* The stack goes down.
Stops ==
  /\ sock' = sock
  /\ desc' = [f \in Fds |-> IF desc[f].owner \in Socks THEN DG!SOCK!Free ELSE desc[f]]

LEMMA FreeFact ==
  /\ DG!SOCK!Free \in DG!SOCK!DescType
  /\ DG!SOCK!Free.owner = None /\ DG!SOCK!Free.addr = NoAddr
  <1>1. NoAddr \in DG!SOCK!Endpoints
    BY DEF NoAddr, DG!SOCK!Endpoints
  <1> QED
    BY <1>1 DEF DG!SOCK!Free, DG!SOCK!Descriptor, DG!SOCK!DescType, NoAddr

LEMMA Returned ==
  ASSUME TypeInv, NEW s \in Socks, NEW k \in DG!SOCK!SockType, k.endpoint = EndpointOf[s], NEW d,
         \/ DG!SOCK!Ok(s, k, d) \/ DG!SOCK!Fails(s, k, d)
         \/ DG!SOCK!Return(s, k, d, "SL_ERR")
  PROVE  desc' = d /\ SameBut(s) /\ sock'[s].fd = k.fd /\ sock'[s].state = k.state
  <1> DEFINE e == [k EXCEPT !.error = "errno"]
  <1>1. /\ e \in DG!SOCK!SockType /\ e.endpoint = EndpointOf[s]
        /\ e.fd = k.fd /\ e.state = k.state
    BY DEF DG!SOCK!SockType, DG!SOCK!Errors
  <1> HIDE DEF e
  <1>2. desc' = d /\ (sock' = [sock EXCEPT ![s] = k] \/ sock' = [sock EXCEPT ![s] = e])
    BY DEF DG!SOCK!Ok, DG!SOCK!Fails, DG!SOCK!Return, e
  <1> QED
    BY <1>1, <1>2 DEF TypeInv, SameBut

LEMMA NotMoved ==
  ASSUME TypeInv, NEW s \in Socks, sock' = sock, desc' = desc
  PROVE  Unmoved(s)
  BY DEF TypeInv, Unmoved, SameBut

LEMMA OpenMoves ==
  ASSUME TypeInv, NEW s \in Socks, DG!SOCK!socklynx_socket_open(s)
  PROVE  Unmoved(s) \/ \E f, e : Opens(s, f, e)
  <1>1. sock[s] \in DG!SOCK!SockType /\ sock[s].endpoint = EndpointOf[s] /\ EndpointOf[s].af = "v4"
    BY Constants DEF TypeInv
  <1>2. CASE DG!SOCK!AssertFails(DG!SOCK!AssertCreate(s))
    BY <1>2, NotMoved DEF DG!SOCK!AssertFails
  <1>3. CASE DG!SOCK!CreateFails(s)
    <2>1. DG!SOCK!Fails(s, sock[s], desc)
      BY <1>1, <1>3 DEF DG!SOCK!CreateFails
    <2> QED
      BY <1>1, <2>1, Returned DEF Unmoved
  <1>4. ASSUME NEW f \in DG!SOCK!NextFds,
               DG!SOCK!BindFrom(s, DG!SOCK!Created(s, f), DG!SOCK!WithSocket(s, f, FALSE))
        PROVE  \E e : Opens(s, f, e)
    <2> DEFINE k == DG!SOCK!Created(s, f)
               d == DG!SOCK!WithSocket(s, f, FALSE)
               b == [k EXCEPT !.state = "BOUND"]
    <2>1. f \in Fds /\ desc[f].owner = None
      BY DEF DG!SOCK!NextFds, DG!SOCK!FreeFds, Fds
    <2>2. k = [sock[s] EXCEPT !.fd = f, !.state = "CREATED"]
      BY <1>1 DEF DG!SOCK!Created, DG!SOCK!CreatedFlags, DG!SOCK!SockType
    <2>3. /\ k \in DG!SOCK!SockType /\ k.endpoint = EndpointOf[s]
          /\ k.fd = f /\ k.state = "CREATED"
      BY <1>1, <2>1, <2>2 DEF DG!SOCK!SockType, DG!SOCK!States, Fds
    <2> HIDE DEF k
    <2>4. /\ b \in DG!SOCK!SockType /\ b.endpoint = EndpointOf[s]
          /\ b.fd = f /\ b.state = "BOUND"
      BY <2>3 DEF DG!SOCK!SockType, DG!SOCK!States
    <2> HIDE DEF b
    <2>5. ASSUME NEW a \in {NoAddr, EndpointOf[s]}
          PROVE  /\ DG!SOCK!Descriptor(s, a, FALSE) \in DG!SOCK!DescType
                 /\ DG!SOCK!Descriptor(s, a, FALSE).owner = s
                 /\ DG!SOCK!Descriptor(s, a, FALSE).addr = a
      <3>1. NoAddr \in DG!SOCK!Endpoints
        BY DEF NoAddr, DG!SOCK!Endpoints
      <3>2. a \in DG!SOCK!Endpoints
        BY <3>1, Constants
      <3> QED
        BY <3>2 DEF DG!SOCK!Descriptor, DG!SOCK!DescType
    <2>6. d = [desc EXCEPT ![f] = DG!SOCK!Descriptor(s, NoAddr, FALSE)]
      BY DEF DG!SOCK!WithSocket, NoAddr
    <2>7. CASE DG!SOCK!Fails(s, k, d)
      <3>1. desc' = d /\ SameBut(s) /\ sock'[s].fd = f /\ sock'[s].state = "CREATED"
        BY <2>3, <2>7, Returned
      <3>2. Opens(s, f, DG!SOCK!Descriptor(s, NoAddr, FALSE))
        BY <2>1, <2>5, <2>6, <3>1 DEF Opens
      <3> QED
        BY <3>2
    <2>8. ASSUME NEW a \in DG!SOCK!BindAddrs(d, k.fd, k.endpoint),
                 DG!SOCK!Ok(s, b, [d EXCEPT ![k.fd].addr = a])
          PROVE  \E e : Opens(s, f, e)
      <3>1. a = EndpointOf[s]
        BY <2>3, Constants DEF DG!SOCK!BindAddrs
      <3>2. desc' = [d EXCEPT ![f].addr = a] /\ SameBut(s) /\ sock'[s].fd = f
        BY <2>3, <2>4, <2>8, Returned
      <3> DEFINE r == d[f]
                 e == [r EXCEPT !.addr = a]
      <3>3. r = DG!SOCK!Descriptor(s, NoAddr, FALSE)
        BY <2>1, <2>6 DEF TypeInv
      <3>4. r \in DG!SOCK!DescType /\ r.owner = s
        BY <2>5, <3>3
      <3>5. desc' = [desc EXCEPT ![f] = e]
        BY <2>1, <2>6, <3>2 DEF TypeInv
      <3> HIDE DEF r
      <3>6. e \in DG!SOCK!DescType /\ e.owner = s /\ e.addr = EndpointOf[s]
        BY <3>1, <3>4, Constants DEF DG!SOCK!DescType
      <3> HIDE DEF e
      <3>7. Opens(s, f, e)
        BY <2>1, <3>2, <3>5, <3>6 DEF Opens
      <3> QED
        BY <3>7
    <2> QED
      BY <1>4, <2>7, <2>8 DEF DG!SOCK!BindFrom, k, b
  <1> QED
    BY <1>2, <1>3, <1>4 DEF DG!SOCK!socklynx_socket_open

\* An open of a new struct does not abort, and succeeds only when it is bound.
LEMMA OpenResult ==
  ASSUME TypeInv, NEW s \in Socks, ~aborted, sock[s].state = "NEW",
         DG!SOCK!socklynx_socket_open(s)
  PROVE  ~aborted' /\ (CallOk => sock'[s].state = "BOUND")
  <1>1. DG!SOCK!AssertCreate(s) /\ sock[s] \in DG!SOCK!SockType
    BY DEF DG!SOCK!AssertCreate, TypeInv
  <1>2. ASSUME NEW k, NEW d, DG!SOCK!Fails(s, k, d) \/ DG!SOCK!Return(s, k, d, "SL_ERR")
        PROVE  ~aborted' /\ ~CallOk
    BY <1>2 DEF DG!SOCK!Fails, DG!SOCK!Return, CallOk
  <1>3. CASE DG!SOCK!CreateFails(s)
    BY <1>2, <1>3 DEF DG!SOCK!CreateFails
  <1>4. ASSUME NEW f \in DG!SOCK!NextFds,
               DG!SOCK!BindFrom(s, DG!SOCK!Created(s, f), DG!SOCK!WithSocket(s, f, FALSE))
        PROVE  ~aborted' /\ (CallOk => sock'[s].state = "BOUND")
    <2> DEFINE k == DG!SOCK!Created(s, f)
               b == [k EXCEPT !.state = "BOUND"]
    <2>1. k = [sock[s] EXCEPT !.fd = f, !.state = "CREATED"]
      BY <1>1, Constants DEF TypeInv, DG!SOCK!Created, DG!SOCK!CreatedFlags, DG!SOCK!SockType
    <2>2. b.state = "BOUND"
      BY <1>1, <2>1 DEF DG!SOCK!SockType
    <2> HIDE DEF k, b
    <2>3. ASSUME NEW d, DG!SOCK!Ok(s, b, d)
          PROVE  ~aborted' /\ sock'[s].state = "BOUND"
      BY <2>2, <2>3 DEF DG!SOCK!Ok, DG!SOCK!Return, TypeInv
    <2> QED
      BY <1>2, <1>4, <2>3 DEF DG!SOCK!BindFrom, k, b
  <1> QED
    BY <1>1, <1>3, <1>4 DEF DG!SOCK!socklynx_socket_open, DG!SOCK!AssertFails

LEMMA CloseMoves ==
  ASSUME TypeInv, NEW s \in Socks, DG!SOCK!socklynx_socket_close(s)
  PROVE  \/ Closes(s)
         \/ Unmoved(s) /\ (~DG!SOCK!Accepts(sock[s].fd) \/ CloseMayFail) /\ last'.rv = "SL_ERR"
  <1>1. /\ sock[s] \in DG!SOCK!SockType /\ sock[s].endpoint = EndpointOf[s]
        /\ 0 \in Fds
    BY Assumed DEF TypeInv, Fds, DG!SOCK!Fds
  <1>2. CASE DG!SOCK!Ok(s, DG!SOCK!Closed(sock[s]), DG!SOCK!Released(sock[s].fd))
    <2> DEFINE k == DG!SOCK!Closed(sock[s])
    <2>1. /\ k \in DG!SOCK!SockType /\ k.endpoint = EndpointOf[s] /\ k.fd = 0 /\ k.state = "CLOSED"
      BY <1>1 DEF DG!SOCK!Closed, DG!SOCK!SockType, DG!SOCK!States, Fds
    <2> HIDE DEF k
    <2>2. DG!SOCK!Ok(s, k, DG!SOCK!Released(sock[s].fd))
      BY <1>2 DEF k
    <2> QED
      BY <2>1, <2>2, Returned DEF Closes, DG!SOCK!Released
  <1>3. CASE DG!SOCK!Fails(s, sock[s], desc) /\ (~DG!SOCK!Accepts(sock[s].fd) \/ CloseMayFail)
    <2>1. Unmoved(s)
      BY <1>1, <1>3, Returned DEF Unmoved
    <2>2. last'.rv = "SL_ERR"
      BY <1>3 DEF DG!SOCK!Fails, DG!SOCK!Return
    <2> QED
      BY <1>3, <2>1, <2>2
  <1> QED
    BY <1>2, <1>3 DEF DG!SOCK!socklynx_socket_close

LEMMA HostMoves ==
  ASSUME TypeInv, DG!SOCK!HostOpen \/ DG!SOCK!HostClose
  PROVE  (\E f, e : Files(f, e)) /\ aborted' = aborted
  <1>1. sock' = sock /\ aborted' = aborted
    BY DEF DG!SOCK!HostOpen, DG!SOCK!HostClose, DG!SOCK!HostReturn
  <1>2. CASE DG!SOCK!HostOpen
    <2> DEFINE e == DG!SOCK!Descriptor(Host, NoAddr, FALSE)
    <2>1. PICK f \in DG!SOCK!NextFds : desc' = [desc EXCEPT ![f] = e]
      BY <1>2 DEF DG!SOCK!HostOpen, NoAddr
    <2>2. f \in Fds /\ desc[f].owner = None
      BY DEF DG!SOCK!NextFds, DG!SOCK!FreeFds, Fds
    <2>3. NoAddr \in DG!SOCK!Endpoints
      BY DEF NoAddr, DG!SOCK!Endpoints
    <2>4. e \in DG!SOCK!DescType /\ e.owner = Host /\ e.addr = NoAddr
      BY <2>3 DEF DG!SOCK!Descriptor, DG!SOCK!DescType
    <2> HIDE DEF e
    <2>5. Files(f, e)
      BY <1>1, <2>1, <2>2, <2>4 DEF Files
    <2> QED
      BY <1>1, <2>5
  <1>3. CASE DG!SOCK!HostClose
    <2>1. PICK f \in Fds : desc[f].owner = Host /\ desc' = [desc EXCEPT ![f] = DG!SOCK!Free]
      BY <1>3 DEF DG!SOCK!HostClose, DG!SOCK!Released, Fds
    <2>2. Files(f, DG!SOCK!Free)
      BY <1>1, <2>1, FreeFact DEF Files
    <2> QED
      BY <1>1, <2>2
  <1> QED
    BY <1>2, <1>3

LEMMA ContextMoves ==
  ASSUME TypeInv, LIB!socklynx_setup(Context) \/ LIB!socklynx_cleanup(Context)
  PROVE  /\ sock' = sock /\ (desc' = desc \/ Stops)
         /\ LIB!socklynx_setup(Context) => desc' = desc
         /\ aborted' = aborted
  <1>1. LIB!SOCK!Fds = Fds /\ LIB!SOCK!Free = DG!SOCK!Free
    BY DEF Fds, LIB!SOCK!Fds, DG!SOCK!Fds, LIB!SOCK!Free, DG!SOCK!Free, LIB!SOCK!Descriptor,
           DG!SOCK!Descriptor, LIB!SOCK!NoAddr, DG!SOCK!NoAddr
  <1>2. LIB!SOCK!NetStart => sock' = sock /\ desc' = desc /\ aborted' = aborted
    BY DEF LIB!SOCK!NetStart, LIB!SOCK!HostReturn
  <1>3. LIB!SOCK!NetStop => Stops /\ aborted' = aborted
    BY <1>1 DEF LIB!SOCK!NetStop, LIB!SOCK!HostReturn, Stops
  <1>4. UNCHANGED LIB!sockvars => sock' = sock /\ desc' = desc /\ aborted' = aborted
    BY DEF LIB!sockvars
  <1> QED
    BY <1>2, <1>3, <1>4 DEF LIB!socklynx_setup, LIB!socklynx_cleanup, Stops

LEMMA NoAddrFact == NoAddr.af = "none" /\ NoAddr \in DG!SOCK!Endpoints
  BY DEF NoAddr, DG!SOCK!NoAddr, DG!SOCK!Endpoints

\* Only sockets have an address, and all addresses are IPv4.
LEMMA Addressed ==
  ASSUME TypeInv, NEW f \in Fds
  PROVE  /\ desc[f].addr.af # "v6"
         /\ desc[f].owner \notin Socks => desc[f].addr = NoAddr
         /\ \A s \in Socks : desc[f].addr = EndpointOf[s] => desc[f].owner = s
  <1>1. \A s \in Socks : EndpointOf[s] # NoAddr /\ EndpointOf[s].af = "v4"
    BY Constants
  <1>2. \A s, t \in Socks : EndpointOf[s] = EndpointOf[t] => s = t
    BY Constants
  <1> QED
    BY <1>1, <1>2, NoAddrFact DEF TypeInv

-----------------------------------------------------------------------------
(* What these moves preserve.                                              *)

\* A socket that stays open keeps its address.
Steady ==
  \A f \in Fds : desc[f].addr # NoAddr /\ desc'[f].owner # None => desc'[f].addr = desc[f].addr

NoNewOwners == \A f \in Fds, s \in Socks : desc'[f].owner = s => desc[f].owner = s

LEMMA UnmovedKeeps ==
  ASSUME TypeInv, NEW s \in Socks, Unmoved(s)
  PROVE  /\ TypeInv' /\ Steady /\ NoNewOwners
         /\ OwnInv => OwnInv'
         /\ NoLeak => NoLeak'
  <1>1. desc' = desc /\ \A t \in Socks : sock'[t].fd = sock[t].fd /\ sock'[t].state = sock[t].state
    BY DEF Unmoved, SameBut
  <1>2. TypeInv'
    BY DEF TypeInv, Unmoved, SameBut
  <1>3. Steady /\ NoNewOwners
    BY <1>1 DEF Steady, NoNewOwners
  <1>4. OwnInv => OwnInv'
    BY <1>1 DEF OwnInv
  <1>5. NoLeak => NoLeak'
    BY <1>1 DEF NoLeak
  <1> QED
    BY <1>2, <1>3, <1>4, <1>5

LEMMA OpensKeeps ==
  ASSUME TypeInv, NEW s \in Socks, NEW f, NEW e, Opens(s, f, e)
  PROVE  /\ TypeInv' /\ Steady
         /\ \A t \in Socks : t # s /\ NoneOf(t) => NoneOf(t)'
         /\ OwnInv => OwnInv'
         /\ NoLeak /\ NoneOf(s) => NoLeak'
  <1>1. /\ f \in Fds /\ desc[f].owner = None /\ desc[f].addr = NoAddr
        /\ desc \in [Fds -> DG!SOCK!DescType] /\ e \in DG!SOCK!DescType
        /\ e.owner = s /\ e.addr \in {NoAddr, EndpointOf[s]} /\ desc' = [desc EXCEPT ![f] = e]
    BY Addressed, Assumed DEF Opens, TypeInv
  <1>2. desc'[f] = e /\ \A g \in Fds : g # f => desc'[g] = desc[g]
    BY <1>1
  <1>3. s # None /\ \A t \in Socks : t # None
    BY Assumed
  <1>4. TypeInv'
    <2>1. sock' \in [Socks -> DG!SOCK!SockType] /\ \A t \in Socks : sock'[t].endpoint = EndpointOf[t]
      BY DEF Opens, SameBut
    <2>2. desc' \in [Fds -> DG!SOCK!DescType]
      BY <1>1
    <2>3. \A g \in Fds : desc'[g].addr = NoAddr
            \/ (desc'[g].owner \in Socks /\ desc'[g].addr = EndpointOf[desc'[g].owner])
      BY <1>1, <1>2 DEF TypeInv
    <2> QED
      BY <2>1, <2>2, <2>3 DEF TypeInv
  <1>5. Steady
    BY <1>1, <1>2 DEF Steady
  <1>6. \A t \in Socks : t # s /\ NoneOf(t) => NoneOf(t)'
    BY <1>1, <1>2 DEF NoneOf
  <1>7. /\ \A t \in Socks : t # s => sock'[t] = sock[t]
        /\ sock'[s].fd = f /\ (sock'[s].state = "BOUND" => e.addr = EndpointOf[s])
    BY DEF Opens, SameBut
  <1>8. ASSUME OwnInv PROVE OwnInv'
    <2>1. ASSUME NEW t \in Socks, sock'[t].state = "BOUND"
          PROVE  /\ sock'[t].fd \in Fds /\ desc'[sock'[t].fd].owner = t
                 /\ desc'[sock'[t].fd].addr = EndpointOf[t]
      <3>1. CASE t = s
        BY <1>1, <1>2, <1>7, <2>1, <3>1
      <3>2. CASE t # s
        BY <1>1, <1>2, <1>3, <1>7, <1>8, <2>1, <3>2 DEF OwnInv
      <3> QED
        BY <3>1, <3>2
    <2> QED
      BY <2>1 DEF OwnInv
  <1>9. NoLeak /\ NoneOf(s) => NoLeak'
    BY <1>1, <1>2, <1>7 DEF NoLeak, NoneOf
  <1> QED
    BY <1>4, <1>5, <1>6, <1>8, <1>9

LEMMA ClosesKeeps ==
  ASSUME TypeInv, NEW s \in Socks, Closes(s)
  PROVE  /\ TypeInv' /\ Steady /\ NoNewOwners
         /\ NoLeak => NoLeak' /\ NoneOf(s)'
  <1> DEFINE f == sock[s].fd
  <1>1. /\ f \in Fds /\ desc \in [Fds -> DG!SOCK!DescType]
        /\ desc' = [desc EXCEPT ![f] = DG!SOCK!Free]
    BY DEF Closes, TypeInv, DG!SOCK!SockType, Fds
  <1>2. desc'[f] = DG!SOCK!Free /\ \A g \in Fds : g # f => desc'[g] = desc[g]
    BY <1>1
  <1>3. \A t \in Socks : t # None
    BY Assumed
  <1>4. TypeInv'
    <2>1. sock' \in [Socks -> DG!SOCK!SockType] /\ \A t \in Socks : sock'[t].endpoint = EndpointOf[t]
      BY DEF Closes, SameBut
    <2>2. desc' \in [Fds -> DG!SOCK!DescType]
      BY <1>1, FreeFact
    <2>3. \A g \in Fds : desc'[g].addr = NoAddr
            \/ (desc'[g].owner \in Socks /\ desc'[g].addr = EndpointOf[desc'[g].owner])
      BY <1>2, FreeFact DEF TypeInv
    <2> QED
      BY <2>1, <2>2, <2>3 DEF TypeInv
  <1>5. Steady /\ NoNewOwners
    BY <1>2, <1>3, FreeFact DEF Steady, NoNewOwners
  <1>6. ASSUME NoLeak PROVE NoLeak' /\ NoneOf(s)'
    <2>1. NoneOf(s)'
      BY <1>2, <1>3, <1>6, FreeFact DEF NoLeak, NoneOf
    <2>2. \A t \in Socks : t # s => sock'[t] = sock[t]
      BY DEF Closes, SameBut
    <2>3. NoLeak'
      BY <1>5, <1>6, <2>1, <2>2 DEF NoLeak, NoNewOwners, NoneOf
    <2> QED
      BY <2>1, <2>3
  <1> QED
    BY <1>4, <1>5, <1>6

LEMMA FilesKeeps ==
  ASSUME TypeInv, NEW f, NEW e, Files(f, e)
  PROVE  /\ TypeInv' /\ Steady /\ NoNewOwners
         /\ OwnInv => OwnInv'
         /\ NoLeak => NoLeak'
  <1>1. /\ f \in Fds /\ desc \in [Fds -> DG!SOCK!DescType] /\ sock' = sock
        /\ desc[f].owner \in {None, Host} /\ e \in DG!SOCK!DescType
        /\ e.owner \in {None, Host} /\ e.addr = NoAddr /\ desc' = [desc EXCEPT ![f] = e]
    BY DEF Files, TypeInv
  <1>2. desc'[f] = e /\ \A g \in Fds : g # f => desc'[g] = desc[g]
    BY <1>1
  <1>3. \A t \in Socks : t # None /\ t # Host
    BY Assumed
  <1>4. TypeInv'
    <2>1. desc' \in [Fds -> DG!SOCK!DescType]
      BY <1>1
    <2>2. \A g \in Fds : desc'[g].addr = NoAddr
            \/ (desc'[g].owner \in Socks /\ desc'[g].addr = EndpointOf[desc'[g].owner])
      BY <1>1, <1>2 DEF TypeInv
    <2> QED
      BY <1>1, <2>1, <2>2 DEF TypeInv
  <1>5. Steady /\ NoNewOwners
    <2>1. desc[f].addr = NoAddr
      BY <1>1, <1>3, Addressed
    <2> QED
      BY <1>1, <1>2, <1>3, <2>1 DEF Steady, NoNewOwners
  <1>7. OwnInv => OwnInv'
    BY <1>1, <1>2, <1>3 DEF OwnInv
  <1>8. NoLeak => NoLeak'
    BY <1>1, <1>5 DEF NoLeak, NoNewOwners
  <1> QED
    BY <1>4, <1>5, <1>7, <1>8

LEMMA StopsKeeps ==
  ASSUME TypeInv, sock' = sock, desc' = desc \/ Stops
  PROVE  /\ TypeInv' /\ Steady /\ NoNewOwners
         /\ NoLeak => NoLeak'
  <1>1. desc \in [Fds -> DG!SOCK!DescType]
    BY DEF TypeInv
  <1>2. \A f \in Fds : desc'[f] \in {desc[f], DG!SOCK!Free}
    BY DEF Stops
  <1>3. \A t \in Socks : t # None
    BY Assumed
  <1>4. TypeInv'
    <2>1. desc' \in [Fds -> DG!SOCK!DescType]
      BY <1>1, FreeFact DEF Stops
    <2>2. \A f \in Fds : desc'[f].addr = NoAddr
            \/ (desc'[f].owner \in Socks /\ desc'[f].addr = EndpointOf[desc'[f].owner])
      BY <1>2, FreeFact DEF TypeInv
    <2> QED
      BY <2>1, <2>2 DEF TypeInv
  <1>5. Steady /\ NoNewOwners
    BY <1>2, <1>3, FreeFact DEF Steady, NoNewOwners
  <1>6. NoLeak => NoLeak'
    BY <1>5 DEF NoLeak, NoNewOwners
  <1> QED
    BY <1>4, <1>5, <1>6

LEMMA OwnersGone ==
  ASSUME NoNewOwners, NEW t \in Socks, NoneOf(t)
  PROVE  NoneOf(t)'
  BY DEF NoNewOwners, NoneOf

\* A close that fails although close() does not: the struct has no socket.
LEMMA CloseFails ==
  ASSUME TypeInv, NoLeak, NEW s \in Socks, ~DG!SOCK!Accepts(sock[s].fd)
  PROVE  NoneOf(s)
  <1>1. desc[sock[s].fd].owner # s
    BY Assumed DEF DG!SOCK!Accepts
  <1> QED
    BY <1>1 DEF NoLeak, NoneOf

LEMMA DataDrained ==
  ASSUME TypeInv, DataInv, Steady, DG!Drained
  PROVE  DataInv'
  <1>1. /\ sent' = sent /\ flight' = flight /\ ep' = ep
        /\ queue' = [f \in Fds |-> IF desc'[f].owner = None THEN <<>> ELSE queue[f]]
    BY DEF DG!Drained, Fds
  <1>2. queue \in [Fds -> Seq(Nat)]
    BY DEF DataInv
  <1>3. queue' \in [Fds -> Seq(Nat)]
    BY <1>1, <1>2
  <1>4. ASSUME NEW f \in Fds, NEW j \in 1 .. Len(queue'[f])
        PROVE  /\ queue'[f][j] \in 1 .. Len(sent)
               /\ desc'[f].addr = [af |-> "v4", port |-> sent[queue'[f][j]].dst]
    <2>1. queue'[f] = queue[f] /\ desc'[f].owner # None
      <3>1. queue'[f] = <<>> => FALSE
        BY <1>4
      <3> QED
        BY <1>1, <3>1
    <2>2. /\ queue[f][j] \in 1 .. Len(sent)
          /\ desc[f].addr = [af |-> "v4", port |-> sent[queue[f][j]].dst]
      BY <2>1 DEF DataInv
    <2>3. desc[f].addr # NoAddr
      BY <2>2, NoAddrFact
    <2> QED
      BY <2>1, <2>2, <2>3 DEF Steady
  <1> QED
    BY <1>1, <1>3, <1>4 DEF DataInv

\* A datagram that was sent.
LEMMA SentFact ==
  ASSUME DataInv, NEW i \in 1 .. Len(sent)
  PROVE  /\ sent[i].by \in Socks /\ sent[i] = Message(sent[i].by)
         /\ sent[i].route = "v4"
         /\ sent[i].src = EndpointOf[sent[i].by].port
         /\ sent[i].dst = EndpointOf[Peer(sent[i].by)].port
         /\ sent[i].len = Payload[sent[i].by]
  <1>1. sent[i] \in {Message(s) : s \in Socks}
    BY DEF DataInv
  <1>2. PICK s \in Socks : sent[i] = Message(s)
    BY <1>1
  <1>3. /\ Message(s).by = s /\ Message(s).route = "v4" /\ Message(s).src = EndpointOf[s].port
        /\ Message(s).dst = EndpointOf[Peer(s)].port /\ Message(s).len = Payload[s]
    BY DEF Message
  <1> QED
    BY <1>2, <1>3

LEMMA One ==
  ASSUME NEW a
  PROVE  /\ Append(<<>>, a) = <<a>> /\ Tail(<<a>>) = <<>>
         /\ Len(<<>>) = 0 /\ Len(<<a>>) = 1 /\ <<a>>[1] = a
         /\ Len(<<>>) + 1 = 1 /\ Len(<<a>>) + 1 = 2
         /\ \A b : Len(Append(<<a>>, b)) = 2 /\ Append(<<a>>, b)[2] = b
  OBVIOUS

\* Nothing is sent or arrives in a call that only drains queues.
LEMMA QuietDrained ==
  ASSUME DG!Drained, Quiet
  PROVE  sent' = sent /\ Quiet'
  BY DEF DG!Drained, Quiet, Fds

\* A datagram on its way to a struct stays on it while its socket is open.
LEMMA WayDrained ==
  ASSUME DataInv, DG!Drained, NEW s \in Socks, NEW i, OnItsWay(i, s),
         sock'[s].fd = sock[s].fd, desc'[sock[s].fd].owner # None
  PROVE  sent' = sent /\ OnItsWay(i, s)'
  <1>1. /\ sent' = sent /\ flight' = flight
        /\ queue' = [f \in Fds |-> IF desc'[f].owner = None THEN <<>> ELSE queue[f]]
    BY DEF DG!Drained, Fds
  <1> QED
    BY <1>1 DEF OnItsWay

\* The only socket at the address of an open struct is its own.
LEMMA OneReceiver ==
  ASSUME TypeInv, NoLeak, OwnInv, NEW s \in Socks, sock[s].state = "BOUND",
         NEW m, m.route = "v4", m.dst = EndpointOf[s].port
  PROVE  sock[s].fd \in Fds /\ DG!Receivers(m) = {sock[s].fd}
  <1> DEFINE f == sock[s].fd
  <1>1. f \in Fds /\ desc[f].owner = s /\ desc[f].addr = EndpointOf[s]
    BY DEF OwnInv
  <1>2. EndpointOf[s] = [af |-> "v4", port |-> m.dst]
    BY Constants
  <1>3. \A g \in Fds : desc[g].addr = EndpointOf[s] => g = f
    BY Addressed DEF NoLeak
  <1>4. DG!Bound("v4", m.dst) = {f}
    BY <1>1, <1>2, <1>3 DEF DG!Bound, Fds
  <1> QED
    BY <1>1, <1>4 DEF DG!Receivers

\* A datagram on its way to an open struct reaches the queue of its socket.
LEMMA WayArrives ==
  ASSUME TypeInv, NoLeak, OwnInv, DataInv, NEW s \in Socks, sock[s].state = "BOUND",
         NEW i \in flight, OnItsWay(i, s), DG!Deliver(i), sent[i].dst = EndpointOf[s].port
  PROVE  OnItsWay(i, s)'
  <1> DEFINE f == sock[s].fd
  <1>1. flight = {i} /\ queue \in [Fds -> Seq(Nat)] /\ \A g \in Fds : queue[g] = <<>>
    BY DEF OnItsWay, DataInv
  <1>2. f \in Fds /\ DG!Receivers(sent[i]) = {f}
    <2>1. sent[i].route = "v4"
      BY SentFact DEF DataInv
    <2> QED
      BY <2>1, OneReceiver
  <1>3. sock' = sock /\ flight' = {}
    BY <1>1 DEF DG!Deliver, DG!sockvars
  <1>4. queue[f] = <<>> /\ Len(queue[f]) = 0
    BY <1>1, <1>2, One
  <1>5. queue' = [queue EXCEPT ![f] = Append(@, i)]
    <2>1. f \in DG!Receivers(sent[i]) /\ \A g \in DG!Receivers(sent[i]) : g = f
      BY <1>2
    <2>2. Len(queue[f]) # 1
      BY <1>4
    <2>3. PICK g \in DG!Receivers(sent[i]) : queue' = [queue EXCEPT ![g] = Append(@, i)]
      BY <2>1, <2>2 DEF DG!Deliver
    <2> QED
      BY <2>1, <2>3
  <1>6. Append(queue[f], i) = <<i>>
    BY <1>4, One
  <1>7. \A g \in Fds : queue'[g] = IF g = f THEN <<i>> ELSE <<>>
    BY <1>1, <1>2, <1>5, <1>6
  <1> QED
    BY <1>3, <1>7 DEF OnItsWay

\* A delivered datagram joins the queue of a socket at the address it is for.
LEMMA DataArrives ==
  ASSUME TypeInv, DataInv, NEW i \in flight, DG!Deliver(i)
  PROVE  DataInv' /\ sock' = sock /\ desc' = desc
  <1>1. sock' = sock /\ desc' = desc /\ sent' = sent /\ ep' = ep
    BY DEF DG!Deliver, DG!sockvars
  <1>2. i \in 1 .. Len(sent) /\ flight' \subseteq flight /\ i \in Nat
    BY DEF DG!Deliver, DataInv
  <1>3. sent[i].route = "v4"
    BY <1>2, SentFact
  <1>4. CASE queue' = queue
    BY <1>1, <1>2, <1>4 DEF DataInv
  <1>5. ASSUME NEW g \in DG!Receivers(sent[i]), queue' = [queue EXCEPT ![g] = Append(@, i)]
        PROVE  DataInv'
    <2>1. g \in Fds /\ desc[g].addr = [af |-> "v4", port |-> sent[i].dst]
      <3>1. DG!Bound("v6", sent[i].dst) = {}
        BY Addressed DEF DG!Bound, Fds
      <3>2. g \in DG!Bound("v4", sent[i].dst)
        BY <1>3, <3>1 DEF DG!Receivers
      <3> QED
        BY <3>2 DEF DG!Bound, Fds
    <2>2. queue \in [Fds -> Seq(Nat)]
      BY DEF DataInv
    <2>3. queue' \in [Fds -> Seq(Nat)]
      BY <1>2, <1>5, <2>1, <2>2
    <2>4. ASSUME NEW f \in Fds, NEW j \in 1 .. Len(queue'[f])
          PROVE  /\ queue'[f][j] \in 1 .. Len(sent)
                 /\ desc[f].addr = [af |-> "v4", port |-> sent[queue'[f][j]].dst]
      <3>1. CASE f # g
        <4>1. queue'[f] = queue[f]
          BY <1>5, <2>2, <3>1
        <4> QED
          BY <2>4, <4>1 DEF DataInv
      <3>2. CASE f = g
        <4>1. queue'[g] = Append(queue[g], i) /\ queue[g] \in Seq(Nat)
          BY <1>5, <2>1, <2>2
        <4>2. j \in 1 .. Len(queue[g]) \/ j = Len(queue[g]) + 1
          BY <2>4, <3>2, <4>1
        <4>3. CASE j \in 1 .. Len(queue[g])
          <5>1. queue'[g][j] = queue[g][j]
            BY <1>2, <4>1, <4>3
          <5> QED
            BY <2>1, <3>2, <4>3, <5>1 DEF DataInv
        <4>4. CASE j = Len(queue[g]) + 1
          <5>1. queue'[g][j] = i
            BY <1>2, <4>1, <4>4
          <5> QED
            BY <1>2, <2>1, <3>2, <5>1
        <4> QED
          BY <4>2, <4>3, <4>4
      <3> QED
        BY <3>1, <3>2
    <2> QED
      BY <1>1, <1>2, <2>3, <2>4 DEF DataInv
  <1> QED
    BY <1>1, <1>4, <1>5 DEF DG!Deliver

\* A bound struct sends its one datagram from its address.
LEMMA SendMoves ==
  ASSUME TypeInv, OwnInv, DataInv, NEW s \in Socks,
         DG!sl_sock_send(s, Payload[s], DG!AsGiven(EndpointOf[Peer(s)]))
  PROVE  /\ Unmoved(s) /\ DataInv'
         /\ ~aborted /\ sock[s].state = "BOUND" =>
              ~aborted' /\ (CallOk => /\ sent' = Append(sent, Message(s)) /\ queue' = queue
                                     /\ flight' = flight \cup {Len(sent) + 1})
  <1> DEFINE to == DG!AsGiven(EndpointOf[Peer(s)])
             f == sock[s].fd
  <1>1. queue' = queue /\ ep' = ep
    BY DEF DG!sl_sock_send
  <1>2. to.af = "v4" /\ to.port = EndpointOf[Peer(s)].port
    BY Constants DEF DG!AsGiven
  <1>3. sock[s] \in DG!SOCK!SockType /\ sock[s].endpoint = EndpointOf[s]
    BY DEF TypeInv
  <1>4. CASE DG!SOCK!AssertFails(DG!AssertBound(s)) /\ UNCHANGED <<sent, flight>>
    <2>1. sock' = sock /\ desc' = desc /\ sent' = sent /\ flight' = flight
      BY <1>4 DEF DG!SOCK!AssertFails
    <2> QED
      BY <1>1, <1>4, <2>1, NotMoved DEF DataInv, DG!SOCK!AssertFails, DG!AssertBound
  <1>5. CASE DG!SOCK!Fails(s, sock[s], desc) /\ UNCHANGED <<sent, flight>>
    <2>1. Unmoved(s)
      BY <1>3, <1>5, Returned DEF Unmoved
    <2>2. desc' = desc /\ sent' = sent /\ flight' = flight
      BY <1>5, <2>1 DEF Unmoved
    <2>3. aborted' = aborted /\ ~CallOk
      BY <1>5 DEF DG!SOCK!Fails, DG!SOCK!Return, CallOk
    <2> QED
      BY <1>1, <2>1, <2>2, <2>3 DEF DataInv
  <1>6. ASSUME DG!SOCK!SL_ASSERT(DG!AssertBound(s)), NEW a \in DG!Sources(f),
               DG!SOCK!Ok(s, sock[s], [desc EXCEPT ![f].addr = a]),
               sent' = Append(sent, [by |-> s, route |-> DG!Route(to), src |-> a.port,
                                     dst |-> to.port, len |-> Payload[s]]),
               flight' = flight \cup {Len(sent) + 1}
        PROVE  /\ Unmoved(s) /\ DataInv' /\ ~aborted'
               /\ sent' = Append(sent, Message(s))
    <2>1. sock[s].state = "BOUND"
      BY <1>6 DEF DG!SOCK!SL_ASSERT, DG!AssertBound
    <2>2. f \in Fds /\ desc[f].addr = EndpointOf[s]
      BY <2>1 DEF OwnInv
    <2>3. a = desc[f].addr /\ a.port = EndpointOf[s].port
      BY <1>6, <2>2, Constants DEF DG!Sources, NoAddr
    <2>4. [desc EXCEPT ![f].addr = a] = desc
      <3>1. desc \in [Fds -> DG!SOCK!DescType]
        BY DEF TypeInv
      <3>2. [desc[f] EXCEPT !.addr = a] = desc[f]
        BY <2>2, <2>3, <3>1 DEF DG!SOCK!DescType
      <3> QED
        BY <2>2, <3>1, <3>2
    <2>5. Unmoved(s)
      BY <1>3, <1>6, <2>4, Returned DEF Unmoved
    <2>6. DG!Route(to) = "v4"
      BY <1>2 DEF DG!Route
    <2>7. sent' = Append(sent, Message(s))
      BY <1>2, <1>6, <2>3, <2>6 DEF Message
    <2>8. sent \in Seq({Message(t) : t \in Socks}) /\ Message(s) \in {Message(t) : t \in Socks}
      BY DEF DataInv
    <2>9. /\ sent' \in Seq({Message(t) : t \in Socks}) /\ Len(sent') = Len(sent) + 1
          /\ Len(sent) \in Nat /\ \A i \in 1 .. Len(sent) : sent'[i] = sent[i]
      BY <2>7, <2>8
    <2>10. flight' \subseteq 1 .. Len(sent')
      BY <1>6, <2>9 DEF DataInv
    <2>11. desc' = desc
      BY <2>5 DEF Unmoved
    <2>12. ASSUME NEW g \in Fds, NEW j \in 1 .. Len(queue[g])
           PROVE  /\ queue[g][j] \in 1 .. Len(sent')
                  /\ desc[g].addr = [af |-> "v4", port |-> sent'[queue[g][j]].dst]
      <3>1. /\ queue[g][j] \in 1 .. Len(sent)
            /\ desc[g].addr = [af |-> "v4", port |-> sent[queue[g][j]].dst]
        BY DEF DataInv
      <3> QED
        BY <2>9, <3>1
    <2>13. ~aborted'
      BY <1>6 DEF DG!SOCK!SL_ASSERT, DG!SOCK!Ok, DG!SOCK!Return
    <2> QED
      BY <1>1, <2>5, <2>7, <2>9, <2>10, <2>11, <2>12, <2>13 DEF DataInv
  <1> QED
    BY <1>1, <1>4, <1>5, <1>6 DEF DG!sl_sock_send

\* What a bound struct takes from its queue is the datagram of the other one.
LEMMA RecvMoves ==
  ASSUME TypeInv, OwnInv, DataInv, NEW s \in Socks, DG!RecvTakes(s, Memory)
  PROVE  /\ Unmoved(s) /\ DataInv' /\ ~aborted' /\ (CallOk => Matches(s))
         /\ \A n : OnItsWay(n, s) => sent' = sent /\ Quiet'
  <1> DEFINE f == sock[s].fd
             i == Head(queue[f])
             m == sent[i]
  <1>1. /\ DG!SOCK!SL_ASSERT(DG!AssertBound(s)) /\ sent' = sent /\ flight' = flight
        /\ queue[f] # <<>> /\ queue' = [queue EXCEPT ![f] = Tail(@)]
        /\ ep' = DG!Received(s, m)
    BY DEF DG!RecvTakes, DG!Takes
  <1>2. f \in Fds /\ desc[f].owner = s /\ desc[f].addr = EndpointOf[s]
    BY <1>1 DEF OwnInv, DG!SOCK!SL_ASSERT, DG!AssertBound
  <1>3. queue \in [Fds -> Seq(Nat)] /\ queue[f] \in Seq(Nat)
    BY <1>2 DEF DataInv
  <1>4. Len(queue[f]) \in Nat /\ 1 \in 1 .. Len(queue[f]) /\ i = queue[f][1]
    BY <1>1, <1>3
  <1>5. i \in 1 .. Len(sent) /\ desc[f].addr = [af |-> "v4", port |-> sent[i].dst]
    BY <1>2, <1>4 DEF DataInv
  <1> HIDE DEF i
  <1>6. /\ m.by \in Socks /\ m.src = EndpointOf[m.by].port
        /\ m.dst = EndpointOf[Peer(m.by)].port /\ m.len = Payload[m.by]
    BY <1>5, SentFact
  <1>7. m.by = Peer(s)
    <2>1. m.dst = EndpointOf[s].port
      BY <1>2, <1>5
    <2>2. CASE m.by = s
      BY <1>6, <2>1, <2>2, Constants
    <2>3. CASE m.by # s
      BY <1>6, <2>3, Constants
    <2> QED
      BY <2>2, <2>3
  <1>8. m.src = EndpointOf[Peer(s)].port /\ m.len = Payload[Peer(s)] /\ m.len \in Nat /\ m.len <= Memory
    BY <1>6, <1>7, Constants
  <1> HIDE DEF m
  <1>9. ep' = [ep EXCEPT !.af = "v4", !.port = m.src]
    <2>1. sock[s].endpoint = EndpointOf[s] /\ EndpointOf[s].af = "v4"
      BY Constants DEF TypeInv
    <2> QED
      BY <1>1, <2>1 DEF DG!Received
  <1>10. /\ ep' \in [af : {"none", "v4"}, port : Nat, tail : {"zero"}]
         /\ ep'.port = m.src /\ ep'.af = "v4" /\ ep'.tail = "zero"
    <2>1. ep \in [af : {"none", "v4"}, port : Nat, tail : {"zero"}]
      BY DEF DataInv
    <2>2. m.src \in Nat
      BY <1>8, Constants
    <2> QED
      BY <1>9, <2>1, <2>2
  <1>11. DataInv' /\ Unmoved(s)
    <2>1. ~(Winsock /\ m.len > Memory)
      BY <1>8, Constants DEF Memory
    <2>2. DG!SOCK!Ok(s, sock[s], desc)
      BY <2>1 DEF DG!RecvTakes, DG!Takes, m, i
    <2>3. Unmoved(s)
      <3>1. sock[s] \in DG!SOCK!SockType /\ sock[s].endpoint = EndpointOf[s]
        BY DEF TypeInv
      <3> QED
        BY <2>2, <3>1, Returned DEF Unmoved
    <2>4. desc' = desc
      BY <2>3 DEF Unmoved
    <2>5. queue' \in [Fds -> Seq(Nat)] /\ queue'[f] = Tail(queue[f])
      BY <1>1, <1>2, <1>3
    <2>6. ASSUME NEW g \in Fds, NEW j \in 1 .. Len(queue'[g])
          PROVE  /\ queue'[g][j] \in 1 .. Len(sent)
                 /\ desc[g].addr = [af |-> "v4", port |-> sent[queue'[g][j]].dst]
      <3>1. CASE g # f
        <4>1. queue'[g] = queue[g]
          BY <1>1, <1>3, <3>1
        <4> QED
          BY <2>6, <4>1 DEF DataInv
      <3>2. CASE g = f
        <4>1. queue'[g][j] = queue[g][j + 1] /\ j + 1 \in 1 .. Len(queue[g])
          BY <1>1, <1>3, <2>5, <2>6, <3>2
        <4> QED
          BY <4>1 DEF DataInv
      <3> QED
        BY <3>1, <3>2
    <2> QED
      BY <1>1, <1>10, <2>3, <2>4, <2>5, <2>6 DEF DataInv
  <1>12. CallOk => Matches(s)
    <2>1. got'.n = Payload[Peer(s)] /\ got'.id = i
      <3>1. ~(Winsock /\ m.len > Memory) /\ ~(m.len > Memory)
        BY <1>8, Constants DEF Memory
      <3>2. got' = [by |-> s, id |-> i, n |-> m.len]
        BY <3>1 DEF DG!RecvTakes, DG!Takes, m, i
      <3> QED
        BY <1>8, <3>2
    <2>2. sent[got'.id].by = Peer(s)
      BY <1>7, <2>1 DEF m
    <2>3. [ep' EXCEPT !.af = "v4"] = DG!AsGiven(EndpointOf[Peer(s)])
      <3>1. DG!AsGiven(EndpointOf[Peer(s)])
              = [af |-> "v4", port |-> EndpointOf[Peer(s)].port, tail |-> "zero"]
        BY Constants DEF DG!AsGiven
      <3>2. [ep' EXCEPT !.af = "v4"] = [af |-> "v4", port |-> m.src, tail |-> "zero"]
        BY <1>10
      <3> QED
        BY <1>8, <3>1, <3>2
    <2> QED
      BY <2>1, <2>2, <2>3 DEF Matches
  <1>13. ~aborted'
    <2>1. ~aborted
      BY <1>1 DEF DG!SOCK!SL_ASSERT
    <2> QED
      BY <2>1 DEF DG!RecvTakes, DG!Takes, DG!SOCK!Ok, DG!SOCK!Fails, DG!SOCK!Return
  <1>14. ASSUME NEW n, OnItsWay(n, s) PROVE sent' = sent /\ Quiet'
    <2>1. flight = {} /\ \A g \in Fds : queue[g] = IF g = f THEN <<n>> ELSE <<>>
      BY <1>1, <1>2, <1>14 DEF OnItsWay
    <2>2. Tail(queue[f]) = <<>>
      <3>1. queue[f] = <<n>>
        BY <1>2, <2>1
      <3> QED
        BY <3>1, One
    <2>3. \A g \in Fds : queue'[g] = <<>>
      BY <1>1, <1>2, <1>3, <2>1, <2>2
    <2> QED
      BY <1>1, <2>1, <2>3 DEF Quiet
  <1> QED
    BY <1>11, <1>12, <1>13, <1>14

LEMMA FailsMoves ==
  ASSUME TypeInv, DataInv, NEW s \in Socks, DG!RecvFails(s)
  PROVE  Unmoved(s) /\ DataInv'
  <1>1. queue' = queue /\ ep' = ep /\ sent' = sent /\ flight' = flight
    BY DEF DG!RecvFails
  <1>2. Unmoved(s)
    <2>1. sock[s] \in DG!SOCK!SockType /\ sock[s].endpoint = EndpointOf[s]
      BY DEF TypeInv
    <2>2. CASE DG!SOCK!AssertFails(DG!AssertBound(s))
      BY <2>2, NotMoved DEF DG!SOCK!AssertFails
    <2>3. CASE DG!SOCK!Fails(s, sock[s], desc)
      BY <2>1, <2>3, Returned DEF Unmoved
    <2> QED
      BY <2>2, <2>3 DEF DG!RecvFails
  <1>3. desc' = desc
    BY <1>2 DEF Unmoved
  <1> QED
    BY <1>1, <1>2, <1>3 DEF DataInv

-----------------------------------------------------------------------------
(* The steps of the test.                                                  *)

LEMMA OpenStep ==
  ASSUME IInv, NEW s \in Socks, NEW at, NEW next, Open(s, at, next),
         \/ s = Server /\ at = "open server" /\ next = "open client"
         \/ s = Client /\ at = "open client" /\ next = "client sends"
  PROVE  IInv'
  <1>1. pc = at /\ pc \in Talking /\ DG!Drained /\ DG!SOCK!socklynx_socket_open(s)
    BY DEF Open, Talking
  <1>2. pc' \in {next, "finally server"} /\ failed' \in {failed, "call"}
    BY DEF Open, Then, Otherwise
  <1>3. TypeInv /\ OwnInv /\ DataInv
    BY <1>1 DEF IInv, TalkInv
  <1>4. TypeInv' /\ Steady /\ OwnInv' /\ (NoLeak /\ NoneOf(s) => NoLeak')
        /\ \A t \in Socks : t # s /\ NoneOf(t) => NoneOf(t)'
    <2>1. CASE Unmoved(s)
      BY <1>3, <2>1, UnmovedKeeps, OwnersGone
    <2>2. ASSUME NEW f, NEW e, Opens(s, f, e)
          PROVE  /\ TypeInv' /\ Steady /\ OwnInv' /\ (NoLeak /\ NoneOf(s) => NoLeak')
                 /\ \A t \in Socks : t # s /\ NoneOf(t) => NoneOf(t)'
      BY <1>3, <2>2, OpensKeeps
    <2> QED
      BY <1>1, <1>3, <2>1, <2>2, OpenMoves
  <1>5. DataInv'
    BY <1>1, <1>3, <1>4, DataDrained
  <1>6. TalkInv'
    <2> SUFFICES ASSUME pc' = next PROVE SidesInv' /\ PathInv'
      BY <1>2, <1>4 DEF TalkInv, Talking
    <2>1. SidesInv /\ PathInv
      BY <1>1 DEF IInv, TalkInv
    <2>2. sock[s].state = "NEW" /\ NoneOf(s) /\ NoLeak /\ ~aborted
      BY <1>1, <2>1, Assumed DEF SidesInv, Before
    <2>3. CallOk
      BY <1>1 DEF Open, Then, Otherwise
    <2>4. ~aborted' /\ sock'[s].state = "BOUND" /\ NoLeak'
      BY <1>1, <1>3, <1>4, <2>2, <2>3, OpenResult
    <2>5. \A t \in Socks : t # s => sock'[t].state = sock[t].state
      BY <1>1, <1>3, OpenMoves DEF Unmoved, Opens, SameBut
    <2>6. \A t \in Socks : t # s => (pc' \in Before(t) <=> pc \in Before(t))
      <3>1. CASE s = Server
        <4>1. \A t \in Socks : t # s => t = Client
          BY <3>1 DEF Socks
        <4>2. pc' \in Before(Client) /\ pc \in Before(Client)
          BY <1>1, <3>1, Assumed DEF Before
        <4> QED
          BY <4>1, <4>2
      <3>2. CASE s = Client
        <4>1. \A t \in Socks : t # s => t = Server
          BY <3>2 DEF Socks
        <4>2. pc' \notin Before(Server) /\ pc \notin Before(Server)
          BY <1>1, <3>2, Assumed DEF Before
        <4> QED
          BY <4>1, <4>2
      <3> QED
        BY <3>1, <3>2 DEF Socks
    <2>7. pc' \notin Before(s)
      BY Assumed DEF Before
    <2>8. SidesInv'
      <3>1. ASSUME NEW t \in Socks
            PROVE  /\ pc' \in Before(t) => sock'[t].state = "NEW" /\ NoneOf(t)'
                   /\ pc' \notin Before(t) => sock'[t].state = "BOUND"
        BY <1>4, <2>1, <2>4, <2>5, <2>6, <2>7 DEF SidesInv
      <3> QED
        BY <2>4, <3>1 DEF SidesInv
    <2>9. sent = <<>> /\ Quiet
      BY <1>1, <2>1 DEF PathInv
    <2>10. sent' = <<>> /\ Quiet'
      BY <1>1, <2>9, QuietDrained
    <2> QED
      BY <2>8, <2>10 DEF PathInv
  <1>7. ASSUME NoLeak, PcInv PROVE NoLeak' /\ PcInv'
    <2>1. NoneOf(s)
      BY <1>1, <1>7 DEF PcInv
    <2>2. s = Server => NoneOf(Client)'
      BY <1>1, <1>4, <1>7, Assumed DEF PcInv, Socks
    <2> QED
      BY <1>2, <1>4, <1>7, <2>1, <2>2, Assumed DEF PcInv
  <1>8. ReceivesWhatWasSent'
    BY <1>2 DEF IInv, ReceivesWhatWasSent
  <1> QED
    BY <1>4, <1>5, <1>6, <1>7, <1>8 DEF IInv, CloseInv

\* Once both structs are open they stay so until the first close.
Both == {"client sends", "server receives", "server sends", "client receives"}
LEMMA AllBound ==
  ASSUME SidesInv, pc \in Both, pc' \in Both, NoLeak', ~aborted',
         NEW s \in Socks, Unmoved(s)
  PROVE  SidesInv'
  <1>1. \A t \in Socks : pc \notin Before(t) /\ pc' \notin Before(t)
    BY DEF Before, Both
  <1>2. \A t \in Socks : sock'[t].state = sock[t].state
    BY DEF Unmoved, SameBut
  <1> QED
    BY <1>1, <1>2 DEF SidesInv

LEMMA SendStep ==
  ASSUME IInv, NEW s \in Socks, NEW at, NEW next, Send(s, at, next),
         \/ s = Client /\ at = "client sends" /\ next = "server receives"
         \/ s = Server /\ at = "server sends" /\ next = "client receives"
  PROVE  IInv'
  <1>1. pc = at /\ pc \in Talking /\ TypeInv /\ OwnInv /\ SidesInv /\ PathInv /\ DataInv
    BY DEF Send, Talking, IInv, TalkInv
  <1>2. pc' \in {next, "finally server"} /\ failed' \in {failed, "call"}
    BY DEF Send, Then, Otherwise
  <1>3. Unmoved(s) /\ DataInv'
    BY <1>1, SendMoves DEF Send
  <1>4. TypeInv' /\ OwnInv' /\ (NoLeak => NoLeak')
    BY <1>1, <1>3, UnmovedKeeps
  <1>5. PcInv' /\ ReceivesWhatWasSent'
    BY <1>2 DEF IInv, PcInv, ReceivesWhatWasSent
  <1>6. TalkInv'
    <2> SUFFICES ASSUME pc' = next PROVE SidesInv' /\ PathInv'
      BY <1>2, <1>4 DEF TalkInv, Talking
    <2>1. sock[s].state = "BOUND" /\ ~aborted
      BY <1>1 DEF SidesInv, Before
    <2>2. CallOk
      BY <1>1 DEF Send, Then, Otherwise
    <2>3. /\ ~aborted' /\ sent' = Append(sent, Message(s)) /\ queue' = queue
          /\ flight' = flight \cup {Len(sent) + 1}
      BY <1>1, <2>1, <2>2, SendMoves DEF Send
    <2>4. SidesInv'
      BY <1>1, <1>3, <1>4, <2>3, AllBound DEF Both, SidesInv
    <2>5. CASE s = Client
      <3>1. sent = <<>> /\ Quiet
        BY <1>1, <2>5, Assumed DEF PathInv
      <3>2. sent' = <<Message(Client)>> /\ flight' = {1} /\ \A f \in Fds : queue'[f] = <<>>
        <4>1. sent' = <<Message(Client)>>
          BY <2>3, <2>5, <3>1, One
        <4>2. Len(sent) + 1 = 1
          BY <3>1, One, Zenon
        <4>3. flight' = {Len(sent) + 1} /\ \A f \in Fds : queue'[f] = <<>>
          BY <2>3, <3>1 DEF Quiet
        <4> QED
          BY <4>1, <4>2, <4>3, Zenon
      <3> QED
        BY <2>4, <2>5, <3>2, Assumed DEF PathInv, OnItsWay
    <2>6. CASE s = Server
      <3>1. sent = <<Message(Client)>> /\ Quiet
        BY <1>1, <2>6, Assumed DEF PathInv
      <3>2. /\ sent' = Append(<<Message(Client)>>, Message(Server)) /\ flight' = {2}
            /\ \A f \in Fds : queue'[f] = <<>>
        <4>1. Len(sent) + 1 = 2
          BY <3>1, One, Zenon
        <4>2. sent' = Append(<<Message(Client)>>, Message(Server))
          BY <2>3, <2>6, <3>1, Zenon
        <4>3. flight' = {Len(sent) + 1} /\ \A f \in Fds : queue'[f] = <<>>
          BY <2>3, <3>1 DEF Quiet
        <4> QED
          BY <4>1, <4>2, <4>3, Zenon
      <3> QED
        BY <2>4, <2>6, <3>2, Assumed DEF PathInv, OnItsWay
    <2> QED
      BY <2>5, <2>6 DEF Socks
  <1> QED
    BY <1>3, <1>4, <1>5, <1>6 DEF IInv, CloseInv

\* A receive that answers brings what is compared with it: only a call that
\* fails leads to the finally block.
LEMMA RecvStep ==
  ASSUME IInv, NEW s \in Socks, NEW at, NEW next, Recv(s, at, next),
         \/ s = Server /\ at = "server receives" /\ next = "server sends"
         \/ s = Client /\ at = "client receives" /\ next = "close server"
  PROVE  IInv'
  <1>1. pc = at /\ pc \in Talking /\ TypeInv /\ OwnInv /\ SidesInv /\ PathInv /\ DataInv
    BY DEF Recv, Talking, IInv, TalkInv
  <1>2. /\ Unmoved(s) /\ DataInv' /\ ~aborted' /\ (CallOk => Matches(s))
        /\ \A n : OnItsWay(n, s) => sent' = sent /\ Quiet'
    BY <1>1, RecvMoves DEF Recv
  <1>3. pc' \in {next, "finally server"} /\ failed' \in {failed, "call"}
    BY <1>2 DEF Recv, Then, Otherwise
  <1>4. TypeInv' /\ OwnInv' /\ (NoLeak => NoLeak')
    BY <1>1, <1>2, UnmovedKeeps
  <1>5. PcInv' /\ ReceivesWhatWasSent'
    BY <1>3 DEF IInv, PcInv, ReceivesWhatWasSent
  <1>6. TalkInv'
    <2>1. CASE pc' = "finally server" \/ s = Client
      BY <1>3, <2>1, Assumed DEF TalkInv, Talking
    <2>2. CASE pc' = next /\ s = Server
      <3>1. SidesInv'
        BY <1>1, <1>2, <1>4, <2>2, AllBound, Assumed DEF Both, SidesInv
      <3>2. sent = <<Message(Client)>> /\ OnItsWay(1, Server)
        BY <1>1, <2>2, Assumed DEF PathInv
      <3>3. sent' = <<Message(Client)>> /\ Quiet'
        BY <1>2, <2>2, <3>2
      <3> QED
        BY <1>4, <2>2, <3>1, <3>3, Assumed DEF TalkInv, PathInv
    <2> QED
      BY <1>3, <2>1, <2>2 DEF Socks
  <1> QED
    BY <1>2, <1>4, <1>5, <1>6 DEF IInv, CloseInv

LEMMA InterruptedStep ==
  ASSUME IInv, NEW s \in Socks, NEW at, Interrupted(s, at)
  PROVE  IInv'
  <1>1. TypeInv /\ DataInv
    BY DEF IInv
  <1>2. pc' = "finally server" /\ failed' = "call"
    BY DEF Interrupted, Otherwise
  <1>3. Unmoved(s) /\ DataInv'
    BY <1>1, FailsMoves DEF Interrupted
  <1>4. TypeInv' /\ (NoLeak => NoLeak')
    BY <1>1, <1>3, UnmovedKeeps
  <1>5. TalkInv' /\ PcInv' /\ ReceivesWhatWasSent'
    BY <1>2 DEF TalkInv, Talking, PcInv, ReceivesWhatWasSent
  <1> QED
    BY <1>3, <1>4, <1>5 DEF IInv, CloseInv

\* What a close leaves, in the finally block or before it: when close() takes
\* every open socket, a struct whose close failed had none.
LEMMA ClosedFact ==
  ASSUME TypeInv, DataInv, NEW s \in Socks, DG!SOCK!socklynx_socket_close(s), DG!Drained
  PROVE  /\ TypeInv' /\ DataInv' /\ NoNewOwners
         /\ ~CloseMayFail /\ NoLeak => NoLeak' /\ NoneOf(s)'
  <1>1. CASE Closes(s)
    <2>1. TypeInv' /\ Steady /\ NoNewOwners /\ (NoLeak => NoLeak' /\ NoneOf(s)')
      BY <1>1, ClosesKeeps
    <2> QED
      BY <2>1, DataDrained
  <1>2. CASE Unmoved(s) /\ (~DG!SOCK!Accepts(sock[s].fd) \/ CloseMayFail)
    <2>1. TypeInv' /\ Steady /\ NoNewOwners /\ (NoLeak => NoLeak')
      BY <1>2, UnmovedKeeps
    <2>2. ~CloseMayFail /\ NoLeak => NoneOf(s)'
      BY <1>2, <2>1, CloseFails, OwnersGone
    <2> QED
      BY <2>1, <2>2, DataDrained
  <1> QED
    BY <1>1, <1>2, CloseMoves

LEMMA CloseStep ==
  ASSUME IInv, NEW s \in Socks, NEW at, NEW next, Close(s, at, next),
         next \in {"close client", "cleanup"}
  PROVE  IInv'
  <1>1. pc' \in {next, "finally server"} /\ failed' \in {failed, "call"}
    BY DEF Close, Then, Otherwise
  <1>2. TypeInv' /\ DataInv' /\ (~CloseMayFail /\ NoLeak => NoLeak')
    BY ClosedFact DEF Close, IInv
  <1>3. TalkInv' /\ PcInv' /\ ReceivesWhatWasSent'
    BY <1>1 DEF TalkInv, Talking, PcInv, IInv, ReceivesWhatWasSent
  <1> QED
    BY <1>2, <1>3 DEF IInv, CloseInv

LEMMA FinallyCloseStep ==
  ASSUME IInv, NEW s \in Socks, NEW at, NEW next, FinallyClose(s, at, next),
         \/ s = Server /\ at = "finally server" /\ next = "finally client"
         \/ s = Client /\ at = "finally client" /\ next = "finally cleanup"
  PROVE  IInv'
  <1>1. pc = at /\ pc' = next /\ failed' = failed
    BY DEF FinallyClose
  <1>2. /\ TypeInv' /\ DataInv' /\ NoNewOwners
        /\ ~CloseMayFail /\ NoLeak => NoLeak' /\ NoneOf(s)'
    BY ClosedFact DEF FinallyClose, IInv
  <1>3. TalkInv' /\ ReceivesWhatWasSent'
    BY <1>1 DEF TalkInv, Talking, IInv, ReceivesWhatWasSent
  <1>4. ASSUME ~CloseMayFail PROVE NoLeak' /\ PcInv'
    <2>1. NoLeak /\ PcInv
      BY <1>4 DEF IInv, CloseInv
    <2>2. NoLeak' /\ NoneOf(s)'
      BY <1>2, <1>4, <2>1
    <2>3. s = Client => NoneOf(Server)'
      <3>1. ASSUME s = Client PROVE NoneOf(Server)
        BY <1>1, <2>1, <3>1, Assumed DEF PcInv
      <3> QED
        BY <1>2, <3>1, OwnersGone DEF Socks
    <2> QED
      BY <1>1, <2>2, <2>3 DEF PcInv
  <1> QED
    BY <1>2, <1>3, <1>4 DEF IInv, CloseInv

\* What a call on the context leaves.
LEMMA ContextFact ==
  ASSUME TypeInv, DataInv, DG!Drained,
         LIB!socklynx_setup(Context) \/ LIB!socklynx_cleanup(Context)
  PROVE  /\ TypeInv' /\ DataInv' /\ NoNewOwners
         /\ NoLeak => NoLeak'
  <1>1. TypeInv' /\ Steady /\ NoNewOwners /\ (NoLeak => NoLeak')
    BY ContextMoves, StopsKeeps
  <1> QED
    BY <1>1, DataDrained

LEMMA SetupStep ==
  ASSUME IInv, Setup
  PROVE  IInv'
  <1>1. /\ pc = "setup" /\ pc' \in {"open server", "end"} /\ failed' \in {failed, "call"}
        /\ LIB!socklynx_setup(Context) /\ DG!Drained
    BY DEF Setup
  <1>2. TypeInv /\ DataInv /\ OwnInv /\ SidesInv /\ PathInv
    BY <1>1 DEF IInv, TalkInv, Talking
  <1>3. TypeInv' /\ DataInv' /\ NoNewOwners /\ (NoLeak => NoLeak')
    BY <1>1, <1>2, ContextFact
  <1>4. OwnInv'
    <2>1. sock' = sock /\ desc' = desc
      BY <1>1, <1>2, ContextMoves
    <2> QED
      BY <1>2, <2>1 DEF OwnInv
  <1>5. PcInv => PcInv'
    <2>1. ASSUME PcInv PROVE NoneOf(Server)' /\ NoneOf(Client)'
      <3>1. NoneOf(Server) /\ NoneOf(Client)
        BY <1>1, <2>1 DEF PcInv
      <3> QED
        BY <1>3, <3>1, OwnersGone DEF Socks
    <2> QED
      BY <2>1 DEF PcInv
  <1>6. PathInv' /\ (pc' = "end" \/ SidesInv')
    <2>1. sock' = sock /\ desc' = desc /\ aborted' = aborted
      BY <1>1, <1>2, ContextMoves
    <2>2. /\ NoLeak' /\ ~aborted'
          /\ \A t \in Socks : sock[t].state = "NEW" /\ NoneOf(t) /\ NoneOf(t)'
      BY <1>1, <1>2, <2>1 DEF SidesInv, Before, NoLeak, NoneOf
    <2>3. PathInv'
      <3>1. sent = <<>> /\ Quiet
        BY <1>1, <1>2 DEF PathInv
      <3>2. sent' = <<>> /\ Quiet'
        BY <1>1, <3>1, QuietDrained
      <3> QED
        BY <1>1, <3>2 DEF PathInv
    <2>4. SidesInv' \/ pc' = "end"
      BY <1>1, <2>1, <2>2 DEF SidesInv, Before
    <2> QED
      BY <2>3, <2>4
  <1>7. ReceivesWhatWasSent'
    BY <1>1 DEF IInv, ReceivesWhatWasSent
  <1> QED
    BY <1>3, <1>4, <1>5, <1>6, <1>7 DEF IInv, TalkInv, CloseInv, Talking

LEMMA CleanupStep ==
  ASSUME IInv, Cleanup \/ FinallyCleanup
  PROVE  IInv'
  <1>1. /\ \/ pc' = "finally server"
           \/ pc = "finally cleanup" /\ pc' = "end"
        /\ failed' \in {failed, "call"}
        /\ LIB!socklynx_cleanup(Context) /\ DG!Drained
    BY DEF Cleanup, FinallyCleanup, Then, Otherwise
  <1>2. TypeInv' /\ DataInv' /\ NoNewOwners /\ (NoLeak => NoLeak')
    BY <1>1, ContextFact DEF IInv
  <1>3. TalkInv' /\ ReceivesWhatWasSent'
    BY <1>1 DEF TalkInv, Talking, IInv, ReceivesWhatWasSent
  <1>4. PcInv => PcInv'
    <2>1. CASE pc' = "finally server"
      BY <2>1 DEF PcInv
    <2>2. CASE pc = "finally cleanup" /\ pc' = "end"
      <3>1. ASSUME PcInv PROVE NoneOf(Server)' /\ NoneOf(Client)'
        <4>1. NoneOf(Server) /\ NoneOf(Client)
          BY <2>2, <3>1 DEF PcInv
        <4> QED
          BY <1>2, <4>1, OwnersGone DEF Socks
      <3> QED
        BY <3>1 DEF PcInv
    <2> QED
      BY <1>1, <2>1, <2>2
  <1> QED
    BY <1>2, <1>3, <1>4 DEF IInv, CloseInv

LEMMA HostFilesStep ==
  ASSUME IInv, HostFiles
  PROVE  IInv'
  <1>1. /\ pc' = pc /\ failed' = failed /\ DG!Drained
        /\ DG!SOCK!HostOpen \/ DG!SOCK!HostClose
    BY DEF HostFiles
  <1>2. TypeInv /\ DataInv
    BY DEF IInv
  <1>3. /\ aborted' = aborted /\ sock' = sock
    BY <1>1, <1>2, HostMoves DEF Files
  <1>4. /\ TypeInv' /\ Steady /\ NoNewOwners
        /\ OwnInv => OwnInv'
        /\ NoLeak => NoLeak'
    BY <1>1, <1>2, HostMoves, FilesKeeps
  <1>5. DataInv'
    BY <1>1, <1>2, <1>4, DataDrained
  <1>6. PcInv => PcInv'
    <2>1. (NoneOf(Server) => NoneOf(Server)') /\ (NoneOf(Client) => NoneOf(Client)')
      BY <1>4, OwnersGone DEF Socks
    <2> QED
      BY <1>1, <2>1 DEF PcInv
  <1>7. TalkInv'
    <2> SUFFICES ASSUME pc \in Talking, OwnInv, OwnInv', SidesInv, PathInv
                 PROVE  SidesInv' /\ PathInv'
      BY <1>1, <1>4 DEF IInv, TalkInv
    <2>1. SidesInv'
      <3>1. NoLeak' /\ \A t \in Socks : NoneOf(t) => NoneOf(t)'
        BY <1>4, OwnersGone DEF SidesInv
      <3> QED
        BY <1>1, <1>3, <3>1 DEF SidesInv
    <2>2. ASSUME NEW s \in Socks, NEW i, OnItsWay(i, s), sock[s].state = "BOUND"
          PROVE  sent' = sent /\ OnItsWay(i, s)'
      <3>1. desc'[sock[s].fd].owner = s /\ s # None
        BY <1>3, <2>2, Assumed DEF OwnInv
      <3> QED
        BY <1>1, <1>2, <1>3, <2>2, <3>1, WayDrained
    <2>3. Quiet => sent' = sent /\ Quiet'
      BY <1>1, QuietDrained
    <2>4. pc \in Both => sock[Server].state = "BOUND" /\ sock[Client].state = "BOUND"
      BY DEF SidesInv, Both, Before, Socks
    <2> QED
      BY <1>1, <2>1, <2>2, <2>3, <2>4 DEF PathInv, Both, Socks
  <1> QED
    BY <1>1, <1>4, <1>5, <1>6, <1>7 DEF IInv, CloseInv, ReceivesWhatWasSent

\* Steps that leave the structs, the descriptors and the test alone.
LEMMA IdleStep ==
  ASSUME IInv, DataInv', sock' = sock, desc' = desc, aborted' = aborted,
         pc' = pc, failed' = failed, pc \in Talking => PathInv'
  PROVE  IInv'
  <1>1. TypeInv' /\ (OwnInv => OwnInv') /\ (NoLeak => NoLeak') /\ (PcInv => PcInv')
    BY DEF IInv, TypeInv, OwnInv, NoLeak, PcInv, NoneOf
  <1>2. SidesInv => SidesInv'
    BY DEF SidesInv, NoLeak, NoneOf
  <1> QED
    BY <1>1, <1>2 DEF IInv, TalkInv, CloseInv, ReceivesWhatWasSent

LEMMA ArrivalStep ==
  ASSUME IInv, Arrival
  PROVE  IInv'
  <1>1. PICK i \in flight : DG!Deliver(i)
    BY DEF Arrival
  <1>2. TypeInv /\ DataInv /\ pc' = pc /\ failed' = failed
    BY DEF IInv, Arrival
  <1>3. DataInv' /\ sock' = sock /\ desc' = desc
    BY <1>1, <1>2, DataArrives
  <1>4. aborted' = aborted /\ sent' = sent
    BY <1>1 DEF DG!Deliver, DG!sockvars
  <1>5. ASSUME pc \in Talking PROVE PathInv'
    <2>1. OwnInv /\ SidesInv /\ PathInv
      BY <1>5 DEF IInv, TalkInv
    <2>2. flight # {}
      BY <1>1
    <2>3. CASE pc = "server receives"
      <3>1. sent = <<Message(Client)>> /\ OnItsWay(1, Server) /\ sock[Server].state = "BOUND"
        BY <2>1, <2>3 DEF PathInv, SidesInv, Before, Socks
      <3>2. i = 1
        BY <2>2, <3>1 DEF OnItsWay
      <3>3. sent[1].dst = EndpointOf[Server].port
        BY <3>1, Assumed DEF Message, Peer
      <3>4. OnItsWay(1, Server)'
        BY <1>1, <1>2, <2>1, <3>1, <3>2, <3>3, WayArrives DEF SidesInv, Socks
      <3> QED
        BY <1>2, <1>4, <2>3, <3>1, <3>4 DEF PathInv
    <2>4. CASE pc = "client receives"
      <3>1. /\ sent = Append(<<Message(Client)>>, Message(Server)) /\ OnItsWay(2, Client)
            /\ sock[Client].state = "BOUND"
        BY <2>1, <2>4 DEF PathInv, SidesInv, Before, Socks
      <3>2. i = 2
        BY <2>2, <3>1 DEF OnItsWay
      <3>3. sent[2].dst = EndpointOf[Client].port
        BY <3>1, Assumed DEF Message, Peer
      <3>4. OnItsWay(2, Client)'
        BY <1>1, <1>2, <2>1, <3>1, <3>2, <3>3, WayArrives DEF SidesInv, Socks
      <3> QED
        BY <1>2, <1>4, <2>4, <3>1, <3>4 DEF PathInv
    <2> QED
      BY <1>5, <2>1, <2>2, <2>3, <2>4 DEF PathInv, Quiet, Talking
  <1> QED
    BY <1>2, <1>3, <1>4, <1>5, IdleStep

LEMMA StutterStep ==
  ASSUME IInv, UNCHANGED vars
  PROVE  IInv'
  <1>1. /\ sock' = sock /\ desc' = desc /\ aborted' = aborted /\ pc' = pc /\ failed' = failed
        /\ sent' = sent /\ flight' = flight /\ queue' = queue /\ ep' = ep
    BY DEF vars
  <1>2. DataInv'
    BY <1>1 DEF IInv, DataInv
  <1>3. pc \in Talking => PathInv'
    BY <1>1 DEF IInv, TalkInv, PathInv, Quiet, OnItsWay
  <1> QED
    BY <1>1, <1>2, <1>3, IdleStep

-----------------------------------------------------------------------------
(* The theorems.                                                           *)

LEMMA IInvInit ==
  ASSUME Init
  PROVE  IInv
  <1>1. /\ sock \in [Socks -> {DG!SOCK!NewUDP(e) : e \in DG!SOCK!Endpoints}]
        /\ desc = [f \in Fds |-> IF f \in Pinned THEN DG!SOCK!Descriptor(Host, NoAddr, FALSE)
                                 ELSE DG!SOCK!Free]
        /\ \A s \in Socks : sock[s].endpoint = EndpointOf[s]
        /\ sent = <<>> /\ flight = {} /\ queue = [f \in Fds |-> <<>>]
        /\ ep = [af |-> "none", port |-> 0, tail |-> "zero"]
        /\ pc = "setup" /\ failed = "no" /\ aborted = FALSE
    BY DEF Init, DG!Init, DG!SOCK!Init, Fds, NoAddr
  <1>2. ASSUME NEW s \in Socks
        PROVE  sock[s] \in DG!SOCK!SockType /\ sock[s].state = "NEW"
    <2>1. PICK e \in DG!SOCK!Endpoints : sock[s] = DG!SOCK!NewUDP(e)
      BY <1>1
    <2>2. 0 \in Fds
      BY Assumed DEF Fds, DG!SOCK!Fds
    <2> QED
      BY <2>1, <2>2 DEF DG!SOCK!NewUDP, DG!SOCK!SockType, DG!SOCK!States, DG!SOCK!Errors, Fds
  <1>3. ASSUME NEW f \in Fds
        PROVE  /\ desc[f] \in DG!SOCK!DescType /\ desc[f].owner \in {Host, None}
               /\ desc[f].addr = NoAddr
    <2>1. DG!SOCK!Descriptor(Host, NoAddr, FALSE) \in DG!SOCK!DescType
      BY NoAddrFact DEF DG!SOCK!Descriptor, DG!SOCK!DescType
    <2>2. CASE f \in Pinned
      <3>1. desc[f] = DG!SOCK!Descriptor(Host, NoAddr, FALSE)
        BY <1>1, <2>2
      <3> QED
        BY <2>1, <3>1 DEF DG!SOCK!Descriptor
    <2>3. CASE f \notin Pinned
      <3>1. desc[f] = DG!SOCK!Free
        BY <1>1, <2>3
      <3> QED
        BY <3>1, FreeFact
    <2> QED
      BY <2>2, <2>3
  <1>4. TypeInv
    <2>1. sock \in [Socks -> DG!SOCK!SockType]
      BY <1>1, <1>2
    <2>2. desc \in [Fds -> DG!SOCK!DescType]
      BY <1>1, <1>3
    <2> QED
      BY <1>1, <1>3, <2>1, <2>2, NoAddrFact DEF TypeInv
  <1>5. OwnInv /\ ~aborted /\ PathInv
    BY <1>1, <1>2 DEF OwnInv, PathInv, Quiet
  <1>6. DataInv
    <2>1. queue \in [Fds -> Seq(Nat)] /\ \A f \in Fds : queue[f] = <<>>
      BY <1>1
    <2> QED
      BY <1>1, <2>1 DEF DataInv
  <1>7. NoLeak /\ NoneOf(Server) /\ NoneOf(Client)
    BY <1>3, Assumed DEF NoLeak, NoneOf, Socks
  <1>8. TalkInv
    BY <1>1, <1>2, <1>5, <1>7 DEF TalkInv, SidesInv, Before, Socks
  <1> QED
    BY <1>1, <1>4, <1>6, <1>7, <1>8 DEF IInv, CloseInv, PcInv, ReceivesWhatWasSent

LEMMA IInvNext ==
  ASSUME IInv, [Next]_vars
  PROVE  IInv'
  <1> USE DEF Socks
  <1>1. CASE Thread
    <2>1. CASE Setup
      BY <2>1, SetupStep
    <2>2. CASE Open(Server, "open server", "open client") \/ Open(Client, "open client", "client sends")
      BY <2>2, OpenStep
    <2>3. CASE \/ Send(Client, "client sends", "server receives")
               \/ Send(Server, "server sends", "client receives")
      BY <2>3, SendStep
    <2>4. CASE \/ Recv(Server, "server receives", "server sends")
               \/ Recv(Client, "client receives", "close server")
      BY <2>4, RecvStep
    <2>5. CASE Close(Server, "close server", "close client") \/ Close(Client, "close client", "cleanup")
      BY <2>5, CloseStep
    <2>6. CASE \/ FinallyClose(Server, "finally server", "finally client")
               \/ FinallyClose(Client, "finally client", "finally cleanup")
      BY <2>6, FinallyCloseStep
    <2>7. CASE Cleanup \/ FinallyCleanup
      BY <2>7, CleanupStep
    <2> QED
      BY <1>1, <2>1, <2>2, <2>3, <2>4, <2>5, <2>6, <2>7 DEF Thread
  <1>2. CASE Signal
    BY <1>2, InterruptedStep DEF Signal
  <1>3. CASE Arrival
    BY <1>3, ArrivalStep
  <1>4. CASE HostFiles
    BY <1>4, HostFilesStep
  <1>5. CASE UNCHANGED vars
    BY <1>5, StutterStep
  <1> QED
    BY <1>1, <1>2, <1>3, <1>4, <1>5 DEF Next

\* The state of the test, whatever its calls return and whatever the host
\* opens and closes in the table it shares.
THEOREM Invariance == Spec => []IInv
  <1> QED
    BY IInvInit, IInvNext, PTL DEF Spec

\* The finally block of UDP_SocketSendRecv_Blocking: wherever the test failed,
\* it ends with no socket open, unless close() fails on an open socket.
THEOREM EndsCleanSafe == ~CloseMayFail /\ Spec => []EndsClean
  <1> SUFFICES ASSUME ~CloseMayFail PROVE Spec => []EndsClean
    OBVIOUS
  <1>1. IInv => EndsClean
    BY DEF IInv, CloseInv, PcInv, NoneOf, EndsClean, Socks, Fds
  <1> QED
    BY <1>1, Invariance, PTL

\* What sl_sock_recv gives the test is what the other side sent, whole, from
\* the endpoint of its struct: no comparison of the test ever fails.
THEOREM ReceivesSafe == Spec => []ReceivesWhatWasSent
  <1>1. IInv => ReceivesWhatWasSent
    BY DEF IInv
  <1> QED
    BY <1>1, Invariance, PTL

\* sl_sock_recv on the blocking sockets of the test: a receive never waits for
\* a datagram that cannot come, whatever the host opens and closes meanwhile.
THEOREM AwaitedSafe == Spec => []Awaited
  <1>1. ASSUME IInv, NEW s \in Socks, Waits(s)
        PROVE  /\ ~aborted
               /\ \/ queue[sock[s].fd] # <<>>
                  \/ \E i \in flight : DG!Receivers(sent[i]) = {sock[s].fd}
    <2> DEFINE f == sock[s].fd
               n == IF s = Server THEN 1 ELSE 2
    <2>1. TypeInv /\ DataInv /\ OwnInv /\ SidesInv /\ PathInv
      BY <1>1 DEF IInv, TalkInv, Talking, Waits
    <2>2. ~aborted /\ NoLeak /\ sock[s].state = "BOUND"
      BY <1>1, <2>1 DEF SidesInv, Before, Waits
    <2>3. OnItsWay(n, s) /\ n \in 1 .. Len(sent) /\ sent[n].dst = EndpointOf[s].port
      <3>1. CASE s = Server
        <4>1. sent = <<Message(Client)>> /\ OnItsWay(1, Server)
          BY <1>1, <2>1, <3>1 DEF Waits, PathInv
        <4>2. Message(Client).dst = EndpointOf[Server].port
          BY Assumed DEF Message, Peer
        <4> QED
          BY <3>1, <4>1, <4>2
      <3>2. CASE s = Client
        <4>1. sent = Append(<<Message(Client)>>, Message(Server)) /\ OnItsWay(2, Client)
          BY <1>1, <2>1, <3>2, Assumed DEF Waits, PathInv
        <4>2. Message(Server).dst = EndpointOf[Client].port
          BY Assumed DEF Message, Peer
        <4> QED
          BY <3>2, <4>1, <4>2, Assumed
      <3> QED
        BY <3>1, <3>2 DEF Socks
    <2> HIDE DEF n
    <2>4. f \in Fds /\ DG!Receivers(sent[n]) = {f}
      <3>1. sent[n].route = "v4"
        BY <2>1, <2>3, SentFact
      <3> QED
        BY <2>1, <2>2, <2>3, <3>1, OneReceiver
    <2> QED
      BY <2>2, <2>3, <2>4 DEF OnItsWay
  <1>2. IInv => Awaited
    BY <1>1 DEF Awaited
  <1> QED
    BY <1>2, Invariance, PTL
=============================================================================
