--------------------------- MODULE SlSock_proofs ---------------------------
(* Proofs about SlSock, for every value of its constants.                  *)
EXTENDS SlSock, TLAPS

USE SlSockAssumption

-----------------------------------------------------------------------------
(* Type correctness.                                                       *)

LEMMA FdsFact == 0 \in Fds /\ Fds \subseteq Nat
  BY DEF Fds

LEMMA NoAddrType == NoAddr \in Endpoints
  BY DEF Endpoints

LEMMA DescriptorType ==
  ASSUME NEW o \in Socks \cup {Host, None}, NEW a \in Endpoints, NEW v \in BOOLEAN
  PROVE  Descriptor(o, a, v) \in DescType
  BY DEF Descriptor, DescType

LEMMA FreeType == Free \in DescType
  BY NoAddrType, DescriptorType DEF Free

\* A call that returns a well-typed struct and table keeps TypeOK.
LEMMA ReturnType ==
  ASSUME TypeOK, NEW s \in Socks, NEW k \in SockType, NEW d \in [Fds -> DescType],
         NEW rv \in {"SL_OK", "SL_ERR"}, Return(s, k, d, rv)
  PROVE  TypeOK'
  BY DEF TypeOK, Return

LEMMA FailsType ==
  ASSUME TypeOK, NEW s \in Socks, NEW k \in SockType, NEW d \in [Fds -> DescType],
         Fails(s, k, d)
  PROVE  TypeOK'
  <1>1. [k EXCEPT !.error = "errno"] \in SockType
    BY DEF SockType, Errors
  <1> QED
    BY <1>1, ReturnType DEF Fails

LEMMA WithSocketType ==
  ASSUME TypeOK, NEW s \in Socks, NEW f \in Fds, NEW v \in BOOLEAN
  PROVE  WithSocket(s, f, v) \in [Fds -> DescType]
  BY NoAddrType, DescriptorType DEF WithSocket, TypeOK

LEMMA CreatedType ==
  ASSUME TypeOK, NEW s \in Socks, NEW f \in Fds
  PROVE  Created(s, f) \in SockType
  <1>1. sock[s] \in SockType
    BY DEF TypeOK
  <1>2. CreatedFlags(sock[s]) \in SUBSET Flags
    BY <1>1 DEF CreatedFlags, SockType, Flags
  <1> QED
    BY <1>1, <1>2 DEF Created, SockType, States

LEMMA BindFromType ==
  ASSUME TypeOK, NEW s \in Socks, NEW k \in SockType, NEW d \in [Fds -> DescType],
         BindFrom(s, k, d)
  PROVE  TypeOK'
  <1>1. CASE Fails(s, k, d)
    BY <1>1, FailsType
  <1>2. CASE \E a \in BindAddrs(d, k.fd, k.endpoint) :
               Ok(s, [k EXCEPT !.state = "BOUND"], [d EXCEPT ![k.fd].addr = a])
    <2>1. PICK a \in BindAddrs(d, k.fd, k.endpoint) :
               Ok(s, [k EXCEPT !.state = "BOUND"], [d EXCEPT ![k.fd].addr = a])
      BY <1>2
    <2>2. a \in Endpoints
      BY DEF BindAddrs
    <2>3. [k EXCEPT !.state = "BOUND"] \in SockType
      BY DEF SockType, States
    <2>4. [d EXCEPT ![k.fd].addr = a] \in [Fds -> DescType]
      BY <2>2 DEF DescType
    <2> QED
      BY <2>1, <2>3, <2>4, ReturnType DEF Ok
  <1> QED
    BY <1>1, <1>2 DEF BindFrom

LEMMA CreateFailsType ==
  ASSUME TypeOK, NEW s \in Socks, CreateFails(s)
  PROVE  TypeOK'
  <1>0. sock[s] \in SockType /\ desc \in [Fds -> DescType]
    BY DEF TypeOK
  <1>1. CASE Fails(s, sock[s], desc)
    BY <1>0, <1>1, FailsType
  <1>2. CASE \E f \in NextFds, v \in BOOLEAN :
               Return(s, [sock[s] EXCEPT !.fd = f], WithSocket(s, f, v), "SL_ERR")
    <2>1. PICK f \in NextFds, v \in BOOLEAN :
               Return(s, [sock[s] EXCEPT !.fd = f], WithSocket(s, f, v), "SL_ERR")
      BY <1>2
    <2>2. f \in Fds
      BY DEF NextFds, FreeFds
    <2>3. [sock[s] EXCEPT !.fd = f] \in SockType
      BY <1>0, <2>2 DEF SockType
    <2> QED
      BY <2>1, <2>2, <2>3, WithSocketType, ReturnType
  <1> QED
    BY <1>1, <1>2 DEF CreateFails

\* Every step keeps the types of the variables.
LEMMA NextType == TypeOK /\ [Next]_vars => TypeOK'
  <1> SUFFICES ASSUME TypeOK, [Next]_vars PROVE TypeOK'
    OBVIOUS
  <1>0. \A s \in Socks : sock[s] \in SockType /\ desc \in [Fds -> DescType]
    BY DEF TypeOK
  <1>1. ASSUME NEW s \in Socks, sl_sock_create(s) PROVE TypeOK'
    <2>1. CASE AssertFails(AssertCreate(s))
      BY <2>1 DEF AssertFails, TypeOK
    <2>2. CASE CreateFails(s)
      BY <2>2, CreateFailsType
    <2>3. CASE \E f \in NextFds : Ok(s, Created(s, f), WithSocket(s, f, FALSE))
      BY <2>3, CreatedType, WithSocketType, ReturnType DEF Ok, NextFds, FreeFds
    <2> QED
      BY <1>1, <2>1, <2>2, <2>3 DEF sl_sock_create
  <1>2. ASSUME NEW s \in Socks, sl_sock_bind(s) PROVE TypeOK'
    <2>1. CASE AssertFails(sock[s].state = "CREATED")
      BY <2>1 DEF AssertFails, TypeOK
    <2>2. CASE BindFrom(s, sock[s], desc)
      BY <1>0, <2>2, BindFromType
    <2> QED
      BY <1>2, <2>1, <2>2 DEF sl_sock_bind
  <1>3. ASSUME NEW s \in Socks, socklynx_socket_open(s) PROVE TypeOK'
    <2>1. CASE AssertFails(AssertCreate(s))
      BY <2>1 DEF AssertFails, TypeOK
    <2>2. CASE CreateFails(s)
      BY <2>2, CreateFailsType
    <2>3. CASE \E f \in NextFds : BindFrom(s, Created(s, f), WithSocket(s, f, FALSE))
      BY <2>3, CreatedType, WithSocketType, BindFromType DEF NextFds, FreeFds
    <2> QED
      BY <1>3, <2>1, <2>2, <2>3 DEF socklynx_socket_open
  <1>4. ASSUME NEW s \in Socks, socklynx_socket_close(s) PROVE TypeOK'
    <2>1. CASE Ok(s, Closed(sock[s]), Released(sock[s].fd))
      <3>1. Closed(sock[s]) \in SockType
        BY <1>0, FdsFact DEF Closed, SockType, States
      <3>2. Released(sock[s].fd) \in [Fds -> DescType]
        BY <1>0, FreeType DEF Released
      <3> QED
        BY <2>1, <3>1, <3>2, ReturnType DEF Ok
    <2>2. CASE Fails(s, sock[s], desc)
      BY <1>0, <2>2, FailsType
    <2> QED
      BY <1>4, <2>1, <2>2 DEF socklynx_socket_close
  <1>5. ASSUME NEW s \in Socks, NEW enabled \in BOOLEAN,
               socklynx_socket_nonblocking(s, enabled)
        PROVE  TypeOK'
    <2>1. CASE Ok(s, [sock[s] EXCEPT !.flags = Switched(s, enabled)],
                  [desc EXCEPT ![sock[s].fd].nonblock = enabled])
      <3>1. [sock[s] EXCEPT !.flags = Switched(s, enabled)] \in SockType
        BY <1>0 DEF SockType, Switched, Flags
      <3>2. [desc EXCEPT ![sock[s].fd].nonblock = enabled] \in [Fds -> DescType]
        BY <1>0 DEF DescType
      <3> QED
        BY <2>1, <3>1, <3>2, ReturnType DEF Ok
    <2>2. CASE Fails(s, sock[s], desc)
      BY <1>0, <2>2, FailsType
    <2> QED
      BY <1>5, <2>1, <2>2 DEF socklynx_socket_nonblocking
  <1>6. CASE HostOpen
    <2>1. PICK f \in NextFds : desc' = [desc EXCEPT ![f] = Descriptor(Host, NoAddr, FALSE)]
      BY <1>6 DEF HostOpen
    <2>2. Descriptor(Host, NoAddr, FALSE) \in DescType
      BY NoAddrType, DescriptorType
    <2>3. desc' \in [Fds -> DescType]
      BY <2>1, <2>2 DEF TypeOK
    <2> QED
      BY <1>6, <2>3 DEF HostOpen, HostReturn, TypeOK
  <1>7. CASE HostClose
    BY <1>7, FreeType DEF HostClose, HostReturn, Released, TypeOK
  <1>8. CASE NetStop
    BY <1>8, FreeType DEF NetStop, HostReturn, TypeOK
  <1>9. CASE NetStart
    BY <1>9 DEF NetStart, HostReturn, TypeOK
  <1>10. CASE UNCHANGED vars
    BY <1>10 DEF vars, TypeOK
  <1> QED
    BY <1>1, <1>2, <1>3, <1>4, <1>5, <1>6, <1>7, <1>8, <1>9, <1>10 DEF Next, SockCall, HostCall

LEMMA InitType == Init => TypeOK
  <1> SUFFICES ASSUME Init PROVE TypeOK
    OBVIOUS
  <1>1. sock \in [Socks -> SockType]
    BY FdsFact DEF Init, NewUDP, SockType, States, Errors
  <1>2. desc \in [Fds -> DescType]
    BY NoAddrType, DescriptorType, FreeType DEF Init
  <1> QED
    BY <1>1, <1>2 DEF Init, TypeOK

\* TypeOK holds whatever the caller does, on either platform.
THEOREM TypeCorrect == Spec => []TypeOK
  BY InitType, NextType, PTL DEF Spec

-----------------------------------------------------------------------------
(* Ownership.  The caller must not stop Winsock under an open socket, and  *)
(* on POSIX, where fd 0 both means "no socket" and is the host's stdin,    *)
(* must not close a struct that holds no socket.                           *)

SafeCaller ==
  /\ Winsock => "stop" \in Rules
  /\ ~Winsock => 0 \in Pinned /\ "close" \in Rules

Attached(s, k, d) ==
  /\ k.state \in {"CREATED", "BOUND"} => k.fd # 0
  /\ k.fd # 0 => d[k.fd].owner = s

\* Descriptor 0 never becomes a socket: that is what lets 0 mean "none".
ZeroOwner == IF Winsock THEN None ELSE Host

OwnerInv ==
  /\ \A s \in Socks : Attached(s, sock[s], desc)
  /\ desc[0].owner = ZeroOwner

\* Table d keeps the sockets of the structs other than s, and descriptor 0.
Spares(s, d) ==
  /\ \A t \in Socks \ {s} : sock[t].fd # 0 => d[sock[t].fd].owner = t
  /\ d[0].owner = ZeroOwner

LEMMA OwnerInvImplies == TypeOK /\ OwnerInv => DescriptorOwned
  BY DEF OwnerInv, Attached, DescriptorOwned, Opened

LEMMA ReturnAttached ==
  ASSUME TypeOK, OwnerInv, NEW s \in Socks, NEW k, NEW d, NEW rv,
         Return(s, k, d, rv), Attached(s, k, d), Spares(s, d)
  PROVE  OwnerInv'
  <1>1. \A t \in Socks : sock'[t] = IF t = s THEN k ELSE sock[t]
    BY DEF Return, TypeOK
  <1>2. desc' = d
    BY DEF Return
  <1> QED
    BY <1>1, <1>2 DEF OwnerInv, Attached, Spares

LEMMA FailsAttached ==
  ASSUME TypeOK, OwnerInv, NEW s \in Socks, NEW k \in SockType, NEW d,
         Fails(s, k, d), Attached(s, k, d), Spares(s, d)
  PROVE  OwnerInv'
  <1>1. Attached(s, [k EXCEPT !.error = "errno"], d)
    BY DEF Attached, SockType
  <1> QED
    BY <1>1, ReturnAttached DEF Fails

\* socket() and open() return neither descriptor 0 nor one a struct holds.
LEMMA NextFdsFree ==
  ASSUME TypeOK, OwnerInv, NEW f \in NextFds
  PROVE  f \in Fds /\ f # 0 /\ desc[f].owner = None
  BY FdsFact DEF NextFds, FreeFds, OwnerInv, ZeroOwner

LEMMA SparesTable == ASSUME TypeOK, OwnerInv, NEW s \in Socks PROVE Spares(s, desc)
  BY DEF OwnerInv, Attached, Spares

LEMMA SparesWithSocket ==
  ASSUME TypeOK, OwnerInv, NEW s \in Socks, NEW f \in NextFds, NEW v \in BOOLEAN
  PROVE  Spares(s, WithSocket(s, f, v)) /\ WithSocket(s, f, v)[f].owner = s
  <1>1. f \in Fds /\ f # 0 /\ desc[f].owner = None
    BY NextFdsFree
  <1>2. \A g \in Fds : WithSocket(s, f, v)[g].owner = IF g = f THEN s ELSE desc[g].owner
    BY <1>1 DEF WithSocket, Descriptor, TypeOK
  <1>3. \A t \in Socks : sock[t].fd \in Fds
    BY DEF TypeOK, SockType
  <1> QED
    BY <1>1, <1>2, <1>3, FdsFact DEF OwnerInv, Attached, Spares

\* bind() changes no owner.
LEMMA BindFromAttached ==
  ASSUME TypeOK, OwnerInv, NEW s \in Socks, NEW k \in SockType, NEW d \in [Fds -> DescType],
         Attached(s, k, d), Spares(s, d), BindFrom(s, k, d)
  PROVE  OwnerInv'
  <1>1. CASE Fails(s, k, d)
    BY <1>1, FailsAttached
  <1>2. CASE \E a \in BindAddrs(d, k.fd, k.endpoint) :
               Ok(s, [k EXCEPT !.state = "BOUND"], [d EXCEPT ![k.fd].addr = a])
    <2>1. PICK a \in BindAddrs(d, k.fd, k.endpoint) :
               Ok(s, [k EXCEPT !.state = "BOUND"], [d EXCEPT ![k.fd].addr = a])
      BY <1>2
    <2> DEFINE d2 == [d EXCEPT ![k.fd].addr = a]
    <2>2. k.fd \in Fds /\ d[k.fd].owner \in Socks /\ d[0].owner \notin Socks
      BY DEF BindAddrs, SockType, Spares, ZeroOwner
    <2>3. \A g \in Fds : d2[g].owner = d[g].owner
      BY DEF DescType
    <2>4. \A t \in Socks : sock[t].fd \in Fds
      BY DEF TypeOK, SockType
    <2>5. Attached(s, [k EXCEPT !.state = "BOUND"], d2)
      BY <2>2, <2>3 DEF Attached, SockType
    <2>6. Spares(s, d2)
      BY <2>3, <2>4, FdsFact DEF Spares
    <2> QED
      BY <2>1, <2>5, <2>6, ReturnAttached DEF Ok
  <1> QED
    BY <1>1, <1>2 DEF BindFrom

LEMMA CreatedAttached ==
  ASSUME TypeOK, OwnerInv, NEW s \in Socks, NEW f \in NextFds, NEW v \in BOOLEAN
  PROVE  Attached(s, Created(s, f), WithSocket(s, f, v))
  <1>1. Created(s, f).fd = f
    BY DEF Created, TypeOK, SockType
  <1> QED
    BY <1>1, NextFdsFree, SparesWithSocket DEF Attached

LEMMA CreateFailsAttached ==
  ASSUME TypeOK, OwnerInv, NEW s \in Socks, CreateFails(s)
  PROVE  OwnerInv'
  <1>0. sock[s] \in SockType /\ Attached(s, sock[s], desc)
    BY DEF TypeOK, OwnerInv
  <1>1. CASE Fails(s, sock[s], desc)
    BY <1>0, <1>1, FailsAttached, SparesTable
  <1>2. CASE \E f \in NextFds, v \in BOOLEAN :
               Return(s, [sock[s] EXCEPT !.fd = f], WithSocket(s, f, v), "SL_ERR")
    <2>1. PICK f \in NextFds, v \in BOOLEAN :
               Return(s, [sock[s] EXCEPT !.fd = f], WithSocket(s, f, v), "SL_ERR")
      BY <1>2
    <2>2. Attached(s, [sock[s] EXCEPT !.fd = f], WithSocket(s, f, v))
      BY <1>0, NextFdsFree, SparesWithSocket DEF Attached, SockType
    <2> QED
      BY <2>1, <2>2, SparesWithSocket, ReturnAttached
  <1> QED
    BY <1>1, <1>2 DEF CreateFails

\* No call breaks the ownership of a struct the caller did not pass to it.
LEMMA NextOwner ==
  ASSUME SafeCaller, TypeOK, OwnerInv, [Next]_vars
  PROVE  OwnerInv'
  <1>0. \A s \in Socks : sock[s] \in SockType /\ Attached(s, sock[s], desc)
    BY DEF TypeOK, OwnerInv
  <1>1. ASSUME NEW s \in Socks, sl_sock_create(s) PROVE OwnerInv'
    <2>1. CASE AssertFails(AssertCreate(s))
      BY <2>1 DEF AssertFails, OwnerInv, Attached
    <2>2. CASE CreateFails(s)
      BY <2>2, CreateFailsAttached
    <2>3. CASE \E f \in NextFds : Ok(s, Created(s, f), WithSocket(s, f, FALSE))
      BY <2>3, CreatedAttached, SparesWithSocket, ReturnAttached DEF Ok
    <2> QED
      BY <1>1, <2>1, <2>2, <2>3 DEF sl_sock_create
  <1>2. ASSUME NEW s \in Socks, sl_sock_bind(s) PROVE OwnerInv'
    <2>1. CASE AssertFails(sock[s].state = "CREATED")
      BY <2>1 DEF AssertFails, OwnerInv, Attached
    <2>2. CASE BindFrom(s, sock[s], desc)
      BY <1>0, <2>2, SparesTable, BindFromAttached DEF TypeOK
    <2> QED
      BY <1>2, <2>1, <2>2 DEF sl_sock_bind
  <1>3. ASSUME NEW s \in Socks, socklynx_socket_open(s) PROVE OwnerInv'
    <2>1. CASE AssertFails(AssertCreate(s))
      BY <2>1 DEF AssertFails, OwnerInv, Attached
    <2>2. CASE CreateFails(s)
      BY <2>2, CreateFailsAttached
    <2>3. CASE \E f \in NextFds : BindFrom(s, Created(s, f), WithSocket(s, f, FALSE))
      <3>1. PICK f \in NextFds : BindFrom(s, Created(s, f), WithSocket(s, f, FALSE))
        BY <2>3
      <3>2. Created(s, f) \in SockType /\ WithSocket(s, f, FALSE) \in [Fds -> DescType]
        BY NextFdsFree, CreatedType, WithSocketType
      <3> QED
        BY <3>1, <3>2, CreatedAttached, SparesWithSocket, BindFromAttached
    <2> QED
      BY <1>3, <2>1, <2>2, <2>3 DEF socklynx_socket_open
  <1>4. ASSUME NEW s \in Socks, socklynx_socket_close(s) PROVE OwnerInv'
    <2>1. CASE Accepts(sock[s].fd) /\ Ok(s, Closed(sock[s]), Released(sock[s].fd))
      <3>1. sock[s].fd # 0
        BY <1>4, <2>1 DEF socklynx_socket_close, MayClose, Accepts, SafeCaller,
                          OwnerInv, ZeroOwner
      <3>2. Attached(s, Closed(sock[s]), Released(sock[s].fd))
        BY <1>0 DEF Attached, Closed, SockType
      <3>3. \A g \in Fds : g # sock[s].fd => Released(sock[s].fd)[g] = desc[g]
        BY DEF Released, TypeOK
      <3>4. \A t \in Socks \ {s} : sock[t].fd # 0 => sock[t].fd # sock[s].fd /\ sock[t].fd \in Fds
        BY <1>0, <3>1 DEF Attached, SockType
      <3>5. Spares(s, Released(sock[s].fd))
        BY <3>1, <3>3, <3>4, FdsFact DEF Spares, OwnerInv, Attached
      <3> QED
        BY <2>1, <3>2, <3>5, ReturnAttached DEF Ok
    <2>2. CASE Fails(s, sock[s], desc)
      BY <1>0, <2>2, FailsAttached, SparesTable
    <2> QED
      BY <1>4, <2>1, <2>2 DEF socklynx_socket_close
  <1>5. ASSUME NEW s \in Socks, NEW enabled \in BOOLEAN,
               socklynx_socket_nonblocking(s, enabled)
        PROVE  OwnerInv'
    <2>1. CASE Ok(s, [sock[s] EXCEPT !.flags = Switched(s, enabled)],
                  [desc EXCEPT ![sock[s].fd].nonblock = enabled])
      <3> DEFINE d == [desc EXCEPT ![sock[s].fd].nonblock = enabled]
      <3>1. \A g \in Fds : d[g].owner = desc[g].owner
        BY <1>0 DEF TypeOK, DescType, SockType
      <3>2. \A t \in Socks : sock[t].fd \in Fds
        BY <1>0 DEF SockType
      <3>3. Attached(s, [sock[s] EXCEPT !.flags = Switched(s, enabled)], d)
        BY <1>0, <3>1, <3>2 DEF Attached, SockType
      <3>4. Spares(s, d)
        BY <3>1, <3>2, FdsFact, SparesTable DEF Spares
      <3> QED
        BY <2>1, <3>3, <3>4, ReturnAttached DEF Ok
    <2>2. CASE Fails(s, sock[s], desc)
      BY <1>0, <2>2, FailsAttached, SparesTable
    <2> QED
      BY <1>5, <2>1, <2>2 DEF socklynx_socket_nonblocking
  \* The host's calls, which leave every struct as it is.
  <1>6. ASSUME sock' = sock,
               \A g \in Fds : desc[g].owner \in Socks => desc'[g].owner = desc[g].owner,
               desc'[0].owner = ZeroOwner
        PROVE  OwnerInv'
    BY <1>0, <1>6 DEF OwnerInv, Attached, SockType
  <1>7. CASE HostOpen
    <2>1. PICK f \in NextFds : desc' = [desc EXCEPT ![f] = Descriptor(Host, NoAddr, FALSE)]
      BY <1>7 DEF HostOpen
    <2>2. f \in Fds /\ f # 0 /\ desc[f].owner = None
      BY NextFdsFree
    <2> QED
      BY <1>6, <1>7, <2>1, <2>2, FdsFact DEF HostOpen, HostReturn, OwnerInv, TypeOK
  <1>8. CASE HostClose
    <2>1. PICK f \in Fds \ Pinned : desc[f].owner = Host /\ desc' = Released(f)
      BY <1>8 DEF HostClose
    <2>2. f # 0
      BY <2>1 DEF SafeCaller, OwnerInv, ZeroOwner
    <2>3. \A g \in Fds : g # f => desc'[g] = desc[g]
      BY <2>1 DEF Released, TypeOK
    <2> QED
      BY <1>6, <1>8, <2>1, <2>2, <2>3, FdsFact DEF HostClose, HostReturn, OwnerInv
  <1>9. CASE NetStop
    <2>1. \A g \in Fds : desc[g].owner \notin Socks /\ desc'[g] = desc[g]
      BY <1>9 DEF NetStop, MayStop, SafeCaller, TypeOK
    <2> QED
      BY <1>6, <1>9, <2>1, FdsFact DEF NetStop, HostReturn, OwnerInv
  <1>10. CASE NetStart
    BY <1>6, <1>10, FdsFact DEF NetStart, HostReturn, OwnerInv
  <1>11. CASE UNCHANGED vars
    BY <1>6, <1>11, FdsFact DEF vars, OwnerInv
  <1> QED
    BY <1>1, <1>2, <1>3, <1>4, <1>5, <1>7, <1>8, <1>9, <1>10, <1>11 DEF Next, SockCall, HostCall

LEMMA InitOwner == SafeCaller /\ Init => OwnerInv
  BY FdsFact DEF SafeCaller, Init, OwnerInv, ZeroOwner, Attached, NewUDP, Descriptor, Free

\* A struct that is open refers to its own socket, whatever else the caller
\* does: it may retry failed calls, overwrite sockets it loses and, on
\* Winsock, close twice.  This is the heart of SlSock.
THEOREM OwnershipSafe == SafeCaller /\ Spec => []DescriptorOwned
  <1>1. SafeCaller /\ Init => TypeOK /\ OwnerInv
    BY InitType, InitOwner
  <1>2. SafeCaller /\ (TypeOK /\ OwnerInv) /\ [Next]_vars => (TypeOK /\ OwnerInv)'
    BY NextType, NextOwner
  <1>3. TypeOK /\ OwnerInv => DescriptorOwned
    BY OwnerInvImplies
  <1>4. SafeCaller => []SafeCaller
    OBVIOUS
  <1> QED
    BY <1>1, <1>2, <1>3, <1>4, PTL DEF Spec

-----------------------------------------------------------------------------
(* Isolation.  On POSIX it also takes that the caller switches the mode of *)
(* open structs only: a switch of a struct that holds no socket changes    *)
(* descriptor 0, the host's.                                               *)

IsolatedCaller == SafeCaller /\ (Winsock \/ "nonblocking" \in Rules)

\* Table d differs from desc at most in the socket of struct s, or in a free
\* descriptor that became its socket.
Own(s, d) ==
  \A f \in Fds : d[f] # desc[f] =>
    /\ d[f].owner \in {s, None}
    /\ desc[f].owner # None => desc[f].owner = s /\ f = sock[s].fd

LEMMA OwnWithSocket ==
  ASSUME TypeOK, OwnerInv, NEW s \in Socks, NEW f \in NextFds, NEW v \in BOOLEAN
  PROVE  Own(s, WithSocket(s, f, v))
  <1>1. f \in Fds /\ desc[f].owner = None
    BY NextFdsFree
  <1>2. \A g \in Fds : g # f => WithSocket(s, f, v)[g] = desc[g]
    BY DEF WithSocket, TypeOK
  <1>3. WithSocket(s, f, v)[f].owner = s
    BY SparesWithSocket
  <1> QED
    BY <1>1, <1>2, <1>3 DEF Own

\* bind() touches nothing but the socket of k, if k holds one.
LEMMA OwnBind ==
  ASSUME TypeOK, OwnerInv, NEW s \in Socks, NEW k \in SockType, NEW d \in [Fds -> DescType],
         Attached(s, k, d), Spares(s, d), Own(s, d), BindFrom(s, k, d),
         k.fd = sock[s].fd \/ desc[k.fd].owner = None
  PROVE  Own(s, desc') /\ last'.who = s
  <1>1. CASE Fails(s, k, d)
    BY <1>1 DEF Fails, Return
  <1>2. CASE \E a \in BindAddrs(d, k.fd, k.endpoint) :
               Ok(s, [k EXCEPT !.state = "BOUND"], [d EXCEPT ![k.fd].addr = a])
    <2>1. PICK a \in BindAddrs(d, k.fd, k.endpoint) :
               Ok(s, [k EXCEPT !.state = "BOUND"], [d EXCEPT ![k.fd].addr = a])
      BY <1>2
    <2>2. desc' = [d EXCEPT ![k.fd].addr = a] /\ last'.who = s
      BY <2>1 DEF Ok, Return
    <2>3. k.fd \in Fds /\ d[k.fd].owner = s
      BY DEF BindAddrs, SockType, Spares, ZeroOwner, Attached
    <2>4. desc'[k.fd].owner = s
      BY <2>2, <2>3 DEF DescType
    <2>5. \A g \in Fds : g # k.fd => desc'[g] = d[g]
      BY <2>2
    <2>6. desc[k.fd].owner # None => desc[k.fd].owner = s /\ k.fd = sock[s].fd
      BY <2>3 DEF Own
    <2> QED
      BY <2>2, <2>4, <2>5, <2>6 DEF Own
  <1> QED
    BY <1>1, <1>2 DEF BindFrom

LEMMA OwnCreateFails ==
  ASSUME TypeOK, OwnerInv, NEW s \in Socks, CreateFails(s)
  PROVE  Own(s, desc') /\ last'.who = s
  <1>1. CASE Fails(s, sock[s], desc)
    BY <1>1 DEF Fails, Return, Own
  <1>2. CASE \E f \in NextFds, v \in BOOLEAN :
               Return(s, [sock[s] EXCEPT !.fd = f], WithSocket(s, f, v), "SL_ERR")
    BY <1>2, OwnWithSocket DEF Return
  <1> QED
    BY <1>1, <1>2 DEF CreateFails

\* What a call on struct s may touch.
LEMMA CallOwn ==
  ASSUME IsolatedCaller, TypeOK, OwnerInv, NEW s \in Socks, SockCall(s)
  PROVE  Own(s, desc') /\ (desc' # desc => last'.who = s)
  <1>0. sock[s] \in SockType /\ desc \in [Fds -> DescType] /\ Attached(s, sock[s], desc)
    BY DEF TypeOK, OwnerInv
  <1> USE DEF IsolatedCaller
  <1>1. desc' = desc => Own(s, desc')
    BY DEF Own
  <1>2. CASE sl_sock_create(s)
    <2>1. CASE AssertFails(AssertCreate(s))
      BY <1>1, <2>1 DEF AssertFails
    <2>2. CASE CreateFails(s)
      BY <2>2, OwnCreateFails
    <2>3. CASE \E f \in NextFds : Ok(s, Created(s, f), WithSocket(s, f, FALSE))
      <3>1. PICK f \in NextFds : Ok(s, Created(s, f), WithSocket(s, f, FALSE))
        BY <2>3
      <3>2. desc' = WithSocket(s, f, FALSE) /\ last'.who = s
        BY <3>1 DEF Ok, Return
      <3> QED
        BY <3>2, OwnWithSocket
    <2> QED
      BY <1>2, <2>1, <2>2, <2>3 DEF sl_sock_create
  <1>3. CASE sl_sock_bind(s)
    <2>1. CASE AssertFails(sock[s].state = "CREATED")
      BY <1>1, <2>1 DEF AssertFails
    <2>2. CASE BindFrom(s, sock[s], desc)
      <3>1. Own(s, desc)
        BY DEF Own
      <3> QED
        BY <1>0, <2>2, <3>1, SparesTable, OwnBind
    <2> QED
      BY <1>3, <2>1, <2>2 DEF sl_sock_bind
  <1>4. CASE socklynx_socket_open(s)
    <2>1. CASE AssertFails(AssertCreate(s))
      BY <1>1, <2>1 DEF AssertFails
    <2>2. CASE CreateFails(s)
      BY <2>2, OwnCreateFails
    <2>3. CASE \E f \in NextFds : BindFrom(s, Created(s, f), WithSocket(s, f, FALSE))
      <3>1. PICK f \in NextFds : BindFrom(s, Created(s, f), WithSocket(s, f, FALSE))
        BY <2>3
      <3>2. Created(s, f) \in SockType /\ WithSocket(s, f, FALSE) \in [Fds -> DescType]
        BY NextFdsFree, CreatedType, WithSocketType
      <3>3. Created(s, f).fd = f /\ desc[f].owner = None
        BY <1>0, NextFdsFree DEF Created, SockType
      <3> QED
        BY <3>1, <3>2, <3>3, CreatedAttached, SparesWithSocket, OwnWithSocket, OwnBind
    <2> QED
      BY <1>4, <2>1, <2>2, <2>3 DEF socklynx_socket_open
  <1>5. CASE socklynx_socket_close(s)
    <2>1. CASE Accepts(sock[s].fd) /\ Ok(s, Closed(sock[s]), Released(sock[s].fd))
      <3>1. sock[s].fd # 0
        BY <1>5, <2>1 DEF socklynx_socket_close, MayClose, Accepts, SafeCaller,
                          OwnerInv, ZeroOwner
      <3>2. desc[sock[s].fd].owner = s /\ sock[s].fd \in Fds
        BY <1>0, <3>1 DEF Attached, SockType
      <3>3. \A g \in Fds : g # sock[s].fd => Released(sock[s].fd)[g] = desc[g]
        BY <1>0 DEF Released
      <3>4. Released(sock[s].fd)[sock[s].fd].owner = None
        BY <1>0, <3>2 DEF Released, Free, Descriptor
      <3> QED
        BY <2>1, <3>2, <3>3, <3>4 DEF Ok, Return, Own
    <2>2. CASE Fails(s, sock[s], desc)
      BY <1>1, <2>2 DEF Fails, Return
    <2> QED
      BY <1>5, <2>1, <2>2 DEF socklynx_socket_close
  <1>6. ASSUME NEW enabled \in BOOLEAN, socklynx_socket_nonblocking(s, enabled)
        PROVE  Own(s, desc') /\ (desc' # desc => last'.who = s)
    <2>1. CASE Accepts(sock[s].fd) /\
               Ok(s, [sock[s] EXCEPT !.flags = Switched(s, enabled)],
                  [desc EXCEPT ![sock[s].fd].nonblock = enabled])
      <3>1. sock[s].fd # 0
        BY <1>0, <1>6, <2>1 DEF socklynx_socket_nonblocking, MaySwitch, Accepts, SafeCaller,
                          OwnerInv, ZeroOwner, Attached
      <3>2. desc[sock[s].fd].owner = s /\ sock[s].fd \in Fds
        BY <1>0, <3>1 DEF Attached, SockType
      <3>3. desc' = [desc EXCEPT ![sock[s].fd].nonblock = enabled] /\ last'.who = s
        BY <2>1 DEF Ok, Return
      <3>4. desc'[sock[s].fd].owner = s
        BY <1>0, <3>2, <3>3 DEF DescType
      <3>5. \A g \in Fds : g # sock[s].fd => desc'[g] = desc[g]
        BY <1>0, <3>3
      <3> QED
        BY <3>2, <3>3, <3>4, <3>5 DEF Own
    <2>2. CASE Fails(s, sock[s], desc)
      BY <1>1, <2>2 DEF Fails, Return
    <2> QED
      BY <1>6, <2>1, <2>2 DEF socklynx_socket_nonblocking
  <1> QED
    BY <1>2, <1>3, <1>4, <1>5, <1>6 DEF SockCall

\* What the host's calls may touch: its own descriptors and free ones.
LEMMA HostOwn ==
  ASSUME IsolatedCaller, TypeOK, OwnerInv, HostCall
  PROVE  /\ last'.who = Host /\ sock' = sock
         /\ \A f \in Fds : desc'[f] # desc[f] =>
              desc[f].owner \in {Host, None} /\ desc'[f].owner \in {Host, None}
  <1> USE DEF IsolatedCaller
  <1>1. CASE HostOpen
    <2>1. PICK f \in NextFds : desc' = [desc EXCEPT ![f] = Descriptor(Host, NoAddr, FALSE)]
      BY <1>1 DEF HostOpen
    <2>2. f \in Fds /\ desc[f].owner = None
      BY NextFdsFree
    <2>3. desc'[f].owner = Host /\ \A g \in Fds : g # f => desc'[g] = desc[g]
      BY <2>1, <2>2 DEF TypeOK, Descriptor
    <2> QED
      BY <1>1, <2>2, <2>3 DEF HostOpen, HostReturn
  <1>2. CASE HostClose
    <2>1. PICK f \in Fds \ Pinned : desc[f].owner = Host /\ desc' = Released(f)
      BY <1>2 DEF HostClose
    <2>2. desc'[f].owner = None /\ \A g \in Fds : g # f => desc'[g] = desc[g]
      BY <2>1 DEF TypeOK, Released, Free, Descriptor
    <2> QED
      BY <1>2, <2>1, <2>2 DEF HostClose, HostReturn
  <1>3. CASE NetStop
    <2>1. \A g \in Fds : desc'[g] = desc[g]
      BY <1>3 DEF NetStop, MayStop, SafeCaller, TypeOK
    <2> QED
      BY <1>3, <2>1 DEF NetStop, HostReturn
  <1>4. CASE NetStart
    BY <1>4 DEF NetStart, HostReturn
  <1> QED
    BY <1>1, <1>2, <1>3, <1>4 DEF HostCall

\* No call touches the socket of a struct that was not passed to it, nor a
\* file of the host.
THEOREM IsolationSafe == IsolatedCaller /\ Spec => Isolation
  <1> DEFINE Touch == \A f \in Fds : desc[f].owner # None /\ desc'[f] # desc[f] =>
                        /\ last'.who = desc[f].owner
                        /\ desc[f].owner # Host => sock[desc[f].owner].fd = f
  <1>1. ASSUME IsolatedCaller, TypeOK, OwnerInv, [Next]_vars PROVE [Touch]_vars
    <2>1. CASE HostCall
      BY <1>1, <2>1, HostOwn
    <2>2. ASSUME NEW s \in Socks, SockCall(s) PROVE Touch
      <3>1. Own(s, desc') /\ (desc' # desc => last'.who = s)
        BY <1>1, <2>2, CallOwn
      <3>2. ASSUME NEW f \in Fds, desc[f].owner # None, desc'[f] # desc[f]
            PROVE  last'.who = desc[f].owner /\ sock[desc[f].owner].fd = f
        <4>1. desc[f].owner = s /\ f = sock[s].fd
          BY <3>1, <3>2 DEF Own
        <4>2. last'.who = s
          BY <3>1, <3>2
        <4> QED
          BY <4>1, <4>2
      <3> QED
        BY <3>2
    <2> QED
      BY <1>1, <2>1, <2>2 DEF Next
  <1>2. IsolatedCaller /\ Init => TypeOK /\ OwnerInv
    BY InitType, InitOwner DEF IsolatedCaller
  <1>3. IsolatedCaller /\ (TypeOK /\ OwnerInv) /\ [Next]_vars => (TypeOK /\ OwnerInv)'
    BY NextType, NextOwner DEF IsolatedCaller
  <1>4. IsolatedCaller => []IsolatedCaller
    OBVIOUS
  <1>5. IsolatedCaller /\ TypeOK /\ OwnerInv /\ [Next]_vars => [Touch]_vars
    BY <1>1
  <1> QED
    BY <1>2, <1>3, <1>4, <1>5, PTL DEF Spec, Isolation

\* A second close of a struct, as in the finally blocks of the tests, fails on
\* Winsock and does nothing: it names handle 0, which no socket ever has.
THEOREM RepeatedCloseSafe == SafeCaller /\ Spec => RepeatedCloseIsHarmless
  <1> DEFINE Harmless == \A s \in Socks :
                 /\ sock[s].state = "CLOSED" /\ \A f \in Fds : desc[f].owner # s
                 /\ socklynx_socket_close(s)
                 => UNCHANGED desc
  <1>1. ASSUME SafeCaller, TypeOK, OwnerInv, NEW s \in Socks,
               \A f \in Fds : desc[f].owner # s, socklynx_socket_close(s)
        PROVE  desc' = desc
    <2>1. sock[s].fd \in Fds
      BY <1>1 DEF TypeOK, SockType
    <2>2. sock[s].fd = 0
      BY <1>1, <2>1 DEF OwnerInv, Attached
    <2>3. Winsock /\ desc[0].owner = None
      BY <1>1, <2>2 DEF SafeCaller, OwnerInv, ZeroOwner, socklynx_socket_close, MayClose
    <2> QED
      BY <1>1, <2>2, <2>3 DEF socklynx_socket_close, Accepts, Fails, Return
  <1>2. SafeCaller /\ TypeOK /\ OwnerInv /\ [Next]_vars => [Harmless]_vars
    BY <1>1
  <1>3. SafeCaller /\ Init => TypeOK /\ OwnerInv
    BY InitType, InitOwner
  <1>4. SafeCaller /\ (TypeOK /\ OwnerInv) /\ [Next]_vars => (TypeOK /\ OwnerInv)'
    BY NextType, NextOwner
  <1>5. SafeCaller => []SafeCaller
    OBVIOUS
  <1> QED
    BY <1>2, <1>3, <1>4, <1>5, PTL DEF Spec, RepeatedCloseIsHarmless

-----------------------------------------------------------------------------
(* Sockets are not lost, and bound sockets are bound as their struct says. *)

\* A call on s replaces the struct s at most.
LEMMA CallFrame ==
  ASSUME TypeOK, NEW s \in Socks, SockCall(s)
  PROVE  \A t \in Socks \ {s} : sock'[t] = sock[t]
  <1>1. ASSUME NEW k, NEW d, NEW rv, Return(s, k, d, rv)
        PROVE  \A t \in Socks \ {s} : sock'[t] = sock[t]
    BY <1>1 DEF Return, TypeOK
  <1>2. ASSUME NEW k, NEW d, Fails(s, k, d) \/ Ok(s, k, d) \/ BindFrom(s, k, d)
        PROVE  \A t \in Socks \ {s} : sock'[t] = sock[t]
    BY <1>1, <1>2 DEF Fails, Ok, BindFrom
  <1>3. ASSUME NEW e, AssertFails(e) PROVE \A t \in Socks \ {s} : sock'[t] = sock[t]
    BY <1>3 DEF AssertFails
  <1>4. CASE CreateFails(s)
    BY <1>1, <1>2, <1>4 DEF CreateFails
  <1>5. CASE sl_sock_create(s)
    BY <1>2, <1>3, <1>4, <1>5 DEF sl_sock_create
  <1>6. CASE sl_sock_bind(s)
    BY <1>2, <1>3, <1>6 DEF sl_sock_bind
  <1>7. CASE socklynx_socket_open(s)
    BY <1>2, <1>3, <1>4, <1>7 DEF socklynx_socket_open
  <1>8. CASE socklynx_socket_close(s)
    BY <1>2, <1>8 DEF socklynx_socket_close
  <1>9. CASE \E enabled \in BOOLEAN : socklynx_socket_nonblocking(s, enabled)
    BY <1>2, <1>9 DEF socklynx_socket_nonblocking
  <1> QED
    BY <1>5, <1>6, <1>7, <1>8, <1>9 DEF SockCall

\* s holds, in table d, no socket but the one in the fd of k.
Holds(s, k, d) == \A f \in Fds : d[f].owner = s => k.fd = f

LEMMA HoldsReturn ==
  ASSUME TypeOK, NEW s \in Socks, NEW k \in SockType, NEW d, Holds(s, k, d),
         Fails(s, k, d) \/ Ok(s, k, d)
  PROVE  Holds(s, sock'[s], desc')
  <1>1. [k EXCEPT !.error = "errno"].fd = k.fd
    BY DEF SockType
  <1> QED
    BY <1>1 DEF Fails, Ok, Return, TypeOK, Holds

LEMMA HoldsBind ==
  ASSUME TypeOK, NEW s \in Socks, NEW k \in SockType, NEW d \in [Fds -> DescType],
         Holds(s, k, d), BindFrom(s, k, d)
  PROVE  Holds(s, sock'[s], desc')
  <1>1. CASE Fails(s, k, d)
    BY <1>1, HoldsReturn
  <1>2. CASE \E a \in BindAddrs(d, k.fd, k.endpoint) :
               Ok(s, [k EXCEPT !.state = "BOUND"], [d EXCEPT ![k.fd].addr = a])
    <2>1. PICK a \in BindAddrs(d, k.fd, k.endpoint) :
               Ok(s, [k EXCEPT !.state = "BOUND"], [d EXCEPT ![k.fd].addr = a])
      BY <1>2
    <2>2. [k EXCEPT !.state = "BOUND"] \in SockType /\ [k EXCEPT !.state = "BOUND"].fd = k.fd
      BY DEF SockType, States
    <2>3. \A g \in Fds : [d EXCEPT ![k.fd].addr = a][g].owner = d[g].owner
      BY DEF DescType
    <2>4. Holds(s, [k EXCEPT !.state = "BOUND"], [d EXCEPT ![k.fd].addr = a])
      BY <2>2, <2>3 DEF Holds
    <2> QED
      BY <2>1, <2>2, <2>4, HoldsReturn
  <1> QED
    BY <1>1, <1>2 DEF BindFrom

\* A struct with fd 0 holds no socket, so the first one it gets is its only one.
LEMMA HoldsWithSocket ==
  ASSUME TypeOK, OwnerInv, NoLeak, NEW s \in Socks, sock[s].fd = 0, NEW f \in NextFds,
         NEW v \in BOOLEAN, NEW k, k.fd = f
  PROVE  Holds(s, k, WithSocket(s, f, v))
  <1>1. f \in Fds /\ \A g \in Fds : g # f => WithSocket(s, f, v)[g] = desc[g]
    BY NextFdsFree DEF WithSocket, TypeOK
  <1>2. \A g \in Fds : desc[g].owner # s
    BY DEF NoLeak, OwnerInv, ZeroOwner
  <1> QED
    BY <1>1, <1>2 DEF Holds

TidyCaller == IsolatedCaller /\ "open" \in Rules

LEMMA CallHolds ==
  ASSUME TidyCaller, TypeOK, OwnerInv, NoLeak, NEW s \in Socks, SockCall(s)
  PROVE  Holds(s, sock'[s], desc')
  <1> USE DEF TidyCaller
  <1>0. /\ sock[s] \in SockType /\ desc \in [Fds -> DescType]
        /\ Holds(s, sock[s], desc)
    BY DEF TypeOK, NoLeak, Holds
  <1>1. ASSUME NEW e, AssertFails(e) PROVE Holds(s, sock'[s], desc')
    BY <1>0, <1>1 DEF AssertFails, Holds
  <1>2. ASSUME sock[s].fd = 0, CreateFails(s) PROVE Holds(s, sock'[s], desc')
    <2>1. CASE Fails(s, sock[s], desc)
      BY <1>0, <2>1, HoldsReturn
    <2>2. CASE \E f \in NextFds, v \in BOOLEAN :
                 Return(s, [sock[s] EXCEPT !.fd = f], WithSocket(s, f, v), "SL_ERR")
      <3>1. PICK f \in NextFds, v \in BOOLEAN :
                 Return(s, [sock[s] EXCEPT !.fd = f], WithSocket(s, f, v), "SL_ERR")
        BY <2>2
      <3>2. [sock[s] EXCEPT !.fd = f].fd = f
        BY <1>0 DEF SockType
      <3>3. Holds(s, [sock[s] EXCEPT !.fd = f], WithSocket(s, f, v))
        BY <1>2, <3>2, HoldsWithSocket
      <3> QED
        BY <3>1, <3>3 DEF Return, TypeOK
    <2> QED
      BY <1>2, <2>1, <2>2 DEF CreateFails
  <1>3. ASSUME sock[s].fd = 0, NEW f \in NextFds
        PROVE  /\ Created(s, f) \in SockType
               /\ WithSocket(s, f, FALSE) \in [Fds -> DescType]
               /\ Holds(s, Created(s, f), WithSocket(s, f, FALSE))
    <2>1. Created(s, f).fd = f
      BY <1>0 DEF Created, SockType
    <2> QED
      BY <1>3, <2>1, NextFdsFree, CreatedType, WithSocketType, HoldsWithSocket
  <1>4. CASE sl_sock_create(s)
    <2>1. sock[s].fd = 0
      BY <1>4 DEF sl_sock_create, MayCreate
    <2> QED
      BY <1>1, <1>2, <1>3, <1>4, <2>1, HoldsReturn DEF sl_sock_create
  <1>5. CASE sl_sock_bind(s)
    BY <1>0, <1>1, <1>5, HoldsBind DEF sl_sock_bind
  <1>6. CASE socklynx_socket_open(s)
    <2>1. sock[s].fd = 0
      BY <1>6 DEF socklynx_socket_open, MayCreate
    <2> QED
      BY <1>1, <1>2, <1>3, <1>6, <2>1, HoldsBind DEF socklynx_socket_open
  <1>7. CASE socklynx_socket_close(s)
    <2>1. Closed(sock[s]) \in SockType
      BY <1>0, FdsFact DEF Closed, SockType, States
    <2>2. Released(sock[s].fd)[sock[s].fd].owner = None /\ sock[s].fd \in Fds
      BY <1>0 DEF Released, Free, Descriptor, SockType
    <2>3. \A g \in Fds : g # sock[s].fd => Released(sock[s].fd)[g] = desc[g]
      BY <1>0 DEF Released
    <2>4. Holds(s, Closed(sock[s]), Released(sock[s].fd))
      BY <1>0, <2>2, <2>3 DEF Holds
    <2> QED
      BY <1>0, <1>7, <2>1, <2>4, HoldsReturn DEF socklynx_socket_close
  <1>8. ASSUME NEW enabled \in BOOLEAN, socklynx_socket_nonblocking(s, enabled)
        PROVE  Holds(s, sock'[s], desc')
    <2> DEFINE k == [sock[s] EXCEPT !.flags = Switched(s, enabled)]
    <2> DEFINE d == [desc EXCEPT ![sock[s].fd].nonblock = enabled]
    <2>1. k \in SockType /\ k.fd = sock[s].fd
      BY <1>0 DEF SockType, Switched, Flags
    <2>2. \A g \in Fds : d[g].owner = desc[g].owner
      BY <1>0 DEF DescType
    <2>3. Holds(s, k, d)
      BY <1>0, <2>1, <2>2 DEF Holds
    <2>4. Fails(s, sock[s], desc) \/ Ok(s, k, d)
      BY <1>8 DEF socklynx_socket_nonblocking
    <2> QED
      BY <1>0, <2>1, <2>3, <2>4, HoldsReturn
  <1> QED
    BY <1>4, <1>5, <1>6, <1>7, <1>8 DEF SockCall

LEMMA NextNoLeak ==
  ASSUME TidyCaller, TypeOK, OwnerInv, NoLeak, [Next]_vars
  PROVE  NoLeak'
  <1> USE DEF TidyCaller
  <1>1. CASE HostCall
    BY <1>1, HostOwn DEF NoLeak
  <1>2. ASSUME NEW s \in Socks, SockCall(s) PROVE NoLeak'
    <2>1. Own(s, desc') /\ Holds(s, sock'[s], desc')
      BY <1>2, CallOwn, CallHolds
    <2>2. \A t \in Socks \ {s} : sock'[t] = sock[t]
      BY <1>2, CallFrame
    <2> QED
      BY <2>1, <2>2 DEF Own, Holds, NoLeak
  <1>3. CASE UNCHANGED vars
    BY <1>3 DEF vars, NoLeak
  <1> QED
    BY <1>1, <1>2, <1>3 DEF Next

LEMMA InitNoLeak == Init => NoLeak
  BY DEF Init, NoLeak, Descriptor, Free

\* A caller that opens only structs that hold no socket loses none, through
\* any sequence of calls that fail half way, for any number of structs.
THEOREM NoLeakSafe == TidyCaller /\ Spec => []NoLeak
  <1> DEFINE I == TypeOK /\ OwnerInv /\ NoLeak
  <1>1. TidyCaller /\ Init => I
    BY InitType, InitOwner, InitNoLeak DEF TidyCaller, IsolatedCaller
  <1>2. TidyCaller /\ I /\ [Next]_vars => I'
    BY NextType, NextOwner, NextNoLeak DEF TidyCaller, IsolatedCaller
  <1>3. TidyCaller => []TidyCaller
    OBVIOUS
  <1> QED
    BY <1>1, <1>2, <1>3, PTL DEF Spec

-----------------------------------------------------------------------------
(* The address of a bound socket.                                          *)

\* The asserts, or a caller that needs none, keep create and bind from being
\* called in the wrong state.
CheckedCaller == IsolatedCaller /\ (Asserts \/ "open" \in Rules)

\* What struct k says of its socket in table d.
Agrees(k, d) ==
  /\ k.state = "BOUND" => /\ d[k.fd].addr.af = k.endpoint.af
                          /\ d[k.fd].addr.port # 0
                          /\ k.endpoint.port # 0 => d[k.fd].addr = k.endpoint
  /\ k.state \in {"CREATED", "BOUND"} => ~d[k.fd].v6only

AgreeInv == \A s \in Socks : Agrees(sock[s], desc)

LEMMA AgreesReturn ==
  ASSUME TypeOK, NEW s \in Socks, NEW k \in SockType, NEW d, Agrees(k, d),
         Fails(s, k, d) \/ Ok(s, k, d)
  PROVE  Agrees(sock'[s], desc')
  <1> DEFINE e == [k EXCEPT !.error = "errno"]
  <1>1. e.state = k.state /\ e.fd = k.fd /\ e.endpoint = k.endpoint
    BY DEF SockType
  <1>2. Agrees(e, d)
    BY <1>1 DEF Agrees
  <1>3. sock'[s] \in {k, e} /\ desc' = d
    BY DEF Fails, Ok, Return, TypeOK
  <1> QED
    BY <1>2, <1>3

LEMMA AgreesBind ==
  ASSUME TypeOK, NEW s \in Socks, NEW k \in SockType, NEW d \in [Fds -> DescType],
         Agrees(k, d), k.state = "CREATED", BindFrom(s, k, d)
  PROVE  Agrees(sock'[s], desc')
  <1>1. CASE Fails(s, k, d)
    BY <1>1, AgreesReturn
  <1>2. CASE \E a \in BindAddrs(d, k.fd, k.endpoint) :
               Ok(s, [k EXCEPT !.state = "BOUND"], [d EXCEPT ![k.fd].addr = a])
    <2>1. PICK a \in BindAddrs(d, k.fd, k.endpoint) :
               Ok(s, [k EXCEPT !.state = "BOUND"], [d EXCEPT ![k.fd].addr = a])
      BY <1>2
    <2> DEFINE b == [k EXCEPT !.state = "BOUND"]
    <2> DEFINE d2 == [d EXCEPT ![k.fd].addr = a]
    <2>2. b \in SockType /\ b.state = "BOUND" /\ b.fd = k.fd /\ b.endpoint = k.endpoint
      BY DEF SockType, States
    <2>3. k.fd \in Fds /\ d2[k.fd].addr = a /\ d2[k.fd].v6only = d[k.fd].v6only
      BY DEF SockType, DescType
    <2>4. a.af = k.endpoint.af /\ a.port # 0 /\ (k.endpoint.port # 0 => a = k.endpoint)
      BY DEF BindAddrs
    <2>5. Agrees(b, d2)
      BY <2>2, <2>3, <2>4 DEF Agrees
    <2> QED
      BY <2>1, <2>2, <2>5, AgreesReturn
  <1> QED
    BY <1>1, <1>2 DEF BindFrom

LEMMA CreatedAgrees ==
  ASSUME TypeOK, OwnerInv, NEW s \in Socks, NEW f \in NextFds
  PROVE  /\ Created(s, f) \in SockType /\ Created(s, f).state = "CREATED"
         /\ Created(s, f).fd = f
         /\ WithSocket(s, f, FALSE) \in [Fds -> DescType]
         /\ Agrees(Created(s, f), WithSocket(s, f, FALSE))
  <1>1. Created(s, f).state = "CREATED" /\ Created(s, f).fd = f
    BY DEF Created, TypeOK, SockType
  <1>2. ~WithSocket(s, f, FALSE)[f].v6only
    BY NextFdsFree DEF WithSocket, Descriptor, TypeOK
  <1>3. Agrees(Created(s, f), WithSocket(s, f, FALSE))
    BY <1>1, <1>2 DEF Agrees
  <1> QED
    BY <1>1, <1>3, NextFdsFree, CreatedType, WithSocketType

LEMMA CallAgrees ==
  ASSUME CheckedCaller, TypeOK, OwnerInv, AgreeInv, NEW s \in Socks, SockCall(s)
  PROVE  Agrees(sock'[s], desc')
  <1> USE DEF CheckedCaller
  <1>0. /\ sock[s] \in SockType /\ desc \in [Fds -> DescType] /\ Agrees(sock[s], desc)
    BY DEF TypeOK, AgreeInv
  <1>1. ASSUME NEW e, AssertFails(e) PROVE Agrees(sock'[s], desc')
    BY <1>0, <1>1 DEF AssertFails
  <1>2. ASSUME sock[s].state \in {"NEW", "CLOSED"}, CreateFails(s)
        PROVE  Agrees(sock'[s], desc')
    <2>1. CASE Fails(s, sock[s], desc)
      BY <1>0, <2>1, AgreesReturn
    <2>2. CASE \E f \in NextFds, v \in BOOLEAN :
                 Return(s, [sock[s] EXCEPT !.fd = f], WithSocket(s, f, v), "SL_ERR")
      <3>1. sock'[s].state = sock[s].state
        BY <1>0, <2>2 DEF Return, TypeOK, SockType
      <3> QED
        BY <1>2, <3>1 DEF Agrees
    <2> QED
      BY <1>2, <2>1, <2>2 DEF CreateFails
  <1>3. CASE sl_sock_create(s)
    BY <1>1, <1>2, <1>3, CreatedAgrees, AgreesReturn
    DEF sl_sock_create, MayCreate, SL_ASSERT, AssertCreate
  <1>4. CASE sl_sock_bind(s)
    BY <1>0, <1>1, <1>4, AgreesBind DEF sl_sock_bind, MayBind, SL_ASSERT
  <1>5. CASE socklynx_socket_open(s)
    BY <1>1, <1>2, <1>5, CreatedAgrees, AgreesBind
    DEF socklynx_socket_open, MayCreate, SL_ASSERT, AssertCreate
  <1>6. CASE socklynx_socket_close(s)
    <2>1. Closed(sock[s]) \in SockType /\ Closed(sock[s]).state = "CLOSED"
      BY <1>0, FdsFact DEF Closed, SockType, States
    <2>2. Agrees(Closed(sock[s]), Released(sock[s].fd))
      BY <2>1 DEF Agrees
    <2> QED
      BY <1>0, <1>6, <2>1, <2>2, AgreesReturn DEF socklynx_socket_close
  <1>7. ASSUME NEW enabled \in BOOLEAN, socklynx_socket_nonblocking(s, enabled)
        PROVE  Agrees(sock'[s], desc')
    <2> DEFINE k == [sock[s] EXCEPT !.flags = Switched(s, enabled)]
    <2> DEFINE d == [desc EXCEPT ![sock[s].fd].nonblock = enabled]
    <2>1. /\ k \in SockType /\ k.fd = sock[s].fd
          /\ k.state = sock[s].state /\ k.endpoint = sock[s].endpoint
      BY <1>0 DEF SockType, Switched, Flags
    <2>2. \A g \in Fds : d[g].addr = desc[g].addr /\ d[g].v6only = desc[g].v6only
      BY <1>0 DEF DescType
    <2>3. sock[s].fd \in Fds
      BY <1>0 DEF SockType
    <2>4. Agrees(k, d)
      BY <1>0, <2>1, <2>2, <2>3 DEF Agrees
    <2>5. Fails(s, sock[s], desc) \/ Ok(s, k, d)
      BY <1>7 DEF socklynx_socket_nonblocking
    <2> QED
      BY <1>0, <2>1, <2>4, <2>5, AgreesReturn
  <1> QED
    BY <1>3, <1>4, <1>5, <1>6, <1>7 DEF SockCall

\* The socket of an open struct changes by calls on that struct only.
LEMMA OpenFrame ==
  ASSUME IsolatedCaller, TypeOK, OwnerInv, NEW t \in Socks, Opened(t),
         HostCall \/ \E s \in Socks \ {t} : SockCall(s)
  PROVE  sock'[t] = sock[t] /\ desc'[sock[t].fd] = desc[sock[t].fd]
  <1>1. sock[t].fd \in Fds /\ desc[sock[t].fd].owner = t
    BY DEF OwnerInv, Attached, Opened, TypeOK, SockType
  <1>2. CASE HostCall
    BY <1>1, <1>2, HostOwn
  <1>3. ASSUME NEW s \in Socks \ {t}, SockCall(s)
        PROVE  sock'[t] = sock[t] /\ desc'[sock[t].fd] = desc[sock[t].fd]
    BY <1>1, <1>3, CallOwn, CallFrame DEF Own
  <1> QED
    BY <1>2, <1>3

LEMMA NextAgrees ==
  ASSUME CheckedCaller, TypeOK, OwnerInv, AgreeInv, [Next]_vars
  PROVE  AgreeInv'
  <1> SUFFICES ASSUME NEW t \in Socks PROVE Agrees(sock'[t], desc')
    BY DEF AgreeInv, Agrees
  <1>0. Agrees(sock[t], desc)
    BY DEF AgreeInv
  <1>1. CASE SockCall(t)
    BY <1>1, CallAgrees
  <1>2. CASE HostCall \/ \E s \in Socks \ {t} : SockCall(s)
    <2>1. CASE Opened(t)
      BY <1>0, <1>2, <2>1, OpenFrame DEF CheckedCaller, Agrees
    <2>2. CASE ~Opened(t)
      <3>1. sock'[t] = sock[t]
        BY <1>2, CallFrame, HostOwn DEF CheckedCaller
      <3> QED
        BY <2>2, <3>1 DEF Agrees, Opened
    <2> QED
      BY <2>1, <2>2
  <1>3. CASE UNCHANGED vars
    BY <1>0, <1>3 DEF vars, Agrees
  <1> QED
    BY <1>1, <1>2, <1>3 DEF Next

LEMMA InitAgrees == Init => AgreeInv
  <1> SUFFICES ASSUME Init, NEW s \in Socks PROVE Agrees(sock[s], desc)
    BY DEF AgreeInv
  <1>1. PICK e \in Endpoints : sock[s] = NewUDP(e)
    BY DEF Init
  <1>2. sock[s].state = "NEW"
    BY <1>1 DEF NewUDP
  <1> QED
    BY <1>2 DEF Agrees

\* BOUND is only said of a socket that is bound as the struct's endpoint asks.
THEOREM BoundSafe == CheckedCaller /\ Spec => []BoundAsAsked
  <1> DEFINE I == TypeOK /\ OwnerInv /\ AgreeInv
  <1>1. CheckedCaller /\ Init => I
    BY InitType, InitOwner, InitAgrees DEF CheckedCaller, IsolatedCaller
  <1>2. CheckedCaller /\ I /\ [Next]_vars => I'
    BY NextType, NextOwner, NextAgrees DEF CheckedCaller, IsolatedCaller
  <1>3. I => BoundAsAsked
    BY DEF AgreeInv, Agrees, BoundAsAsked
  <1>4. CheckedCaller => []CheckedCaller
    OBVIOUS
  <1> QED
    BY <1>1, <1>2, <1>3, <1>4, PTL DEF Spec

-----------------------------------------------------------------------------
(* The ports of lost sockets: there are none.                              *)

\* What has a port in table d and is s's is the socket of k, which is BOUND.
HoldsPorts(s, k, d) ==
  \A f \in Fds : d[f].owner = s /\ d[f].addr # NoAddr => k.fd = f /\ k.state = "BOUND"

LEMMA PortsReturn ==
  ASSUME TypeOK, NEW s \in Socks, NEW k \in SockType, NEW d, HoldsPorts(s, k, d),
         Fails(s, k, d) \/ Ok(s, k, d)
  PROVE  HoldsPorts(s, sock'[s], desc')
  <1> DEFINE e == [k EXCEPT !.error = "errno"]
  <1>1. e.fd = k.fd /\ e.state = k.state
    BY DEF SockType
  <1>2. sock'[s] \in {k, e} /\ desc' = d
    BY DEF Fails, Ok, Return, TypeOK
  <1> QED
    BY <1>1, <1>2 DEF HoldsPorts

\* A struct that does not say BOUND has no port, whatever sockets it lost, so
\* only the one it binds now has one after the bind.
LEMMA PortsBind ==
  ASSUME TypeOK, NEW s \in Socks, NEW k \in SockType, NEW d \in [Fds -> DescType],
         HoldsPorts(s, k, d), k.state = "CREATED", BindFrom(s, k, d)
  PROVE  HoldsPorts(s, sock'[s], desc')
  <1>1. CASE Fails(s, k, d)
    BY <1>1, PortsReturn
  <1>2. CASE \E a \in BindAddrs(d, k.fd, k.endpoint) :
               Ok(s, [k EXCEPT !.state = "BOUND"], [d EXCEPT ![k.fd].addr = a])
    <2>1. PICK a \in BindAddrs(d, k.fd, k.endpoint) :
               Ok(s, [k EXCEPT !.state = "BOUND"], [d EXCEPT ![k.fd].addr = a])
      BY <1>2
    <2> DEFINE b == [k EXCEPT !.state = "BOUND"]
    <2> DEFINE d2 == [d EXCEPT ![k.fd].addr = a]
    <2>2. b \in SockType /\ b.state = "BOUND" /\ b.fd = k.fd
      BY DEF SockType, States
    <2>3. \A g \in Fds : d2[g].owner = d[g].owner /\ (g # k.fd => d2[g] = d[g])
      BY DEF DescType
    <2>4. HoldsPorts(s, b, d2)
      BY <2>2, <2>3 DEF HoldsPorts
    <2> QED
      BY <2>1, <2>2, <2>4, PortsReturn
  <1> QED
    BY <1>1, <1>2 DEF BindFrom

\* A create starts from a struct that has no port, and gives it a new socket.
LEMMA PortsWithSocket ==
  ASSUME TypeOK, OwnerInv, NEW s \in Socks, HoldsPorts(s, sock[s], desc),
         sock[s].state \in {"NEW", "CLOSED"}, NEW f \in NextFds, NEW v \in BOOLEAN, NEW k
  PROVE  HoldsPorts(s, k, WithSocket(s, f, v))
  <1>1. f \in Fds /\ WithSocket(s, f, v)[f].addr = NoAddr
    BY NextFdsFree DEF WithSocket, Descriptor, TypeOK
  <1>2. \A g \in Fds : g # f => WithSocket(s, f, v)[g] = desc[g]
    BY <1>1 DEF WithSocket, TypeOK
  <1> QED
    BY <1>1, <1>2 DEF HoldsPorts

LEMMA CallPorts ==
  ASSUME CheckedCaller, TypeOK, OwnerInv, NEW s \in Socks, HoldsPorts(s, sock[s], desc),
         SockCall(s)
  PROVE  HoldsPorts(s, sock'[s], desc')
  <1> USE DEF CheckedCaller
  <1>0. sock[s] \in SockType /\ desc \in [Fds -> DescType]
    BY DEF TypeOK
  <1>1. ASSUME NEW e, AssertFails(e) PROVE HoldsPorts(s, sock'[s], desc')
    BY <1>1 DEF AssertFails, HoldsPorts
  <1>2. ASSUME sock[s].state \in {"NEW", "CLOSED"}, CreateFails(s)
        PROVE  HoldsPorts(s, sock'[s], desc')
    <2>1. CASE Fails(s, sock[s], desc)
      BY <1>0, <2>1, PortsReturn
    <2>2. ASSUME NEW f \in NextFds, NEW v \in BOOLEAN,
                 Return(s, [sock[s] EXCEPT !.fd = f], WithSocket(s, f, v), "SL_ERR")
          PROVE  HoldsPorts(s, sock'[s], desc')
      <3>1. desc' = WithSocket(s, f, v)
        BY <2>2 DEF Return
      <3> QED
        BY <1>2, <3>1, PortsWithSocket
    <2> QED
      BY <1>2, <2>1, <2>2 DEF CreateFails
  <1>3. ASSUME sock[s].state \in {"NEW", "CLOSED"}, NEW f \in NextFds
        PROVE  HoldsPorts(s, Created(s, f), WithSocket(s, f, FALSE))
    BY <1>3, PortsWithSocket
  <1>4. CASE sl_sock_create(s)
    BY <1>1, <1>2, <1>3, <1>4, CreatedAgrees, PortsReturn
    DEF sl_sock_create, MayCreate, SL_ASSERT, AssertCreate
  <1>5. CASE sl_sock_bind(s)
    BY <1>0, <1>1, <1>5, PortsBind DEF sl_sock_bind, MayBind, SL_ASSERT
  <1>6. CASE socklynx_socket_open(s)
    BY <1>1, <1>2, <1>3, <1>6, CreatedAgrees, PortsBind
    DEF socklynx_socket_open, MayCreate, SL_ASSERT, AssertCreate
  <1>7. CASE socklynx_socket_close(s)
    <2>1. Closed(sock[s]) \in SockType
      BY <1>0, FdsFact DEF Closed, SockType, States
    <2>2. sock[s].fd \in Fds /\ Released(sock[s].fd)[sock[s].fd].addr = NoAddr
      BY <1>0 DEF Released, Free, Descriptor, SockType
    <2>3. \A g \in Fds : g # sock[s].fd => Released(sock[s].fd)[g] = desc[g]
      BY <1>0 DEF Released
    <2>4. HoldsPorts(s, Closed(sock[s]), Released(sock[s].fd))
      BY <2>2, <2>3 DEF HoldsPorts
    <2> QED
      BY <1>0, <1>7, <2>1, <2>4, PortsReturn DEF socklynx_socket_close
  <1>8. ASSUME NEW enabled \in BOOLEAN, socklynx_socket_nonblocking(s, enabled)
        PROVE  HoldsPorts(s, sock'[s], desc')
    <2> DEFINE k == [sock[s] EXCEPT !.flags = Switched(s, enabled)]
    <2> DEFINE d == [desc EXCEPT ![sock[s].fd].nonblock = enabled]
    <2>1. k \in SockType /\ k.fd = sock[s].fd /\ k.state = sock[s].state
      BY <1>0 DEF SockType, Switched, Flags
    <2>2. \A g \in Fds : d[g].owner = desc[g].owner /\ d[g].addr = desc[g].addr
      BY <1>0 DEF DescType
    <2>3. HoldsPorts(s, k, d)
      BY <2>1, <2>2 DEF HoldsPorts
    <2>4. Fails(s, sock[s], desc) \/ Ok(s, k, d)
      BY <1>8 DEF socklynx_socket_nonblocking
    <2> QED
      BY <1>0, <2>1, <2>3, <2>4, PortsReturn
  <1> QED
    BY <1>4, <1>5, <1>6, <1>7, <1>8 DEF SockCall

LEMMA NextPorts ==
  ASSUME CheckedCaller, TypeOK, OwnerInv, PortsHeldByBound, [Next]_vars
  PROVE  PortsHeldByBound'
  <1>1. CASE HostCall
    BY <1>1, HostOwn DEF CheckedCaller, PortsHeldByBound
  <1>2. ASSUME NEW s \in Socks, SockCall(s) PROVE PortsHeldByBound'
    <2>1. HoldsPorts(s, sock[s], desc)
      BY DEF PortsHeldByBound, HoldsPorts
    <2>2. HoldsPorts(s, sock'[s], desc')
      BY <1>2, <2>1, CallPorts
    <2>3. Own(s, desc') /\ \A t \in Socks \ {s} : sock'[t] = sock[t]
      BY <1>2, CallOwn, CallFrame DEF CheckedCaller
    <2> QED
      BY <2>2, <2>3 DEF Own, HoldsPorts, PortsHeldByBound
  <1>3. CASE UNCHANGED vars
    BY <1>3 DEF vars, PortsHeldByBound
  <1> QED
    BY <1>1, <1>2, <1>3 DEF Next

\* Where the asserts are compiled in, a caller may retry and reopen as it
\* likes: it may lose a socket, but never one with a port.  Without them it
\* takes the rule "open".
THEOREM PortsHeldSafe == CheckedCaller /\ Spec => []PortsHeldByBound
  <1> DEFINE I == TypeOK /\ OwnerInv /\ PortsHeldByBound
  <1>1. Init => PortsHeldByBound
    BY DEF Init, PortsHeldByBound, Descriptor, Free
  <1>2. CheckedCaller /\ Init => I
    BY <1>1, InitType, InitOwner DEF CheckedCaller, IsolatedCaller
  <1>3. CheckedCaller /\ I /\ [Next]_vars => I'
    BY NextType, NextOwner, NextPorts DEF CheckedCaller, IsolatedCaller
  <1>4. CheckedCaller => []CheckedCaller
    OBVIOUS
  <1> QED
    BY <1>2, <1>3, <1>4, PTL DEF Spec

-----------------------------------------------------------------------------
(* Sockets and Winsock.                                                    *)

\* While Winsock is down the process has no socket.
DownInv == Winsock /\ ~net => \A f \in Fds : desc[f].owner \notin Socks

\* A call on a struct makes a socket of no descriptor but through socket(),
\* which fails while Winsock is down.
LEMMA CallDown ==
  ASSUME TypeOK, DownInv, Winsock, ~net, NEW s \in Socks, SockCall(s)
  PROVE  ~net' /\ \A f \in Fds : desc'[f].owner \notin Socks
  <1> DEFINE Socketless(d) == \A f \in Fds : d[f].owner \notin Socks
  <1>0. sock[s] \in SockType /\ desc \in [Fds -> DescType] /\ Socketless(desc)
    BY DEF TypeOK, DownInv
  <1>1. ASSUME NEW k, Fails(s, k, desc) PROVE ~net' /\ Socketless(desc')
    BY <1>0, <1>1 DEF Fails, Return
  <1>2. ASSUME NEW e, AssertFails(e) PROVE ~net' /\ Socketless(desc')
    BY <1>0, <1>2 DEF AssertFails
  <1>3. CreateFails(s) => Fails(s, sock[s], desc)
    BY DEF CreateFails
  <1>4. ~Creatable(s)
    BY DEF Creatable
  <1>5. CASE sl_sock_create(s)
    BY <1>1, <1>2, <1>3, <1>4, <1>5 DEF sl_sock_create
  <1>6. CASE sl_sock_bind(s)
    <2>1. sock[s].fd \in Fds
      BY <1>0 DEF SockType
    <2>2. BindFrom(s, sock[s], desc) => Fails(s, sock[s], desc)
      BY <1>0, <2>1 DEF BindFrom, BindAddrs
    <2> QED
      BY <1>1, <1>2, <1>6, <2>2 DEF sl_sock_bind
  <1>7. CASE socklynx_socket_open(s)
    BY <1>1, <1>2, <1>3, <1>4, <1>7 DEF socklynx_socket_open
  <1>8. ~Accepts(sock[s].fd)
    <2>1. sock[s].fd \in Fds
      BY <1>0 DEF SockType
    <2> QED
      BY <1>0, <2>1 DEF Accepts
  <1>9. CASE socklynx_socket_close(s)
    BY <1>1, <1>8, <1>9 DEF socklynx_socket_close
  <1>10. ASSUME NEW enabled \in BOOLEAN, socklynx_socket_nonblocking(s, enabled)
         PROVE  ~net' /\ Socketless(desc')
    BY <1>1, <1>8, <1>10 DEF socklynx_socket_nonblocking
  <1> QED
    BY <1>5, <1>6, <1>7, <1>9, <1>10 DEF SockCall

LEMMA CallNet == ASSUME NEW s \in Socks, SockCall(s) PROVE net' = net
  <1>1. ASSUME NEW k, NEW d, NEW rv, Return(s, k, d, rv) PROVE net' = net
    BY <1>1 DEF Return
  <1>2. ASSUME NEW k, NEW d, Fails(s, k, d) \/ Ok(s, k, d) \/ BindFrom(s, k, d)
        PROVE  net' = net
    BY <1>1, <1>2 DEF Fails, Ok, BindFrom
  <1>3. CreateFails(s) => net' = net
    BY <1>1, <1>2 DEF CreateFails
  <1>4. \A e : AssertFails(e) => net' = net
    BY DEF AssertFails
  <1> QED
    BY <1>2, <1>3, <1>4 DEF SockCall, sl_sock_create, sl_sock_bind, socklynx_socket_open,
                            socklynx_socket_close, socklynx_socket_nonblocking

LEMMA NextDown ==
  ASSUME TypeOK, DownInv, [Next]_vars
  PROVE  DownInv'
  <1> SUFFICES ASSUME Winsock, ~net' PROVE \A f \in Fds : desc'[f].owner \notin Socks
    BY DEF DownInv
  <1>1. ASSUME NEW s \in Socks, SockCall(s)
        PROVE  \A f \in Fds : desc'[f].owner \notin Socks
    BY <1>1, CallNet, CallDown
  <1>2. CASE HostOpen
    <2>1. PICK f \in NextFds : desc' = [desc EXCEPT ![f] = Descriptor(Host, NoAddr, FALSE)]
      BY <1>2 DEF HostOpen
    <2>2. ~net /\ \A g \in Fds : desc[g].owner \notin Socks
      BY <1>2 DEF HostOpen, DownInv
    <2> QED
      BY <2>1, <2>2 DEF Descriptor, TypeOK
  <1>3. CASE HostClose
    <2>1. ~net /\ \A g \in Fds : desc[g].owner \notin Socks
      BY <1>3 DEF HostClose, DownInv
    <2> QED
      BY <1>3, <2>1 DEF HostClose, Released, Free, Descriptor, TypeOK
  <1>4. CASE NetStop
    BY <1>4 DEF NetStop, Free, Descriptor
  <1>5. CASE NetStart
    BY <1>5 DEF NetStart
  <1>6. CASE UNCHANGED vars
    BY <1>6 DEF vars, DownInv
  <1> QED
    BY <1>1, <1>2, <1>3, <1>4, <1>5, <1>6 DEF Next, HostCall

\* Whatever the caller does with structs and keeps no rule at all.
LEMMA DownSafe == Spec => []DownInv
  <1>1. Init => TypeOK /\ DownInv
    <2> SUFFICES ASSUME Init, NEW f \in Fds PROVE desc[f].owner \notin Socks
      BY InitType DEF DownInv
    <2>1. desc[f].owner \in {Host, None}
      BY DEF Init, Descriptor, Free
    <2> QED
      BY <2>1
  <1>2. (TypeOK /\ DownInv) /\ [Next]_vars => (TypeOK /\ DownInv)'
    BY NextType, NextDown
  <1> QED
    BY <1>1, <1>2, PTL DEF Spec
=============================================================================
