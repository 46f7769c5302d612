------------------------- MODULE SlSockLife_proofs -------------------------
(* Proofs that SlSock implements SocketLife, and of what follows from it,  *)
(* for every value of the constants.                                       *)
EXTENDS SlSockLife, SlSock_proofs

USE SlSockAssumption

-----------------------------------------------------------------------------
(* What a call does to its struct, in the terms of a caller that keeps the *)
(* rule "open".  k is the struct before the call and j after it.           *)

Stays(k, j) ==
  /\ j.fd = k.fd /\ j.state = k.state /\ j.flags = k.flags
  /\ desc' = desc

SameMode(k, j) == "NONBLOCKING" \in j.flags <=> "NONBLOCKING" \in k.flags

\* bind() of descriptor f in table d, as e asks.
BindsIn(d, f, e) == \E a \in BindAddrs(d, f, e) : desc' = [d EXCEPT ![f].addr = a]

Creates(s, k, j) ==
  /\ k.fd = 0 /\ k.state \in {"NEW", "CLOSED"}
  /\ j.fd \in NextFds /\ SameMode(k, j)
  /\ \E v \in BOOLEAN : desc' = WithSocket(s, j.fd, v)
  /\ j.state \in {k.state, "CREATED"}

Opens(s, k, j) ==
  /\ k.fd = 0 /\ k.state \in {"NEW", "CLOSED"}
  /\ j.fd \in NextFds /\ SameMode(k, j)
  /\ j.state = "BOUND"
  /\ BindsIn(WithSocket(s, j.fd, FALSE), j.fd, k.endpoint)

Binds(k, j) ==
  /\ k.state = "CREATED" /\ j.state = "BOUND"
  /\ j.fd = k.fd /\ j.flags = k.flags
  /\ BindsIn(desc, k.fd, k.endpoint)

Closes(k, j) ==
  /\ k.fd # 0
  /\ j.fd = 0 /\ j.state = "CLOSED" /\ j.flags = {}

Switches(k, j) ==
  /\ "nonblocking" \in Rules => k.state \in {"CREATED", "BOUND"}
  /\ k.fd # 0 /\ j.fd = k.fd /\ j.state = k.state
  /\ \E enabled \in BOOLEAN :
       /\ "NONBLOCKING" \in j.flags <=> enabled
       /\ desc' = [desc EXCEPT ![k.fd].nonblock = enabled]

Outcome(s, k, j) ==
  /\ j.endpoint = k.endpoint
  /\ \/ Stays(k, j) \/ Creates(s, k, j) \/ Opens(s, k, j)
     \/ Binds(k, j) \/ Closes(k, j) \/ Switches(k, j)

\* What Return leaves, when it does name an error and when it does not.
LEMMA Returned ==
  ASSUME TypeOK, NEW s \in Socks, NEW k \in SockType, NEW d,
         Fails(s, k, d) \/ Ok(s, k, d) \/ Return(s, k, d, "SL_ERR")
  PROVE  /\ desc' = d
         /\ sock'[s].fd = k.fd /\ sock'[s].state = k.state
         /\ sock'[s].flags = k.flags /\ sock'[s].endpoint = k.endpoint
  <1>1. sock'[s] \in {k, [k EXCEPT !.error = "errno"]} /\ desc' = d
    BY DEF Fails, Ok, Return, TypeOK
  <1> QED
    BY <1>1 DEF SockType

\* bind() as the end of sl_sock_bind and of socklynx_socket_open.
LEMMA BindReturned ==
  ASSUME TypeOK, NEW s \in Socks, NEW k \in SockType, NEW d \in [Fds -> DescType],
         BindFrom(s, k, d)
  PROVE  /\ sock'[s].fd = k.fd /\ sock'[s].flags = k.flags
         /\ sock'[s].endpoint = k.endpoint
         /\ \/ sock'[s].state = k.state /\ desc' = d
            \/ sock'[s].state = "BOUND" /\ BindsIn(d, k.fd, k.endpoint)
  <1>1. CASE Fails(s, k, d)
    BY <1>1, Returned
  <1>2. CASE \E a \in BindAddrs(d, k.fd, k.endpoint) :
               Ok(s, [k EXCEPT !.state = "BOUND"], [d EXCEPT ![k.fd].addr = a])
    <2> DEFINE b == [k EXCEPT !.state = "BOUND"]
    <2>1. PICK a \in BindAddrs(d, k.fd, k.endpoint) : Ok(s, b, [d EXCEPT ![k.fd].addr = a])
      BY <1>2
    <2>2. /\ b \in SockType /\ b.state = "BOUND" /\ b.fd = k.fd
          /\ b.flags = k.flags /\ b.endpoint = k.endpoint
      BY DEF SockType, States
    <2> HIDE DEF b
    <2> QED
      BY <2>1, <2>2, Returned DEF BindsIn
  <1> QED
    BY <1>1, <1>2 DEF BindFrom

LEMMA CreatedStruct ==
  ASSUME TypeOK, NEW s \in Socks, NEW f \in Fds
  PROVE  /\ Created(s, f) \in SockType
         /\ Created(s, f).fd = f /\ Created(s, f).state = "CREATED"
         /\ SameMode(sock[s], Created(s, f))
         /\ Created(s, f).endpoint = sock[s].endpoint
  <1>1. sock[s] \in SockType
    BY DEF TypeOK
  <1>2. /\ Created(s, f).fd = f /\ Created(s, f).state = "CREATED"
        /\ Created(s, f).flags = CreatedFlags(sock[s])
        /\ Created(s, f).endpoint = sock[s].endpoint
    BY <1>1 DEF Created, SockType
  <1> QED
    BY <1>2, CreatedType DEF SameMode, CreatedFlags

LEMMA OpenOutcome ==
  ASSUME TypeOK, NEW s \in Socks, NEW f \in NextFds, NEW c \in SockType,
         NEW d \in [Fds -> DescType], d = WithSocket(s, f, FALSE),
         sock[s].fd = 0, sock[s].state \in {"NEW", "CLOSED"},
         c.fd = f, c.state = "CREATED", SameMode(sock[s], c),
         c.endpoint = sock[s].endpoint, BindFrom(s, c, d)
  PROVE  Outcome(s, sock[s], sock'[s])
  <1>1. /\ sock'[s].fd = c.fd /\ sock'[s].flags = c.flags
        /\ sock'[s].endpoint = c.endpoint
        /\ \/ sock'[s].state = c.state /\ desc' = d
           \/ sock'[s].state = "BOUND" /\ BindsIn(d, c.fd, c.endpoint)
    BY BindReturned
  <1>2. SameMode(sock[s], sock'[s])
    BY <1>1 DEF SameMode
  <1> QED
    BY <1>1, <1>2 DEF Outcome, Creates, Opens

LEMMA CallOutcome ==
  ASSUME TidyCaller, TypeOK, OwnerInv, NEW s \in Socks, SockCall(s)
  PROVE  Outcome(s, sock[s], sock'[s])
  <1> DEFINE k == sock[s]
  <1> DEFINE j == sock'[s]
  <1> USE DEF TidyCaller, IsolatedCaller
  <1>0. k \in SockType /\ desc \in [Fds -> DescType] /\ Attached(s, k, desc)
    BY DEF TypeOK, OwnerInv
  <1>1. ASSUME NEW e, AssertFails(e) PROVE Outcome(s, k, j)
    BY <1>1 DEF AssertFails, Outcome, Stays
  <1>2. ASSUME Fails(s, k, desc) PROVE Outcome(s, k, j)
    BY <1>0, <1>2, Returned DEF Outcome, Stays
  <1>3. ASSUME MayCreate(s), CreateFails(s) PROVE Outcome(s, k, j)
    <2>1. CASE Fails(s, k, desc)
      BY <1>2, <2>1
    <2>2. CASE \E f \in NextFds, v \in BOOLEAN :
                 Return(s, [k EXCEPT !.fd = f], WithSocket(s, f, v), "SL_ERR")
      <3>1. PICK f \in NextFds, v \in BOOLEAN :
                 Return(s, [k EXCEPT !.fd = f], WithSocket(s, f, v), "SL_ERR")
        BY <2>2
      <3> DEFINE h == [k EXCEPT !.fd = f]
      <3>2. f \in Fds
        BY NextFdsFree
      <3>3. /\ h \in SockType /\ h.fd = f /\ h.state = k.state
            /\ h.flags = k.flags /\ h.endpoint = k.endpoint
        BY <1>0, <3>2 DEF SockType
      <3> HIDE DEF h
      <3>4. /\ desc' = WithSocket(s, f, v) /\ j.fd = f /\ j.state = k.state
            /\ j.flags = k.flags /\ j.endpoint = k.endpoint
        BY <3>1, <3>3, Returned DEF h
      <3> QED
        BY <1>3, <3>4 DEF MayCreate, Outcome, Creates, SameMode
    <2> QED
      BY <1>3, <2>1, <2>2 DEF CreateFails
  <1>4. CASE sl_sock_create(s)
    <2>1. CASE \E f \in NextFds : Ok(s, Created(s, f), WithSocket(s, f, FALSE))
      <3>1. PICK f \in NextFds : Ok(s, Created(s, f), WithSocket(s, f, FALSE))
        BY <2>1
      <3> DEFINE c == Created(s, f)
      <3>2. /\ c \in SockType /\ c.fd = f /\ c.state = "CREATED" /\ SameMode(k, c)
            /\ c.endpoint = k.endpoint
        BY NextFdsFree, CreatedStruct
      <3> HIDE DEF c
      <3>3. /\ desc' = WithSocket(s, f, FALSE) /\ j.fd = c.fd /\ j.state = c.state
            /\ j.flags = c.flags /\ j.endpoint = c.endpoint
        BY <3>1, <3>2, Returned DEF c
      <3>4. SameMode(k, j)
        BY <3>2, <3>3 DEF SameMode
      <3> QED
        BY <1>4, <3>2, <3>3, <3>4 DEF sl_sock_create, MayCreate, Outcome, Creates
    <2> QED
      BY <1>1, <1>3, <1>4, <2>1 DEF sl_sock_create
  <1>5. CASE sl_sock_bind(s)
    <2>1. CASE BindFrom(s, k, desc)
      <3>1. k.state = "CREATED"
        BY <1>5 DEF sl_sock_bind, MayBind
      <3>2. /\ j.fd = k.fd /\ j.flags = k.flags /\ j.endpoint = k.endpoint
            /\ \/ j.state = k.state /\ desc' = desc
               \/ j.state = "BOUND" /\ BindsIn(desc, k.fd, k.endpoint)
        BY <1>0, <2>1, BindReturned
      <3> QED
        BY <3>1, <3>2 DEF Outcome, Stays, Binds
    <2> QED
      BY <1>1, <1>5, <2>1 DEF sl_sock_bind
  <1>6. CASE socklynx_socket_open(s)
    <2>1. CASE \E f \in NextFds : BindFrom(s, Created(s, f), WithSocket(s, f, FALSE))
      <3>1. PICK f \in NextFds : BindFrom(s, Created(s, f), WithSocket(s, f, FALSE))
        BY <2>1
      <3>2. k.fd = 0 /\ k.state \in {"NEW", "CLOSED"} /\ f \in Fds
        BY <1>6, NextFdsFree DEF socklynx_socket_open, MayCreate
      <3> QED
        BY <3>1, <3>2, CreatedStruct, WithSocketType, OpenOutcome
    <2> QED
      BY <1>1, <1>3, <1>6, <2>1 DEF socklynx_socket_open
  <1>7. CASE socklynx_socket_close(s)
    <2>1. CASE Accepts(k.fd) /\ Ok(s, Closed(k), Released(k.fd))
      <3>1. k.fd # 0
        BY <1>7, <2>1 DEF socklynx_socket_close, MayClose, Accepts, SafeCaller,
                          OwnerInv, ZeroOwner
      <3>2. /\ Closed(k) \in SockType /\ Closed(k).fd = 0 /\ Closed(k).state = "CLOSED"
            /\ Closed(k).flags = {} /\ Closed(k).endpoint = k.endpoint
        BY <1>0, FdsFact DEF Closed, SockType, States
      <3> QED
        BY <2>1, <3>1, <3>2, Returned DEF Outcome, Closes
    <2> QED
      BY <1>2, <1>7, <2>1 DEF socklynx_socket_close
  <1>8. ASSUME NEW enabled \in BOOLEAN, socklynx_socket_nonblocking(s, enabled)
        PROVE  Outcome(s, k, j)
    <2> DEFINE w == [k EXCEPT !.flags = Switched(s, enabled)]
    <2> DEFINE d == [desc EXCEPT ![k.fd].nonblock = enabled]
    <2>1. CASE Accepts(k.fd) /\ Ok(s, w, d)
      <3>1. k.fd # 0
        BY <1>0, <1>8, <2>1 DEF socklynx_socket_nonblocking, MaySwitch, Accepts, SafeCaller,
                          OwnerInv, ZeroOwner, Attached
      <3>2. /\ w \in SockType /\ w.fd = k.fd /\ w.state = k.state
            /\ w.endpoint = k.endpoint /\ w.flags = Switched(s, enabled)
        BY <1>0 DEF SockType, Switched, Flags
      <3>3. "NONBLOCKING" \in Switched(s, enabled) <=> enabled
        BY DEF Switched
      <3> HIDE DEF w
      <3>4. /\ desc' = d /\ j.fd = k.fd /\ j.state = k.state /\ j.endpoint = k.endpoint
            /\ "NONBLOCKING" \in j.flags <=> enabled
        BY <2>1, <3>2, <3>3, Returned
      <3>5. "nonblocking" \in Rules => k.state \in {"CREATED", "BOUND"}
        BY <1>8 DEF socklynx_socket_nonblocking, MaySwitch
      <3> QED
        BY <3>1, <3>4, <3>5 DEF Outcome, Switches
    <2> QED
      BY <1>2, <1>8, <2>1 DEF socklynx_socket_nonblocking
  <1> QED
    BY <1>4, <1>5, <1>6, <1>7, <1>8 DEF SockCall

\* The struct t and the socket it holds, if it holds one, change by calls on t
\* only.
LEMMA HeldFrame ==
  ASSUME IsolatedCaller, TypeOK, OwnerInv, NEW t \in Socks,
         HostCall \/ \E s \in Socks \ {t} : SockCall(s)
  PROVE  sock'[t] = sock[t] /\ (sock[t].fd # 0 => desc'[sock[t].fd] = desc[sock[t].fd])
  <1>1. sock[t].fd \in Fds /\ (sock[t].fd # 0 => desc[sock[t].fd].owner = t)
    BY DEF OwnerInv, Attached, TypeOK, SockType
  <1>2. CASE HostCall
    BY <1>1, <1>2, HostOwn
  <1>3. ASSUME NEW s \in Socks \ {t}, SockCall(s)
        PROVE  sock'[t] = sock[t] /\ (sock[t].fd # 0 => desc'[sock[t].fd] = desc[sock[t].fd])
    BY <1>1, <1>3, CallOwn, CallFrame DEF Own
  <1> QED
    BY <1>2, <1>3

\* The table after socket() and after bind(), at the descriptor in question.
LEMMA NewSocket ==
  ASSUME TypeOK, OwnerInv, NEW s \in Socks, NEW f \in NextFds, NEW v \in BOOLEAN
  PROVE  /\ f \in Fds /\ f # 0
         /\ WithSocket(s, f, v) \in [Fds -> DescType]
         /\ WithSocket(s, f, v)[f] = Descriptor(s, NoAddr, v)
         /\ WithSocket(s, f, v)[f].nonblock = FALSE
         /\ WithSocket(s, f, v)[f].v6only = v
  <1>1. /\ f \in Fds /\ f # 0
        /\ WithSocket(s, f, v) \in [Fds -> DescType]
        /\ WithSocket(s, f, v)[f] = Descriptor(s, NoAddr, v)
    BY NextFdsFree, WithSocketType DEF WithSocket, TypeOK
  <1>2. Descriptor(s, NoAddr, v).nonblock = FALSE /\ Descriptor(s, NoAddr, v).v6only = v
    BY DEF Descriptor
  <1> QED
    BY <1>1, <1>2

LEMMA BoundIn ==
  ASSUME NEW d \in [Fds -> DescType], NEW f \in Fds, NEW e, BindsIn(d, f, e)
  PROVE  \E a \in BindAddrs(d, f, e) :
           /\ desc' = [d EXCEPT ![f].addr = a]
           /\ desc'[f].addr = a /\ desc'[f].nonblock = d[f].nonblock
           /\ desc'[f].v6only = d[f].v6only
  <1>1. PICK a \in BindAddrs(d, f, e) : desc' = [d EXCEPT ![f].addr = a]
    BY DEF BindsIn
  <1>2. desc'[f] = [d[f] EXCEPT !.addr = a]
    BY <1>1
  <1>3. d[f] \in DescType
    OBVIOUS
  <1> QED
    BY <1>1, <1>2, <1>3 DEF DescType

-----------------------------------------------------------------------------
(* The flag.                                                               *)

\* Inductive: a struct without a socket has no mode, so that a new socket,
\* which is blocking, meets no flag.
Tracks(k, d) == "NONBLOCKING" \in k.flags <=> k.fd # 0 /\ d[k.fd].nonblock

ModeInv == \A s \in Socks : Tracks(sock[s], desc)

LEMMA OutcomeTracks ==
  ASSUME TypeOK, OwnerInv, NEW s \in Socks, NEW k \in SockType, NEW j,
         Outcome(s, k, j), Tracks(k, desc)
  PROVE  Tracks(j, desc')
  <1>0. desc \in [Fds -> DescType] /\ k.fd \in Fds
    BY DEF TypeOK, SockType
  <1>1. CASE Stays(k, j)
    BY <1>0, <1>1 DEF Stays, Tracks
  <1>2. CASE Creates(s, k, j)
    <2>1. PICK v \in BOOLEAN : desc' = WithSocket(s, j.fd, v)
      BY <1>2 DEF Creates
    <2>2. ~desc'[j.fd].nonblock
      BY <1>2, <2>1, NewSocket DEF Creates
    <2> QED
      BY <1>0, <1>2, <2>2 DEF Creates, SameMode, Tracks
  <1>3. CASE Opens(s, k, j)
    <2> DEFINE d == WithSocket(s, j.fd, FALSE)
    <2>1. d \in [Fds -> DescType] /\ j.fd \in Fds /\ ~d[j.fd].nonblock
      BY <1>3, NewSocket DEF Opens
    <2>2. BindsIn(d, j.fd, k.endpoint)
      BY <1>3 DEF Opens
    <2> HIDE DEF d
    <2>3. ~desc'[j.fd].nonblock
      BY <2>1, <2>2, BoundIn
    <2> QED
      BY <1>0, <1>3, <2>3 DEF Opens, SameMode, Tracks
  <1>4. CASE Binds(k, j)
    <2>1. desc'[k.fd].nonblock = desc[k.fd].nonblock
      BY <1>0, <1>4, BoundIn DEF Binds
    <2> QED
      BY <1>0, <1>4, <2>1 DEF Binds, Tracks
  <1>5. CASE Closes(k, j)
    BY <1>5 DEF Closes, Tracks
  <1>6. CASE Switches(k, j)
    <2>1. PICK enabled \in BOOLEAN :
               /\ "NONBLOCKING" \in j.flags <=> enabled
               /\ desc' = [desc EXCEPT ![k.fd].nonblock = enabled]
      BY <1>6 DEF Switches
    <2>2. desc'[k.fd] = [desc[k.fd] EXCEPT !.nonblock = enabled] /\ desc[k.fd] \in DescType
      BY <1>0, <2>1
    <2>3. desc'[k.fd].nonblock = enabled
      BY <2>2 DEF DescType
    <2> QED
      BY <1>6, <2>1, <2>3 DEF Switches, Tracks
  <1> QED
    BY <1>0, <1>1, <1>2, <1>3, <1>4, <1>5, <1>6 DEF Outcome

LEMMA NextMode ==
  ASSUME TidyCaller, TypeOK, OwnerInv, ModeInv, [Next]_vars
  PROVE  ModeInv'
  <1> SUFFICES ASSUME NEW t \in Socks PROVE Tracks(sock'[t], desc')
    BY DEF ModeInv, Tracks
  <1>1. CASE SockCall(t)
    BY <1>1, CallOutcome, OutcomeTracks DEF ModeInv, TypeOK
  <1>2. CASE HostCall \/ \E s \in Socks \ {t} : SockCall(s)
    BY <1>2, HeldFrame DEF ModeInv, Tracks, TidyCaller
  <1>3. CASE UNCHANGED vars
    BY <1>3 DEF vars, ModeInv, Tracks
  <1> QED
    BY <1>1, <1>2, <1>3 DEF Next

LEMMA InitMode == Init => ModeInv
  <1> SUFFICES ASSUME Init, NEW s \in Socks PROVE Tracks(sock[s], desc)
    BY DEF ModeInv
  <1>1. PICK e \in Endpoints : sock[s] = NewUDP(e)
    BY DEF Init
  <1> QED
    BY <1>1 DEF NewUDP, Tracks

\* The NONBLOCKING flag of an open struct is the mode of its socket, through
\* every failure and reuse of structs and descriptors.
THEOREM FlagsSafe == TidyCaller /\ Spec => []FlagsTrackKernel
  <1> DEFINE I == TypeOK /\ OwnerInv /\ ModeInv
  <1>1. TidyCaller /\ Init => I
    BY InitType, InitOwner, InitMode DEF TidyCaller, IsolatedCaller
  <1>2. TidyCaller /\ I /\ [Next]_vars => I'
    BY NextType, NextOwner, NextMode DEF TidyCaller, IsolatedCaller
  <1>3. I => FlagsTrackKernel
    BY DEF ModeInv, Tracks, OwnerInv, Attached, Opened, FlagsTrackKernel
  <1>4. TidyCaller => []TidyCaller
    OBVIOUS
  <1> QED
    BY <1>1, <1>2, <1>3, <1>4, PTL DEF Spec

-----------------------------------------------------------------------------
(* The failure that names no error.                                        *)

LEMMA CallSilent ==
  ASSUME TidyCaller, TypeOK, OwnerInv, SilentFailureNeedsClose, NEW s \in Socks, SockCall(s)
  PROVE  SilentFailureNeedsClose'
  <1> DEFINE Silent == last'.rv = "SL_ERR" /\ sock'[s].error = "none"
  <1> DEFINE Closable == sock'[s].fd # 0 /\ sock'[s].state \notin {"CREATED", "BOUND"}
  <1>0. sock[s] \in SockType
    BY DEF TypeOK
  <1>1. ASSUME NEW e, AssertFails(e) PROVE SilentFailureNeedsClose'
    BY <1>1 DEF AssertFails, SilentFailureNeedsClose, Opened
  <1>2. ASSUME last'.who = s, Silent => Closable PROVE SilentFailureNeedsClose'
    BY <1>2 DEF SilentFailureNeedsClose, Opened
  <1>3. ASSUME NEW k \in SockType, NEW d, Fails(s, k, d) \/ Ok(s, k, d)
        PROVE  SilentFailureNeedsClose'
    <2>1. CASE Fails(s, k, d)
      <3>1. sock'[s] = [k EXCEPT !.error = "errno"] /\ last'.who = s
        BY <2>1 DEF Fails, Return, TypeOK
      <3>2. sock'[s].error = "errno"
        BY <3>1 DEF SockType
      <3> QED
        BY <1>2, <3>1, <3>2
    <2>2. CASE Ok(s, k, d)
      BY <1>2, <2>2 DEF Ok, Return
    <2> QED
      BY <1>3, <2>1, <2>2
  <1>4. ASSUME NEW k \in SockType, NEW d, BindFrom(s, k, d) PROVE SilentFailureNeedsClose'
    <2>1. [k EXCEPT !.state = "BOUND"] \in SockType
      BY DEF SockType, States
    <2> QED
      BY <1>3, <1>4, <2>1 DEF BindFrom
  <1>5. ASSUME MayCreate(s), CreateFails(s) PROVE SilentFailureNeedsClose'
    <2>1. CASE Fails(s, sock[s], desc)
      BY <1>0, <1>3, <2>1
    <2>2. CASE \E f \in NextFds, v \in BOOLEAN :
                 Return(s, [sock[s] EXCEPT !.fd = f], WithSocket(s, f, v), "SL_ERR")
      <3>1. PICK f \in NextFds, v \in BOOLEAN :
                 Return(s, [sock[s] EXCEPT !.fd = f], WithSocket(s, f, v), "SL_ERR")
        BY <2>2
      <3>2. sock'[s] = [sock[s] EXCEPT !.fd = f] /\ last'.who = s
        BY <3>1 DEF Return, TypeOK
      <3>3. sock'[s].fd # 0 /\ sock'[s].state = sock[s].state
        BY <1>0, <3>2, NextFdsFree DEF SockType
      <3> QED
        BY <1>2, <1>5, <3>2, <3>3 DEF MayCreate, TidyCaller
    <2> QED
      BY <1>5, <2>1, <2>2 DEF CreateFails
  <1>6. \A f \in NextFds : Created(s, f) \in SockType
    BY NextFdsFree, CreatedType
  <1>7. CASE sl_sock_create(s)
    BY <1>1, <1>3, <1>5, <1>6, <1>7 DEF sl_sock_create
  <1>8. CASE sl_sock_bind(s)
    BY <1>0, <1>1, <1>4, <1>8 DEF sl_sock_bind
  <1>9. CASE socklynx_socket_open(s)
    BY <1>1, <1>4, <1>5, <1>6, <1>9 DEF socklynx_socket_open
  <1>10. CASE socklynx_socket_close(s)
    <2>1. Closed(sock[s]) \in SockType
      BY <1>0, FdsFact DEF Closed, SockType, States
    <2> QED
      BY <1>0, <1>3, <1>10, <2>1 DEF socklynx_socket_close
  <1>11. ASSUME NEW enabled \in BOOLEAN, socklynx_socket_nonblocking(s, enabled)
         PROVE  SilentFailureNeedsClose'
    <2>1. [sock[s] EXCEPT !.flags = Switched(s, enabled)] \in SockType
      BY <1>0 DEF SockType, Switched, Flags
    <2> QED
      BY <1>0, <1>3, <1>11, <2>1 DEF socklynx_socket_nonblocking
  <1> QED
    BY <1>7, <1>8, <1>9, <1>10, <1>11 DEF SockCall

\* A caller that gets SL_ERR and finds no error in its struct has a socket to
\* close before it tries again: there is no other silent failure.
THEOREM SilentFailureSafe == TidyCaller /\ Spec => []SilentFailureNeedsClose
  <1> DEFINE I == TypeOK /\ OwnerInv /\ SilentFailureNeedsClose
  <1>1. TidyCaller /\ Init => I
    <2>1. Init => SilentFailureNeedsClose
      BY DEF Init, SilentFailureNeedsClose
    <2> QED
      BY <2>1, InitType, InitOwner DEF TidyCaller, IsolatedCaller
  <1>2. TidyCaller /\ I /\ [Next]_vars => I'
    <2> SUFFICES ASSUME TidyCaller, I, [Next]_vars PROVE SilentFailureNeedsClose'
      BY NextType, NextOwner DEF TidyCaller, IsolatedCaller
    <2>1. CASE HostCall
      BY <2>1, HostOwn DEF SilentFailureNeedsClose, TidyCaller
    <2>2. CASE UNCHANGED vars
      BY <2>2 DEF vars, SilentFailureNeedsClose, Opened
    <2> QED
      BY <2>1, <2>2, CallSilent DEF Next
  <1>3. TidyCaller => []TidyCaller
    OBVIOUS
  <1> QED
    BY <1>1, <1>2, <1>3, PTL DEF Spec

-----------------------------------------------------------------------------
(* SlSock implements SocketLife.                                           *)

LifeCaller == TidyCaller /\ "nonblocking" \in Rules

\* What Life makes of a struct without a socket, with a half made one, and
\* with an open one.
LEMMA LifeValues ==
  ASSUME NEW k, NEW d
  PROVE  /\ Stage(k) = "none" <=> k.state \notin {"CREATED", "BOUND"} /\ k.fd = 0
         /\ k.state \in {"CREATED", "BOUND"} => Stage(k) = k.state
         /\ Stage(k) = "none" => Life(k, d) = LIFE!Nothing
         /\ Stage(k) # "none" =>
              Life(k, d) = [stage |-> Stage(k), addr |-> d[k.fd].addr, nonblock |-> d[k.fd].nonblock]
         /\ Life(k, d).stage = Stage(k)
         /\ k.state \notin {"CREATED", "BOUND"} => Stage(k) \in {"none", "half"}
  <1>1. /\ Stage(k) = "none" <=> k.state \notin {"CREATED", "BOUND"} /\ k.fd = 0
        /\ k.state \in {"CREATED", "BOUND"} => Stage(k) = k.state
        /\ k.state \notin {"CREATED", "BOUND"} => Stage(k) \in {"none", "half"}
    BY DEF Stage
  <1>2. Stage(k) = "none" => Life(k, d) = LIFE!Nothing
    BY DEF Life, LIFE!Nothing, LIFE!Fresh, LIFE!NoAddr, NoAddr
  <1>3. Life(k, d).stage = Stage(k)
    BY DEF Life
  <1> QED
    BY <1>1, <1>2, <1>3 DEF Life

\* Of the struct only its fd and state tell.
LEMMA LifeSame ==
  ASSUME NEW k, NEW j, NEW d, NEW e, j.fd = k.fd, j.state = k.state,
         k.state \in {"CREATED", "BOUND"} \/ k.fd # 0 => e[k.fd] = d[k.fd]
  PROVE  Life(j, e) = Life(k, d)
  <1>1. Stage(j) = Stage(k)
    BY DEF Stage
  <1>2. Stage(k) # "none" => e[j.fd] = d[k.fd]
    BY LifeValues
  <1> QED
    BY <1>1, <1>2 DEF Life

\* An address bind() gives is one SocketLife has available: the kernel lets no
\* two sockets clash, and none of the structs' is IPv6-only.
LEMMA BoundAvailable ==
  ASSUME TypeOK, OwnerInv, AgreeInv, NEW s \in Socks,
         NEW d \in [Fds -> DescType], NEW f \in Fds, ~d[f].v6only,
         \A t \in Socks : sock[t].state = "BOUND" => d[sock[t].fd] = desc[sock[t].fd],
         NEW a \in BindAddrs(d, f, sock[s].endpoint)
  PROVE  a \in LIFE!Available(s)
  <1>1. /\ a \in LIFE!Endpoints /\ a.af \in {"v4", "v6"}
        /\ a.af = sock[s].endpoint.af /\ a.port # 0
        /\ sock[s].endpoint.port # 0 => a = sock[s].endpoint
    BY DEF BindAddrs, Endpoints, NoAddr, LIFE!Endpoints, LIFE!NoAddr
  <1>2. ASSUME NEW t \in Socks, Life(sock[t], desc).stage = "BOUND"
        PROVE  ~LIFE!Shared(Life(sock[t], desc).addr, a)
    <2> DEFINE p == desc[sock[t].fd]
    <2>1. sock[t].state = "BOUND" /\ Life(sock[t], desc).addr = p.addr
      BY <1>2, LifeValues
    <2>2. sock[t].fd \in Fds /\ d[sock[t].fd] = p /\ p.addr \in Endpoints
      BY <2>1 DEF TypeOK, SockType, DescType
    <2>3. ~p.v6only /\ p.addr.port # 0
      BY <2>1 DEF AgreeInv, Agrees
    <2>4. p.addr # NoAddr /\ p.addr.af \in {"v4", "v6"}
      BY <2>2, <2>3 DEF Endpoints, NoAddr
    <2>5. ~Clash(d[sock[t].fd], d[f], a)
      BY <2>2 DEF BindAddrs
    <2> HIDE DEF p
    <2>6. ~LIFE!Shared(p.addr, a)
      BY <1>1, <2>2, <2>3, <2>4, <2>5 DEF Clash, LIFE!Shared
    <2> QED
      BY <2>1, <2>6
  <1> QED
    BY <1>1, <1>2 DEF LIFE!Available

\* What a call does to the life of its struct is an action of SocketLife, or
\* nothing.
LifeStep(s, l, m) ==
  \/ m = l
  \/ l.stage = "none" /\ \E stage \in {"half", "CREATED"} : m = LIFE!Fresh(stage, NoAddr)
  \/ l.stage = "none" /\ \E a \in LIFE!Available(s) : m = LIFE!Fresh("BOUND", a)
  \/ /\ l.stage = "CREATED"
     /\ \E a \in LIFE!Available(s) : m = [stage |-> "BOUND", addr |-> a, nonblock |-> l.nonblock]
  \/ l.stage # "none" /\ m = LIFE!Nothing
  \/ /\ l.stage \in {"CREATED", "BOUND"}
     /\ \E enabled \in BOOLEAN : m = [l EXCEPT !.nonblock = enabled]

\* The tables of a new socket, for BoundAvailable.
LEMMA NewSocketElsewhere ==
  ASSUME TypeOK, OwnerInv, NEW s \in Socks, NEW f \in NextFds
  PROVE  /\ ~WithSocket(s, f, FALSE)[f].v6only
         /\ \A t \in Socks : sock[t].state = "BOUND" =>
              WithSocket(s, f, FALSE)[sock[t].fd] = desc[sock[t].fd]
  <1>1. ~WithSocket(s, f, FALSE)[f].v6only
    BY NewSocket
  <1>2. ASSUME NEW t \in Socks, sock[t].state = "BOUND"
        PROVE  WithSocket(s, f, FALSE)[sock[t].fd] = desc[sock[t].fd]
    <2>1. sock[t].fd \in Fds /\ desc[sock[t].fd].owner = t
      BY <1>2 DEF OwnerInv, Attached, TypeOK, SockType
    <2>2. f # sock[t].fd
      BY <2>1, NextFdsFree
    <2> QED
      BY <2>1, <2>2 DEF WithSocket, TypeOK
  <1> QED
    BY <1>1, <1>2

LEMMA OutcomeLife ==
  ASSUME LifeCaller, TypeOK, OwnerInv, AgreeInv, NEW s \in Socks,
         NEW k \in SockType, k = sock[s], NEW j, Outcome(s, k, j)
  PROVE  LifeStep(s, Life(k, desc), Life(j, desc'))
  <1>0. /\ desc \in [Fds -> DescType] /\ k.fd \in Fds /\ k.endpoint = sock[s].endpoint
        /\ k.state \in {"CREATED", "BOUND"} => k.fd # 0
        /\ Life(k, desc).stage = Stage(k)
    BY LifeValues DEF TypeOK, SockType, OwnerInv, Attached
  <1>1. CASE Stays(k, j)
    <2>1. j.fd = k.fd /\ j.state = k.state /\ desc' = desc
      BY <1>1 DEF Stays
    <2>2. Life(j, desc) = Life(k, desc)
      BY <2>1, LifeSame
    <2> QED
      BY <2>1, <2>2 DEF LifeStep
  <1>2. CASE Creates(s, k, j)
    <2>1. PICK v \in BOOLEAN : desc' = WithSocket(s, j.fd, v)
      BY <1>2 DEF Creates
    <2>2. j.fd \in NextFds
      BY <1>2 DEF Creates
    <2>3. j.fd # 0 /\ desc'[j.fd] = Descriptor(s, NoAddr, v)
      BY <2>1, <2>2, NewSocket
    <2>4. Stage(k) = "none" /\ Stage(j) \in {"half", "CREATED"}
      BY <1>2, <2>3, LifeValues DEF Creates
    <2>5. Life(j, desc') = LIFE!Fresh(Stage(j), NoAddr)
      BY <2>3, <2>4, LifeValues DEF LIFE!Fresh, Descriptor
    <2> QED
      BY <1>0, <2>4, <2>5 DEF LifeStep
  <1>3. CASE Opens(s, k, j)
    <2> DEFINE d == WithSocket(s, j.fd, FALSE)
    <2>1. /\ d \in [Fds -> DescType] /\ j.fd \in Fds
          /\ d[j.fd].nonblock = FALSE /\ ~d[j.fd].v6only
          /\ \A t \in Socks : sock[t].state = "BOUND" => d[sock[t].fd] = desc[sock[t].fd]
      BY <1>3, NewSocket, NewSocketElsewhere DEF Opens
    <2>2. BindsIn(d, j.fd, k.endpoint)
      BY <1>3 DEF Opens
    <2> HIDE DEF d
    <2>3. PICK a \in BindAddrs(d, j.fd, k.endpoint) :
               desc'[j.fd].addr = a /\ desc'[j.fd].nonblock = d[j.fd].nonblock
      BY <2>1, <2>2, BoundIn
    <2>4. a \in LIFE!Available(s)
      BY <1>0, <2>1, <2>3, BoundAvailable
    <2>5. Stage(k) = "none" /\ Stage(j) = "BOUND"
      BY <1>3, LifeValues DEF Opens
    <2>6. Life(j, desc') = LIFE!Fresh("BOUND", a)
      BY <2>1, <2>3, <2>5, LifeValues DEF LIFE!Fresh
    <2> QED
      BY <1>0, <2>4, <2>5, <2>6 DEF LifeStep
  <1>4. CASE Binds(k, j)
    <2>1. Stage(k) = "CREATED" /\ Stage(j) = "BOUND" /\ j.fd = k.fd
      BY <1>4, LifeValues DEF Binds
    <2>2. PICK a \in BindAddrs(desc, k.fd, k.endpoint) :
               desc'[k.fd].addr = a /\ desc'[k.fd].nonblock = desc[k.fd].nonblock
      BY <1>0, <1>4, BoundIn DEF Binds
    <2>3. ~desc[k.fd].v6only
      BY <1>4 DEF AgreeInv, Agrees, Binds
    <2>4. a \in LIFE!Available(s)
      BY <1>0, <2>2, <2>3, BoundAvailable
    <2>5. Life(k, desc).nonblock = desc[k.fd].nonblock
      BY <2>1, LifeValues
    <2>6. Life(j, desc') = [stage |-> "BOUND", addr |-> a, nonblock |-> Life(k, desc).nonblock]
      BY <2>1, <2>2, <2>5, LifeValues
    <2> QED
      BY <1>0, <2>1, <2>4, <2>6 DEF LifeStep
  <1>5. CASE Closes(k, j)
    <2>1. Stage(k) # "none" /\ Stage(j) = "none"
      BY <1>5, LifeValues DEF Closes
    <2>2. Life(j, desc') = LIFE!Nothing
      BY <2>1, LifeValues
    <2> QED
      BY <1>0, <2>1, <2>2 DEF LifeStep
  <1>6. CASE Switches(k, j)
    <2>1. PICK enabled \in BOOLEAN : desc' = [desc EXCEPT ![k.fd].nonblock = enabled]
      BY <1>6 DEF Switches
    <2>2. desc'[k.fd].addr = desc[k.fd].addr /\ desc'[k.fd].nonblock = enabled
      BY <1>0, <2>1 DEF DescType
    <2>3. Stage(k) \in {"CREATED", "BOUND"} /\ Stage(j) = Stage(k) /\ j.fd = k.fd
      BY <1>6, LifeValues DEF LifeCaller, Switches
    <2>4. Life(j, desc') = [Life(k, desc) EXCEPT !.nonblock = enabled]
      BY <2>2, <2>3, LifeValues
    <2> QED
      BY <1>0, <2>3, <2>4 DEF LifeStep
  <1> QED
    BY <1>1, <1>2, <1>3, <1>4, <1>5, <1>6 DEF Outcome

\* The life of a struct does not change by calls on others.
LEMMA LifeFrame ==
  ASSUME IsolatedCaller, TypeOK, OwnerInv, NEW t \in Socks,
         HostCall \/ \E s \in Socks \ {t} : SockCall(s)
  PROVE  sock'[t] = sock[t] /\ Life(sock'[t], desc') = Life(sock[t], desc)
  <1>1. sock'[t] = sock[t] /\ (sock[t].fd # 0 => desc'[sock[t].fd] = desc[sock[t].fd])
    BY HeldFrame
  <1>2. sock[t].state \in {"CREATED", "BOUND"} => sock[t].fd # 0
    BY DEF OwnerInv, Attached
  <1> QED
    BY <1>1, <1>2, LifeSame

\* The step of SocketLife that a call on s takes.
LEMMA CallLife ==
  ASSUME LifeCaller, TypeOK, OwnerInv, AgreeInv, NEW s \in Socks, SockCall(s)
  PROVE  LIFE!Next \/ UNCHANGED LIFE!vars
  <1> DEFINE l == Life(sock[s], desc)
  <1> DEFINE m == Life(sock'[s], desc')
  <1>1. LifeStep(s, l, m) /\ sock'[s].endpoint = sock[s].endpoint
    BY CallOutcome, OutcomeLife DEF Outcome, LifeCaller, TypeOK
  <1>2. \A t \in Socks \ {s} : sock'[t] = sock[t] /\ Life(sock'[t], desc') = Life(sock[t], desc)
    BY LifeFrame DEF LifeCaller, TidyCaller
  <1>3. LIFE!Becomes(s, m)
    BY <1>1, <1>2 DEF LIFE!Becomes
  <1>4. m = l => UNCHANGED LIFE!vars
    BY <1>1, <1>2 DEF LIFE!vars
  <1>5. [t \in Socks |-> Life(sock[t], desc)][s] = l
    OBVIOUS
  <1>6. NoAddr = LIFE!NoAddr
    BY DEF NoAddr, LIFE!NoAddr
  <1> HIDE DEF l, m
  <1>7. CASE l.stage = "none" /\ \E stage \in {"half", "CREATED"} : m = LIFE!Fresh(stage, NoAddr)
    BY <1>3, <1>5, <1>6, <1>7 DEF LIFE!Next, LIFE!Create
  <1>8. CASE l.stage = "none" /\ \E a \in LIFE!Available(s) : m = LIFE!Fresh("BOUND", a)
    BY <1>3, <1>5, <1>8 DEF LIFE!Next, LIFE!Open
  <1>9. CASE /\ l.stage = "CREATED"
             /\ \E a \in LIFE!Available(s) :
                  m = [stage |-> "BOUND", addr |-> a, nonblock |-> l.nonblock]
    BY <1>3, <1>5, <1>9 DEF LIFE!Next, LIFE!Bind
  <1>10. CASE l.stage # "none" /\ m = LIFE!Nothing
    BY <1>3, <1>5, <1>10 DEF LIFE!Next, LIFE!Close
  <1>11. CASE /\ l.stage \in {"CREATED", "BOUND"}
              /\ \E enabled \in BOOLEAN : m = [l EXCEPT !.nonblock = enabled]
    <2>1. PICK enabled \in BOOLEAN : m = [l EXCEPT !.nonblock = enabled]
      BY <1>11
    <2>2. LIFE!Becomes(s, [l EXCEPT !.nonblock = enabled])
      BY <1>3, <2>1
    <2>3. LIFE!Switch(s)
      BY <1>5, <1>11, <2>2 DEF LIFE!Switch
    <2> QED
      BY <2>3 DEF LIFE!Next
  <1> QED
    BY <1>1, <1>4, <1>7, <1>8, <1>9, <1>10, <1>11 DEF LifeStep

LEMMA NextLife ==
  ASSUME LifeCaller, TypeOK, OwnerInv, AgreeInv, [Next]_vars
  PROVE  LIFE!Next \/ UNCHANGED LIFE!vars
  <1>1. CASE HostCall
    <2>1. \A t \in Socks : sock'[t] = sock[t] /\ Life(sock'[t], desc') = Life(sock[t], desc)
      BY <1>1, LifeFrame DEF LifeCaller, TidyCaller
    <2> QED
      BY <2>1 DEF LIFE!vars
  <1>2. CASE UNCHANGED vars
    <2>1. sock' = sock /\ desc' = desc
      BY <1>2 DEF vars
    <2> QED
      BY <2>1 DEF LIFE!vars
  <1> QED
    BY <1>1, <1>2, CallLife DEF Next

LEMMA InitLife == Init => LIFE!Init
  <1> SUFFICES ASSUME Init PROVE LIFE!Init
    OBVIOUS
  <1>1. ASSUME NEW s \in Socks
        PROVE  sock[s].endpoint \in LIFE!Endpoints /\ Life(sock[s], desc) = LIFE!Nothing
    <2>1. PICK e \in Endpoints : sock[s] = NewUDP(e)
      BY DEF Init
    <2>2. sock[s].fd = 0 /\ sock[s].state = "NEW" /\ sock[s].endpoint = e
      BY <2>1 DEF NewUDP
    <2>3. Life(sock[s], desc) = LIFE!Nothing
      BY <2>2, LifeValues
    <2> QED
      BY <2>2, <2>3 DEF Endpoints, NoAddr, LIFE!Endpoints, LIFE!NoAddr
  <1> QED
    BY <1>1 DEF LIFE!Init

\* For a caller that keeps the usage rules, SlSock implements SocketLife: a
\* struct, the descriptor in it and whoever else uses descriptors behave as
\* one socket that nobody else touches.
THEOREM LifeImplemented == LifeCaller /\ Spec => ImplementsSocketLife
  <1> DEFINE I == TypeOK /\ OwnerInv /\ AgreeInv
  <1>1. LifeCaller /\ Init => I /\ LIFE!Init
    BY InitType, InitOwner, InitAgrees, InitLife DEF LifeCaller, TidyCaller, IsolatedCaller
  <1>2. LifeCaller /\ I /\ [Next]_vars => I'
    BY NextType, NextOwner, NextAgrees
    DEF LifeCaller, TidyCaller, IsolatedCaller, CheckedCaller
  <1>3. LifeCaller /\ I /\ [Next]_vars => [LIFE!Next]_(LIFE!vars)
    BY NextLife
  <1>4. LifeCaller => []LifeCaller
    OBVIOUS
  <1> QED
    BY <1>1, <1>2, <1>3, <1>4, PTL DEF Spec, ImplementsSocketLife, LIFE!Spec

-----------------------------------------------------------------------------
(* What SocketLife's own steps keep, whoever implements them.              *)

\* What a step leaves in the struct it was called on, and in every other one.
LEMMA BecomesElsewhere ==
  ASSUME LIFE!TypeOK, NEW s \in Socks, NEW l \in LIFE!LifeType, LIFE!Becomes(s, l)
  PROVE  \A t \in Socks :
           /\ sock'[t].endpoint = sock[t].endpoint
           /\ Life(sock'[t], desc') = IF t = s THEN l ELSE Life(sock[t], desc)
  BY DEF LIFE!Becomes

LEMMA FreshType ==
  ASSUME NEW stage \in LIFE!Stages, NEW a \in LIFE!Endpoints
  PROVE  LIFE!Fresh(stage, a) \in LIFE!LifeType /\ LIFE!Nothing \in LIFE!LifeType
  BY DEF LIFE!Fresh, LIFE!Nothing, LIFE!LifeType, LIFE!Stages, LIFE!Endpoints

\* A step that leaves a socket that is not bound takes no port.
LEMMA Unbound ==
  ASSUME LIFE!TypeOK, LIFE!Exclusive, NEW s \in Socks, NEW l \in LIFE!LifeType,
         LIFE!Becomes(s, l),
         l.stage = "BOUND" =>
           l.addr = Life(sock[s], desc).addr /\ Life(sock[s], desc).stage = "BOUND"
  PROVE  LIFE!TypeOK' /\ LIFE!Exclusive'
  BY BecomesElsewhere DEF LIFE!TypeOK, LIFE!Exclusive

\* A step that binds takes an address no bound socket shares.
LEMMA BindsPort ==
  ASSUME LIFE!TypeOK, LIFE!Exclusive, NEW s \in Socks, NEW a \in LIFE!Available(s),
         NEW l \in LIFE!LifeType,
         l.addr = a, Life(sock[s], desc).stage # "BOUND", LIFE!Becomes(s, l)
  PROVE  LIFE!TypeOK' /\ LIFE!Exclusive'
  <1>1. /\ a.af = sock[s].endpoint.af
        /\ \A t \in Socks :
             Life(sock[t], desc).stage = "BOUND" => ~LIFE!Shared(Life(sock[t], desc).addr, a)
    BY DEF LIFE!Available
  <1>2. LIFE!TypeOK'
    BY <1>1, BecomesElsewhere DEF LIFE!TypeOK
  <1>3. ASSUME NEW t \in Socks \ {s}, Life(sock[t], desc).stage = "BOUND"
        PROVE  /\ ~LIFE!Shared(Life(sock[t], desc).addr, a)
               /\ ~LIFE!Shared(a, Life(sock[t], desc).addr)
    BY <1>1, <1>3 DEF LIFE!Shared
  <1>4. LIFE!Exclusive'
    BY <1>3, BecomesElsewhere DEF LIFE!Exclusive, LIFE!Shared
  <1> QED
    BY <1>2, <1>4

LEMMA NextExclusive ==
  ASSUME LIFE!TypeOK, LIFE!Exclusive, [LIFE!Next]_(LIFE!vars)
  PROVE  LIFE!TypeOK' /\ LIFE!Exclusive'
  <1>0. /\ LIFE!NoAddr \in LIFE!Endpoints
        /\ LIFE!Nothing \in LIFE!LifeType /\ LIFE!Nothing.stage = "none"
    BY FreshType DEF LIFE!Endpoints, LIFE!Nothing, LIFE!Fresh, LIFE!Stages
  <1>1. ASSUME NEW s \in Socks, LIFE!Create(s) PROVE LIFE!TypeOK' /\ LIFE!Exclusive'
    <2>1. PICK stage \in {"half", "CREATED"} : LIFE!Becomes(s, LIFE!Fresh(stage, LIFE!NoAddr))
      BY <1>1 DEF LIFE!Create
    <2>2. /\ LIFE!Fresh(stage, LIFE!NoAddr) \in LIFE!LifeType
          /\ LIFE!Fresh(stage, LIFE!NoAddr).stage # "BOUND"
      BY <1>0, FreshType DEF LIFE!Fresh, LIFE!Stages
    <2> QED
      BY <2>1, <2>2, Unbound
  <1>2. ASSUME NEW s \in Socks, LIFE!Bind(s) PROVE LIFE!TypeOK' /\ LIFE!Exclusive'
    <2>1. PICK a \in LIFE!Available(s) :
               LIFE!Becomes(s, [stage |-> "BOUND", addr |-> a,
                                nonblock |-> Life(sock[s], desc).nonblock])
      BY <1>2 DEF LIFE!Bind
    <2> DEFINE l == [stage |-> "BOUND", addr |-> a, nonblock |-> Life(sock[s], desc).nonblock]
    <2>2. l \in LIFE!LifeType /\ l.addr = a
      BY DEF LIFE!TypeOK, LIFE!LifeType, LIFE!Stages, LIFE!Available
    <2> HIDE DEF l
    <2> QED
      BY <1>2, <2>1, <2>2, BindsPort DEF LIFE!Bind, l
  <1>3. ASSUME NEW s \in Socks, LIFE!Open(s) PROVE LIFE!TypeOK' /\ LIFE!Exclusive'
    <2>1. PICK a \in LIFE!Available(s) : LIFE!Becomes(s, LIFE!Fresh("BOUND", a))
      BY <1>3 DEF LIFE!Open
    <2>2. LIFE!Fresh("BOUND", a) \in LIFE!LifeType /\ LIFE!Fresh("BOUND", a).addr = a
      BY FreshType DEF LIFE!Fresh, LIFE!Stages, LIFE!Available
    <2> QED
      BY <1>3, <2>1, <2>2, BindsPort DEF LIFE!Open
  <1>4. ASSUME NEW s \in Socks, LIFE!Switch(s) PROVE LIFE!TypeOK' /\ LIFE!Exclusive'
    <2>1. PICK enabled \in BOOLEAN :
               LIFE!Becomes(s, [Life(sock[s], desc) EXCEPT !.nonblock = enabled])
      BY <1>4 DEF LIFE!Switch
    <2> DEFINE l == [Life(sock[s], desc) EXCEPT !.nonblock = enabled]
    <2>2. /\ l \in LIFE!LifeType
          /\ l.stage = Life(sock[s], desc).stage /\ l.addr = Life(sock[s], desc).addr
      BY DEF LIFE!TypeOK, LIFE!LifeType
    <2> HIDE DEF l
    <2> QED
      BY <2>1, <2>2, Unbound DEF l
  <1>5. ASSUME NEW s \in Socks, LIFE!Close(s) PROVE LIFE!TypeOK' /\ LIFE!Exclusive'
    BY <1>0, <1>5, Unbound DEF LIFE!Close
  <1>6. CASE UNCHANGED LIFE!vars
    BY <1>6 DEF LIFE!vars, LIFE!TypeOK, LIFE!Exclusive
  <1> QED
    BY <1>1, <1>2, <1>3, <1>4, <1>5, <1>6 DEF LIFE!Next

\* Every step of SocketLife that binds is guarded by Available, so that no two
\* bound sockets share a port; what implements it inherits that.
LEMMA ExclusiveSafe == LIFE!Spec => [](LIFE!TypeOK /\ LIFE!Exclusive)
  <1>1. LIFE!Init => LIFE!TypeOK /\ LIFE!Exclusive
    <2> SUFFICES ASSUME LIFE!Init PROVE LIFE!TypeOK /\ LIFE!Exclusive
      OBVIOUS
    <2>1. LIFE!Nothing \in LIFE!LifeType /\ LIFE!Nothing.stage = "none"
      BY FreshType DEF LIFE!Endpoints, LIFE!Nothing, LIFE!Fresh, LIFE!Stages
    <2> QED
      BY <2>1 DEF LIFE!Init, LIFE!TypeOK, LIFE!Exclusive
  <1>2. LIFE!TypeOK /\ LIFE!Exclusive /\ [LIFE!Next]_(LIFE!vars)
        => LIFE!TypeOK' /\ LIFE!Exclusive'
    BY NextExclusive
  <1> QED
    BY <1>1, <1>2, PTL DEF LIFE!Spec

-----------------------------------------------------------------------------
(* What SlSock inherits: SocketLife's theorem of exclusive ports.          *)

\* Two bound structs never share a port, as SocketLife says and the order of
\* their calls, failures and reuses of descriptors cannot change.
THEOREM PortSafe == LifeCaller /\ Spec => []PortExclusive
  <1> DEFINE I == TypeOK /\ OwnerInv /\ AgreeInv
  <1>1. TypeOK /\ AgreeInv /\ LIFE!Exclusive => PortExclusive
    <2> SUFFICES ASSUME TypeOK, AgreeInv, LIFE!Exclusive, NEW s \in Socks, NEW t \in Socks,
                        s # t, sock[s].state = "BOUND", sock[t].state = "BOUND",
                        desc[sock[s].fd].addr.port = desc[sock[t].fd].addr.port
                 PROVE  Winsock /\ sock[s].endpoint.af # sock[t].endpoint.af
      BY DEF PortExclusive
    <2>1. \A u \in Socks : sock[u].state = "BOUND" =>
            /\ Life(sock[u], desc).stage = "BOUND"
            /\ Life(sock[u], desc).addr = desc[sock[u].fd].addr
            /\ desc[sock[u].fd].addr.af = sock[u].endpoint.af
      BY LifeValues DEF AgreeInv, Agrees
    <2>2. ~LIFE!Shared(desc[sock[s].fd].addr, desc[sock[t].fd].addr)
      BY <2>1 DEF LIFE!Exclusive
    <2> QED
      BY <2>1, <2>2 DEF LIFE!Shared
  <1>2. LifeCaller /\ Init => I
    BY InitType, InitOwner, InitAgrees DEF LifeCaller, TidyCaller, IsolatedCaller
  <1>3. LifeCaller /\ I /\ [Next]_vars => I'
    BY NextType, NextOwner, NextAgrees
    DEF LifeCaller, TidyCaller, IsolatedCaller, CheckedCaller
  <1>4. LifeCaller => []LifeCaller
    OBVIOUS
  <1> QED
    BY <1>1, <1>2, <1>3, <1>4, ExclusiveSafe, LifeImplemented, PTL
    DEF Spec, ImplementsSocketLife
=============================================================================
