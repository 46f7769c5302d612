------------------------------- MODULE SlSock -------------------------------
(***************************************************************************)
(* The life cycle of sl_sock_t structs: sl_sock_create, sl_sock_bind,      *)
(* sl_sock_close and the (non)blocking switches of include/socklynx/sock.h *)
(* and the exported calls of src/socklynx/socklynx_plugin.c over them,     *)
(* running against the descriptor table of the process.  The table is      *)
(* shared by every struct and by the rest of the process, called the host. *)
(*                                                                         *)
(* One action is one call, from entry to return, with every way it can     *)
(* return.  An endpoint is its family and port: addresses are left out, and*)
(* two of a family are taken to overlap, as the wildcard and the loopback  *)
(* ones of the tests do.  type, proto and dir are never read: left out.    *)
(***************************************************************************)
EXTENDS Integers, FiniteSets

CONSTANTS
  Socks,        \* the caller's sl_sock_t structs
  Ports,        \* UDP ports; 0 asks the kernel to choose one
  MaxFd,        \* descriptors are 0 .. MaxFd: the limit of the process
  Host, None,   \* owners of a descriptor no struct created: the host, nobody
  Pinned,       \* descriptors the host keeps open for ever (its stdin)
  Winsock,      \* SL_SOCK_API_WINSOCK: TRUE on Windows, FALSE on POSIX
  Asserts,      \* FALSE when SL_ASSERT is compiled out
  CloseMayFail, \* TRUE when close() may fail on an open socket, which stays open
  Rules         \* the usage rules the caller keeps, see MayClose and below

Fds == 0 .. MaxFd
AllRules == {"close", "open", "nonblocking", "stop"}

ASSUME SlSockAssumption ==
  /\ MaxFd \in Nat
  /\ Ports \subseteq Nat
  /\ Host # None /\ Host \notin Socks /\ None \notin Socks
  /\ Winsock \in BOOLEAN /\ Asserts \in BOOLEAN
  /\ Pinned \subseteq Fds /\ (Winsock => 0 \notin Pinned)
  /\ CloseMayFail \in BOOLEAN
  /\ Rules \subseteq AllRules

VARIABLES
  sock,     \* sock[s]: the fields of struct s
  desc,     \* desc[f]: what descriptor f of the process refers to
  net,      \* Winsock only: between WSAStartup and the last WSACleanup
  last,     \* who made the last call and what it returned
  aborted   \* an SL_ASSERT failed: the process is gone

vars == <<sock, desc, net, last, aborted>>

States == {"NEW", "CREATED", "BOUND", "CLOSED"}
Flags == {"NONBLOCKING", "IPV4_DISABLED"}
Errors == {"none", "errno"}             \* 0, or what sl_sys_errno() returned

NoAddr == [af |-> "none", port |-> 0]   \* a zeroed endpoint; an unbound socket
Endpoints == [af : {"v4", "v6"}, port : Ports] \cup {NoAddr}

SockType == [fd : Fds, state : States, error : Errors,
             flags : SUBSET Flags, endpoint : Endpoints]
DescType == [owner : Socks \cup {Host, None}, addr : Endpoints,
             nonblock : BOOLEAN, v6only : BOOLEAN]

\* sl_sock_t sock = {0} with its endpoint filled in
NewUDP(e) == [fd |-> 0, state |-> "NEW", error |-> "none", flags |-> {}, endpoint |-> e]

Descriptor(o, a, v) == [owner |-> o, addr |-> a, nonblock |-> FALSE, v6only |-> v]
Free == Descriptor(None, NoAddr, FALSE)

Init ==
  /\ sock \in [Socks -> {NewUDP(e) : e \in Endpoints}]
  /\ desc = [f \in Fds |-> IF f \in Pinned THEN Descriptor(Host, NoAddr, FALSE) ELSE Free]
  /\ net \in {TRUE, ~Winsock}
  /\ last = [who |-> Host, rv |-> "SL_OK"]
  /\ aborted = FALSE

-----------------------------------------------------------------------------
(* The operating system.                                                   *)

FreeFds == {f \in Fds : desc[f].owner = None}

\* The descriptors socket() and open() may return: the lowest free one on
\* POSIX, any unused nonzero handle on Winsock.
NextFds ==
  IF Winsock THEN FreeFds \ {0}
  ELSE {f \in FreeFds : \A g \in FreeFds : f <= g}

\* close() and fcntl() take any open descriptor, closesocket() and
\* ioctlsocket() only a socket.
Accepts(f) ==
  /\ desc[f].owner # None
  /\ Winsock => desc[f].owner \in Socks

\* p is bound to a port that q cannot bind to a: the same family, or, on
\* POSIX, an IPv6 socket that also serves IPv4.
Clash(p, q, a) ==
  /\ p.addr # NoAddr /\ p.addr.port = a.port
  /\ \/ p.addr.af = a.af
     \/ ~Winsock /\ p.addr.af = "v6" /\ ~p.v6only
     \/ ~Winsock /\ a.af = "v6" /\ ~q.v6only

\* The local addresses bind(f, e) may give the socket f of table d.
BindAddrs(d, f, e) ==
  {a \in Endpoints \ {NoAddr} :
     /\ a.af = e.af /\ a.port # 0 /\ (e.port # 0 => a = e)
     /\ d[f].owner \in Socks /\ d[f].addr = NoAddr
     /\ sock[d[f].owner].endpoint.af = e.af
     /\ \A g \in Fds : ~Clash(d[g], d[f], a)}

-----------------------------------------------------------------------------
(* What a caller that keeps a rule restricts itself to.                    *)

MayClose(s) == "close" \in Rules => sock[s].fd # 0
MayCreate(s) == "open" \in Rules => sock[s].fd = 0 /\ sock[s].state \in {"NEW", "CLOSED"}
MayBind(s) == "open" \in Rules => sock[s].state = "CREATED"
MaySwitch(s) == "nonblocking" \in Rules => sock[s].state \in {"CREATED", "BOUND"}
MayStop == "stop" \in Rules => \A f \in Fds : desc[f].owner \notin Socks

-----------------------------------------------------------------------------
(* The calls.  k is the struct and d the table at the point of return.     *)

Return(s, k, d, rv) ==
  /\ sock' = [sock EXCEPT ![s] = k]
  /\ desc' = d
  /\ last' = [who |-> s, rv |-> rv]
  /\ UNCHANGED <<net, aborted>>

Ok(s, k, d) == Return(s, k, d, "SL_OK")

\* As if sl_sock_error_set were not called.               (mutant of Fails)
FailsSilently(s, k, d) == Return(s, k, d, "SL_ERR")

\* sl_sock_error_set(sock, sl_sys_errno()); return SL_ERR
Fails(s, k, d) == Return(s, [k EXCEPT !.error = "errno"], d, "SL_ERR")

\* SL_ASSERT(expr) lets the call go on, or ends the process.
SL_ASSERT(expr) == ~aborted /\ (Asserts => expr)
AssertFails(expr) ==
  /\ ~aborted /\ Asserts /\ ~expr
  /\ aborted' = TRUE
  /\ UNCHANGED <<sock, desc, net, last>>

\* As if IPV6_V6ONLY were set to 1.                    (mutant of WithSocket)
WithV6Only(s, f, v) == [desc EXCEPT ![f] = Descriptor(s, NoAddr, TRUE)]

\* The struct and the table when sl_sock_create has succeeded with f.
CreatedFlags(k) == IF k.endpoint.af = "v6" THEN k.flags \cup {"IPV4_DISABLED"} ELSE k.flags
Created(s, f) ==
  [sock[s] EXCEPT !.fd = f, !.state = "CREATED", !.flags = CreatedFlags(sock[s])]
WithSocket(s, f, v) == [desc EXCEPT ![f] = Descriptor(s, NoAddr, v)]

\* As if sl_sock_fd_set stored what socket() returned before testing it.
\*                                                    (mutant of CreateFails)
StoresInvalidFd(s) == Fails(s, [sock[s] EXCEPT !.fd = -1], desc)

\* The ends of sl_sock_create other than success: socket() fails, or the
\* setsockopt() of an IPv6 socket does, after the descriptor was stored.
CreateFails(s) ==
  \/ Fails(s, sock[s], desc)
  \/ /\ net /\ sock[s].endpoint.af = "v6"
     /\ \E f \in NextFds, v \in BOOLEAN :
          Return(s, [sock[s] EXCEPT !.fd = f], WithSocket(s, f, v), "SL_ERR")

\* socket() refuses family 0 on POSIX; Winsock picks a family for it.
Creatable(s) == net /\ (Winsock \/ sock[s].endpoint # NoAddr)

\* As if a struct that is BOUND could be opened again. (mutant of AssertCreate)
AssertNotCreated(s) == sock[s].state # "CREATED"
AssertCreate(s) == sock[s].state \in {"NEW", "CLOSED"}
sl_sock_create(s) ==
  /\ MayCreate(s)
  /\ \/ AssertFails(AssertCreate(s))
     \/ /\ SL_ASSERT(AssertCreate(s))
        /\ \/ CreateFails(s)
           \/ /\ Creatable(s)
              /\ \E f \in NextFds : Ok(s, Created(s, f), WithSocket(s, f, FALSE))

\* As if the result of bind() were not tested.           (mutant of BindFrom)
BindUntested(s, k, d) == Ok(s, [k EXCEPT !.state = "BOUND"], d)

\* bind() and what follows it, from struct k and table d.
BindFrom(s, k, d) ==
  \/ Fails(s, k, d)
  \/ \E a \in BindAddrs(d, k.fd, k.endpoint) :
       Ok(s, [k EXCEPT !.state = "BOUND"], [d EXCEPT ![k.fd].addr = a])

sl_sock_bind(s) ==
  /\ MayBind(s)
  /\ \/ AssertFails(sock[s].state = "CREATED")
     \/ SL_ASSERT(sock[s].state = "CREATED") /\ BindFrom(s, sock[s], desc)

socklynx_socket_open(s) ==
  /\ MayCreate(s)
  /\ \/ AssertFails(AssertCreate(s))
     \/ /\ SL_ASSERT(AssertCreate(s))
        /\ \/ CreateFails(s)
           \/ /\ Creatable(s)
              /\ \E f \in NextFds : BindFrom(s, Created(s, f), WithSocket(s, f, FALSE))

\* As if the descriptor were reset before close() reads it.
\*                                                       (mutant of Released)
ReleasedAfterReset(f) == [desc EXCEPT ![0] = Free]
Released(f) == [desc EXCEPT ![f] = Free]

\* As if the reset of fd, or of the flags, were missing.   (mutants of Closed)
ClosedKeepsFd(k) == [k EXCEPT !.state = "CLOSED", !.flags = {}]
ClosedKeepsFlags(k) == [k EXCEPT !.fd = 0, !.state = "CLOSED"]
Closed(k) == [k EXCEPT !.fd = 0, !.state = "CLOSED", !.flags = {}]

\* sl_sock_close has no guard on the state of the struct.
socklynx_socket_close(s) ==
  LET k == sock[s] IN
  /\ ~aborted /\ MayClose(s)
  /\ \/ /\ Accepts(k.fd)
        /\ Ok(s, Closed(k), Released(k.fd))
     \/ /\ ~Accepts(k.fd) \/ CloseMayFail
        /\ Fails(s, k, desc)

\* sl_sock_nonblocking_set and sl_sock_blocking_set: no guard either.
Switched(s, enabled) ==
  IF enabled THEN sock[s].flags \cup {"NONBLOCKING"} ELSE sock[s].flags \ {"NONBLOCKING"}
socklynx_socket_nonblocking(s, enabled) ==
  LET k == sock[s] IN
  /\ ~aborted /\ MaySwitch(s)
  /\ \/ /\ Accepts(k.fd)
        /\ Ok(s, [k EXCEPT !.flags = Switched(s, enabled)],
                 [desc EXCEPT ![k.fd].nonblock = enabled])
     \/ Fails(s, k, desc)

-----------------------------------------------------------------------------
(* The rest of the process.                                                *)

HostReturn ==
  /\ ~aborted
  /\ last' = [who |-> Host, rv |-> "SL_OK"]
  /\ UNCHANGED <<sock, aborted>>

HostOpen ==
  /\ HostReturn
  /\ \E f \in NextFds : desc' = [desc EXCEPT ![f] = Descriptor(Host, NoAddr, FALSE)]
  /\ UNCHANGED net

HostClose ==
  /\ HostReturn
  /\ \E f \in Fds \ Pinned : desc[f].owner = Host /\ desc' = Released(f)
  /\ UNCHANGED net

\* The last sl_sys_cleanup of the process: WSACleanup() drops every socket.
NetStop ==
  /\ HostReturn
  /\ Winsock /\ net /\ MayStop
  /\ net' = FALSE
  /\ desc' = [f \in Fds |-> IF desc[f].owner \in Socks THEN Free ELSE desc[f]]

NetStart ==
  /\ HostReturn
  /\ Winsock /\ ~net
  /\ net' = TRUE
  /\ UNCHANGED desc

SockCall(s) ==
  \/ sl_sock_create(s)
  \/ sl_sock_bind(s)
  \/ socklynx_socket_open(s)
  \/ socklynx_socket_close(s)
  \/ \E enabled \in BOOLEAN : socklynx_socket_nonblocking(s, enabled)

HostCall == HostOpen \/ HostClose \/ NetStop \/ NetStart

Next == (\E s \in Socks : SockCall(s)) \/ HostCall

Spec == Init /\ [][Next]_vars

-----------------------------------------------------------------------------
(* Properties.                                                             *)

\* Types of the variables: in particular a struct never stores the invalid
\* descriptor a failed socket() returns (sl_sock_fd_set).
TypeOK ==
  /\ sock \in [Socks -> SockType]
  /\ desc \in [Fds -> DescType]
  /\ net \in BOOLEAN
  /\ last \in [who : Socks \cup {Host}, rv : {"SL_OK", "SL_ERR"}]
  /\ aborted \in BOOLEAN

Opened(s) == sock[s].state \in {"CREATED", "BOUND"}

\* A struct that is CREATED or BOUND, or that holds a nonzero fd, refers to a
\* socket sl_sock_create opened for it: never to a descriptor that was closed
\* and given to another struct or to the rest of the process.
DescriptorOwned ==
  \A s \in Socks : Opened(s) \/ sock[s].fd # 0 => desc[sock[s].fd].owner = s

\* BOUND is only said of a socket the kernel bound, in the family and to the
\* port of the struct's endpoint, or to some port when it asks for port 0.
BoundAsAsked ==
  \A s \in Socks : sock[s].state = "BOUND" =>
    LET e == sock[s].endpoint
        a == desc[sock[s].fd].addr
    IN  a.af = e.af /\ a.port # 0 /\ (e.port # 0 => a = e)

\* No socket is lost: each one sl_sock_create opened is still in the fd of
\* its struct, whatever failed in between, so that sl_sock_close reaches it.
NoLeak ==
  \A f \in Fds : desc[f].owner \in Socks => sock[desc[f].owner].fd = f

\* The NONBLOCKING flag of an open struct, which a caller reads to know if
\* sl_sock_recv may wait, is the mode of its socket.
FlagsTrackKernel ==
  \A s \in Socks : Opened(s) =>
    ("NONBLOCKING" \in sock[s].flags <=> desc[sock[s].fd].nonblock)

\* Two bound structs never serve the same port of the same family, and on
\* POSIX, where sl_sock_create makes every IPv6 socket serve IPv4 too, never
\* the same port at all.
PortExclusive ==
  \A s, t \in Socks :
    /\ s # t /\ sock[s].state = "BOUND" /\ sock[t].state = "BOUND"
    /\ desc[sock[s].fd].addr.port = desc[sock[t].fd].addr.port
    => Winsock /\ sock[s].endpoint.af # sock[t].endpoint.af

\* A call that fails without naming its error in the struct is a create whose
\* setsockopt() failed: the struct says NEW or CLOSED but holds a socket that
\* is to be closed before it is opened again.
SilentFailureNeedsClose ==
  last.who \in Socks /\ last.rv = "SL_ERR" /\ sock[last.who].error = "none" =>
    sock[last.who].fd # 0 /\ ~Opened(last.who)

\* The kernel keeps a port for a struct only while the struct says BOUND and
\* its fd is that socket, so that a close gives the port back.  A caller that
\* keeps no rule and retries sl_sock_create over a half-failed one loses the
\* first socket, but the asserts see to it that no port is lost with it.
PortsHeldByBound ==
  \A f \in Fds : desc[f].owner \in Socks /\ desc[f].addr # NoAddr =>
    LET k == sock[desc[f].owner] IN k.fd = f /\ k.state = "BOUND"

\* A call changes a descriptor in use only when the caller passed the struct
\* that holds it: no call closes, binds or switches the socket of another
\* struct or a file of the host.
Isolation ==
  [][\A f \in Fds : desc[f].owner # None /\ desc'[f] # desc[f] =>
        /\ last'.who = desc[f].owner
        /\ desc[f].owner # Host => sock[desc[f].owner].fd = f]_vars

\* Closing a struct that is closed and holds no socket touches nothing: the
\* tests close twice (SLNativeUnit.cs, SLIntegration.cs).
RepeatedCloseIsHarmless ==
  [][\A s \in Socks :
        /\ sock[s].state = "CLOSED" /\ \A f \in Fds : desc[f].owner # s
        /\ socklynx_socket_close(s)
        => UNCHANGED desc]_vars

\* SL_SOCK_FLAG_IPV4_DISABLED is set on sockets that do not serve IPv4.
IPv4DisabledIsTrue ==
  \A s \in Socks :
    Opened(s) /\ "IPV4_DISABLED" \in sock[s].flags => desc[sock[s].fd].v6only
=============================================================================
