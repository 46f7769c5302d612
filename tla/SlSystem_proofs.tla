-------------------------- MODULE SlSystem_proofs --------------------------
(* Proofs about SlSystem, for any number of contexts and structs, and on   *)
(* both platforms.                                                         *)
EXTENDS SlSystem, TLAPS

SYSP == INSTANCE SlSys_proofs
SOCKP == INSTANCE SlSock_proofs WITH net <- SYS!StackUp

-----------------------------------------------------------------------------
(* SlSystem implements SlSock.                                             *)

LEMMA SockInit == Init => SOCK!Init
  BY DEF Init

\* A context call is a stutter of SlSock, or the net starting or stopping.
LEMMA ContextStep ==
  ASSUME NEW c \in Ctxs, socklynx_setup(c) \/ socklynx_cleanup(c)
  PROVE  SOCK!HostCall \/ UNCHANGED SOCK!vars
  <1>1. SOCK!NetStart \/ SOCK!NetStop => SOCK!HostCall
    BY DEF SOCK!HostCall
  <1>2. UNCHANGED sockvars /\ SYS!StackUp = SYS!StackUp' => UNCHANGED SOCK!vars
    BY DEF sockvars, SOCK!vars
  <1> QED
    BY <1>1, <1>2 DEF socklynx_setup, socklynx_cleanup

LEMMA SockNext == [Next]_vars => [SOCK!Next]_(SOCK!vars)
  <1> SUFFICES ASSUME [Next]_vars PROVE [SOCK!Next]_(SOCK!vars)
    OBVIOUS
  <1>1. CASE UNCHANGED vars
    BY <1>1 DEF vars, SOCK!vars, SYS!StackUp
  <1>2. ASSUME NEW c \in Ctxs, socklynx_setup(c) \/ socklynx_cleanup(c)
        PROVE  [SOCK!Next]_(SOCK!vars)
    BY <1>2, ContextStep DEF SOCK!Next
  <1>3. ASSUME NEW s \in Socks, SocketCall(s) PROVE SOCK!Next
    BY <1>3 DEF SocketCall, SOCK!Next
  <1>4. CASE HostFiles
    BY <1>4 DEF HostFiles, SOCK!Next, SOCK!HostCall
  <1> QED
    BY <1>1, <1>2, <1>3, <1>4 DEF Next

\* To the sockets the contexts are no more than the start and the stop of the
\* stack, so that what is proved of SlSock can be used here.
LEMMA SockImplemented == Spec => SOCK!Spec
  BY SockInit, SockNext, PTL DEF Spec, SOCK!Spec

-----------------------------------------------------------------------------
(* What is proved of SlSock holds with real contexts.  The definitions of  *)
(* SlSock come here under two names, SOCK and SOCKP, for the same thing.   *)

LEMMA SameInit == SOCK!Init => SOCKP!Init
  BY DEF SOCK!Init, SOCKP!Init, SOCK!Fds, SOCKP!Fds, SOCK!States, SOCKP!States,
         SOCK!Flags, SOCKP!Flags, SOCK!Errors, SOCKP!Errors, SOCK!NoAddr,
         SOCKP!NoAddr, SOCK!Endpoints, SOCKP!Endpoints, SOCK!NewUDP, SOCKP!NewUDP,
         SOCK!Descriptor, SOCKP!Descriptor, SOCK!Free, SOCKP!Free

LEMMA SameSockCall ==
  ASSUME NEW s \in Socks, SOCK!SockCall(s)
  PROVE  SOCKP!SockCall(s)
  BY DEF SOCK!SockCall, SOCKP!SockCall, SOCK!sl_sock_create, SOCKP!sl_sock_create,
         SOCK!sl_sock_bind, SOCKP!sl_sock_bind, SOCK!socklynx_socket_open,
         SOCKP!socklynx_socket_open, SOCK!socklynx_socket_close,
         SOCKP!socklynx_socket_close, SOCK!socklynx_socket_nonblocking,
         SOCKP!socklynx_socket_nonblocking, SOCK!Switched, SOCKP!Switched,
         SOCK!Closed, SOCKP!Closed, SOCK!Released, SOCKP!Released, SOCK!BindFrom,
         SOCKP!BindFrom, SOCK!AssertCreate, SOCKP!AssertCreate, SOCK!Creatable,
         SOCKP!Creatable, SOCK!CreateFails, SOCKP!CreateFails, SOCK!WithSocket,
         SOCKP!WithSocket, SOCK!Created, SOCKP!Created, SOCK!CreatedFlags,
         SOCKP!CreatedFlags, SOCK!AssertFails, SOCKP!AssertFails, SOCK!SL_ASSERT,
         SOCKP!SL_ASSERT, SOCK!Fails, SOCKP!Fails, SOCK!Ok, SOCKP!Ok, SOCK!Return,
         SOCKP!Return, SOCK!MaySwitch, SOCKP!MaySwitch, SOCK!MayBind, SOCKP!MayBind,
         SOCK!MayCreate, SOCKP!MayCreate, SOCK!MayClose, SOCKP!MayClose,
         SOCK!BindAddrs, SOCKP!BindAddrs, SOCK!Clash, SOCKP!Clash, SOCK!Accepts,
         SOCKP!Accepts, SOCK!NextFds, SOCKP!NextFds, SOCK!FreeFds, SOCKP!FreeFds,
         SOCK!Fds, SOCKP!Fds, SOCK!NoAddr, SOCKP!NoAddr, SOCK!Endpoints,
         SOCKP!Endpoints, SOCK!Descriptor, SOCKP!Descriptor, SOCK!Free, SOCKP!Free

LEMMA SameHostCall == SOCK!HostCall => SOCKP!HostCall
  BY DEF SOCK!HostCall, SOCKP!HostCall, SOCK!HostOpen, SOCKP!HostOpen, SOCK!HostClose,
         SOCKP!HostClose, SOCK!NetStop, SOCKP!NetStop, SOCK!NetStart, SOCKP!NetStart,
         SOCK!HostReturn, SOCKP!HostReturn, SOCK!MayStop, SOCKP!MayStop,
         SOCK!Released, SOCKP!Released, SOCK!NextFds, SOCKP!NextFds, SOCK!FreeFds,
         SOCKP!FreeFds, SOCK!Fds, SOCKP!Fds, SOCK!NoAddr, SOCKP!NoAddr,
         SOCK!Descriptor, SOCKP!Descriptor, SOCK!Free, SOCKP!Free

LEMMA SameSpec == SOCK!Spec => SOCKP!Spec
  <1>1. [SOCK!Next]_(SOCK!vars) => [SOCKP!Next]_(SOCKP!vars)
    BY SameSockCall, SameHostCall DEF SOCK!Next, SOCKP!Next, SOCK!vars, SOCKP!vars
  <1> QED
    BY <1>1, SameInit, PTL DEF SOCK!Spec, SOCKP!Spec

\* Types of the sockets and descriptors, whatever the caller does.
LEMMA SocketTypes == Spec => []SOCKP!TypeOK
  <1>1. SOCKP!Spec => []SOCKP!TypeOK
    BY SOCKP!TypeCorrect, SlSystemAssumption
    DEF SOCK!SlSockAssumption, SOCK!Fds, SOCKP!Fds, SOCK!AllRules, SOCKP!AllRules
  <1> QED
    BY <1>1, SameSpec, SockImplemented, PTL

\* With real contexts too, whatever they do and however setups and cleanups
\* fail, a tidy caller's structs hold their own sockets and lose none.
THEOREM SocketsSafe ==
  SOCKP!TidyCaller /\ Spec => [](SOCK!DescriptorOwned /\ SOCK!NoLeak)
  <1>1. SOCKP!SafeCaller /\ SOCKP!Spec => []SOCKP!DescriptorOwned
    BY SOCKP!OwnershipSafe, SlSystemAssumption
    DEF SOCK!SlSockAssumption, SOCK!Fds, SOCKP!Fds, SOCK!AllRules, SOCKP!AllRules
  <1>2. SOCKP!TidyCaller /\ SOCKP!Spec => []SOCKP!NoLeak
    BY SOCKP!NoLeakSafe, SlSystemAssumption
    DEF SOCK!SlSockAssumption, SOCK!Fds, SOCKP!Fds, SOCK!AllRules, SOCKP!AllRules
  <1>3. SOCKP!TidyCaller => SOCKP!SafeCaller
    BY DEF SOCKP!TidyCaller, SOCKP!IsolatedCaller
  <1>4. SOCKP!DescriptorOwned /\ SOCKP!NoLeak => SOCK!DescriptorOwned /\ SOCK!NoLeak
    BY DEF SOCK!DescriptorOwned, SOCKP!DescriptorOwned, SOCK!NoLeak, SOCKP!NoLeak,
           SOCK!Opened, SOCKP!Opened, SOCK!Fds, SOCKP!Fds
  <1> QED
    BY <1>1, <1>2, <1>3, <1>4, SameSpec, SockImplemented, PTL

-----------------------------------------------------------------------------
(* Sockets outlive the contexts of others.                                 *)

\* SlSys under its two names is the same.
LEMMA SameSys ==
  /\ SYS!Init <=> SYSP!Init
  /\ \A c : SYS!Started(c) <=> SYSP!Started(c)
  /\ SYS!StackUp <=> SYSP!StackUp
  BY DEF SYS!Init, SYSP!Init, SYS!Started, SYSP!Started, SYS!StackUp, SYSP!StackUp,
         SYS!CtxType, SYSP!CtxType, SYS!AllStates, SYSP!AllStates

LEMMA SameCalls ==
  ASSUME NEW c \in Ctxs
  PROVE  /\ SYS!sl_sys_setup(c) => SYSP!sl_sys_setup(c)
         /\ SYS!sl_sys_cleanup(c) => SYSP!sl_sys_cleanup(c)
  BY DEF SYS!sl_sys_setup, SYSP!sl_sys_setup, SYS!sl_sys_cleanup, SYSP!sl_sys_cleanup,
         SYS!Return, SYSP!Return, SYS!Started, SYSP!Started, SYS!StackUp, SYSP!StackUp,
         SYS!Startup, SYSP!Startup, SYS!Undone, SYSP!Undone

LEMMA ContextsNext == [Next]_vars => [SYSP!Next]_sysvars
  <1> SUFFICES ASSUME [Next]_vars PROVE [SYSP!Next]_sysvars
    OBVIOUS
  <1>1. CASE UNCHANGED vars
    BY <1>1 DEF vars, sysvars
  <1>2. ASSUME NEW c \in Ctxs, socklynx_setup(c) \/ socklynx_cleanup(c)
        PROVE  SYSP!Next
    BY <1>2, SameCalls DEF socklynx_setup, socklynx_cleanup, SYSP!Next
  <1>3. ASSUME NEW s \in Socks, SocketCall(s) PROVE UNCHANGED sysvars
    BY <1>3 DEF SocketCall
  <1>4. CASE HostFiles
    BY <1>4 DEF HostFiles
  <1> QED
    BY <1>1, <1>2, <1>3, <1>4 DEF Next

\* A call on a struct that changes the table names its caller.
LEMMA CallerNamed ==
  ASSUME NEW s \in Socks, SOCK!SockCall(s)
  PROVE  last'.who = s \/ UNCHANGED desc
  <1>1. ASSUME NEW k, NEW d, NEW rv, SOCK!Return(s, k, d, rv) PROVE last'.who = s
    BY <1>1 DEF SOCK!Return
  <1>2. ASSUME NEW k, NEW d, SOCK!Fails(s, k, d) \/ SOCK!Ok(s, k, d) PROVE last'.who = s
    BY <1>1, <1>2 DEF SOCK!Fails, SOCK!Ok
  <1>3. ASSUME NEW expr, SOCK!AssertFails(expr) PROVE UNCHANGED desc
    BY <1>3 DEF SOCK!AssertFails
  <1>4. ASSUME SOCK!CreateFails(s) PROVE last'.who = s
    BY <1>1, <1>2, <1>4 DEF SOCK!CreateFails
  <1>5. ASSUME NEW k, NEW d, SOCK!BindFrom(s, k, d) PROVE last'.who = s
    BY <1>2, <1>5 DEF SOCK!BindFrom
  <1>6. CASE SOCK!sl_sock_create(s)
    BY <1>2, <1>3, <1>4, <1>6 DEF SOCK!sl_sock_create
  <1>7. CASE SOCK!sl_sock_bind(s)
    BY <1>3, <1>5, <1>7 DEF SOCK!sl_sock_bind
  <1>8. CASE SOCK!socklynx_socket_open(s)
    BY <1>3, <1>4, <1>5, <1>8 DEF SOCK!socklynx_socket_open
  <1>9. CASE SOCK!socklynx_socket_close(s)
    BY <1>2, <1>9 DEF SOCK!socklynx_socket_close
  <1>10. CASE \E enabled \in BOOLEAN : SOCK!socklynx_socket_nonblocking(s, enabled)
    BY <1>2, <1>10 DEF SOCK!socklynx_socket_nonblocking
  <1> QED
    BY <1>6, <1>7, <1>8, <1>9, <1>10 DEF SOCK!SockCall

\* The host opens free descriptors and closes its own.
LEMMA HostFilesKeepSockets ==
  ASSUME HostFiles, Host \notin Socks, None \notin Socks, NEW f, desc[f].owner \in Socks,
         f \in DOMAIN desc
  PROVE  desc'[f] = desc[f]
  <1>1. ASSUME NEW g, NEW e, desc' = [desc EXCEPT ![g] = e], desc[g].owner \notin Socks
        PROVE  desc'[f] = desc[f]
    BY <1>1
  <1>2. CASE SOCK!HostOpen
    BY <1>1, <1>2 DEF SOCK!HostOpen, SOCK!NextFds, SOCK!FreeFds
  <1>3. CASE SOCK!HostClose
    BY <1>1, <1>3 DEF SOCK!HostClose, SOCK!Released
  <1> QED
    BY <1>2, <1>3 DEF HostFiles

\* A context that is started before and after a call keeps the stack up before
\* and after it, so that the call takes nothing down.
LEMMA OutliveStep ==
  ASSUME SYSP!StackKept, SYSP!StackKept', Host \notin Socks, None \notin Socks, [Next]_vars,
         NEW f \in SOCK!Fds, f \in DOMAIN desc,
         desc[f].owner \in Socks, desc'[f].owner # desc[f].owner,
         NEW c \in Ctxs, SYS!Started(c), SYS!Started(c)'
  PROVE  last'.who \in Socks
  <1>1. SYS!StackUp /\ SYS!StackUp'
    BY DEF SYSP!StackKept, SYS!Started, SYSP!Started, SYS!StackUp, SYSP!StackUp
  <1>2. ASSUME NEW b \in Ctxs, socklynx_setup(b) \/ socklynx_cleanup(b) PROVE UNCHANGED desc
    BY <1>1, <1>2 DEF socklynx_setup, socklynx_cleanup, sockvars
  <1>3. ASSUME NEW s \in Socks, SocketCall(s) PROVE last'.who = s
    BY <1>3, CallerNamed DEF SocketCall
  <1>4. ~ HostFiles
    BY HostFilesKeepSockets
  <1>5. ~ UNCHANGED vars
    BY DEF vars
  <1> QED
    BY <1>2, <1>3, <1>4, <1>5 DEF Next

\* A socket outlives the cleanup of every context but the last started one:
\* with zeroed contexts, for any number of them and of structs, whatever the
\* caller does with the structs.
THEOREM OutliveSafe ==
  StaleStates \subseteq {"STOPPED"} /\ Spec => SocketsOutliveOtherContexts
  <1>1. StaleStates \subseteq {"STOPPED"} /\ SYSP!Init => SYSP!SysInv
    BY SYSP!SysInit, SlSystemAssumption
    DEF SYS!SlSysAssumption, SYS!AllStates, SYSP!AllStates,
        SYS!IsFiniteSet, SYSP!IsFiniteSet
  <1>2. SYSP!SysInv /\ [SYSP!Next]_(SYSP!sysvars) => SYSP!SysInv'
    BY SYSP!SysNext, SlSystemAssumption
    DEF SYS!SlSysAssumption, SYS!AllStates, SYSP!AllStates,
        SYS!IsFiniteSet, SYSP!IsFiniteSet
  <1>3. SYSP!SysInv => SYSP!StackKept
    BY SYSP!StartedKeepsStack, SlSystemAssumption
    DEF SYS!SlSysAssumption, SYS!AllStates, SYSP!AllStates,
        SYS!IsFiniteSet, SYSP!IsFiniteSet
  <1>4. Init => SYSP!Init
    BY SameSys DEF Init
  <1>5. [Next]_vars => [SYSP!Next]_(SYSP!sysvars)
    BY ContextsNext DEF sysvars, SYSP!sysvars
  <1>6. /\ SYSP!StackKept /\ SYSP!StackKept' /\ SOCKP!TypeOK /\ [Next]_vars
        => \A f \in SOCK!Fds :
             /\ desc[f].owner \in Socks /\ desc'[f].owner # desc[f].owner
             /\ \E c \in Ctxs : SYS!Started(c) /\ SYS!Started(c)'
             => last'.who \in Socks
    <2>1. Host \notin Socks /\ None \notin Socks
      BY SlSystemAssumption DEF SOCK!SlSockAssumption
    <2>2. SOCKP!TypeOK => DOMAIN desc = SOCK!Fds
      BY DEF SOCKP!TypeOK, SOCK!Fds, SOCKP!Fds
    <2> QED
      BY <2>1, <2>2, OutliveStep
  <1> QED
    BY <1>1, <1>2, <1>3, <1>4, <1>5, <1>6, SocketTypes, PTL
    DEF Spec, SocketsOutliveOtherContexts

-----------------------------------------------------------------------------
(* No socket without a context.                                            *)

\* A Winsock that is down has no socket of a struct.
LEMMA SocketsDown == Spec => []SOCKP!DownInv
  <1>1. SOCKP!Spec => []SOCKP!DownInv
    BY SOCKP!DownSafe, SlSystemAssumption
    DEF SOCK!SlSockAssumption, SOCK!Fds, SOCKP!Fds, SOCK!AllRules, SOCKP!AllRules
  <1> QED
    BY <1>1, SameSpec, SockImplemented, PTL

\* With zeroed contexts, once all of them say STOPPED no socket is left, for
\* any number of contexts and structs and whatever the caller does with them:
\* the contexts' part is that all of them stopped means no startup left
\* (SysInv), the sockets' part that Winsock down means no socket (DownInv).
THEOREM StoppedSafe == StaleStates \subseteq {"STOPPED"} /\ Spec => []StoppedHoldsNoSocket
  <1>1. StaleStates \subseteq {"STOPPED"} /\ SYSP!Init => SYSP!SysInv
    BY SYSP!SysInit, SlSystemAssumption
    DEF SYS!SlSysAssumption, SYS!AllStates, SYSP!AllStates,
        SYS!IsFiniteSet, SYSP!IsFiniteSet
  <1>2. SYSP!SysInv /\ [SYSP!Next]_(SYSP!sysvars) => SYSP!SysInv'
    BY SYSP!SysNext, SlSystemAssumption
    DEF SYS!SlSysAssumption, SYS!AllStates, SYSP!AllStates,
        SYS!IsFiniteSet, SYSP!IsFiniteSet
  <1>3. SYSP!SysInv /\ Winsock /\ (\A c \in Ctxs : ~SYSP!Started(c)) => ~SYSP!StackUp
    BY SYSP!StoppedStack, SlSystemAssumption
    DEF SYS!SlSysAssumption, SYS!AllStates, SYSP!AllStates,
        SYS!IsFiniteSet, SYSP!IsFiniteSet
  <1>4. Init => SYSP!Init
    BY SameSys DEF Init
  <1>5. [Next]_vars => [SYSP!Next]_(SYSP!sysvars)
    BY ContextsNext DEF sysvars, SYSP!sysvars
  <1>6. SYSP!SysInv /\ SOCKP!DownInv => StoppedHoldsNoSocket
    BY <1>3, SameSys DEF StoppedHoldsNoSocket, SOCKP!DownInv, SOCK!Fds, SOCKP!Fds
  <1> QED
    BY <1>1, <1>2, <1>4, <1>5, <1>6, SocketsDown, PTL DEF Spec
=============================================================================
