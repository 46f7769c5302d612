------------------------------ MODULE SlSystem ------------------------------
(***************************************************************************)
(* Contexts and sockets together: socklynx_setup and socklynx_cleanup of   *)
(* SlSys beside the socket calls of SlSock, in one process.  They meet in  *)
(* the network stack: Winsock answers socket() only while some context is  *)
(* started, and the cleanup of the last one drops every socket that is     *)
(* still open.  The contexts are independent of each other and of the      *)
(* structs: nothing in the code ties a socket to a context.                *)
(***************************************************************************)
EXTENDS Integers

CONSTANTS Socks, Ports, MaxFd, Host, None, Pinned, Winsock, Asserts, CloseMayFail, Rules,
          Ctxs, StaleStates

VARIABLES sock, desc, last, aborted,   \* of SlSock
          ctx, wsa, ret                \* of SlSys

sockvars == <<sock, desc, last, aborted>>
sysvars == <<ctx, wsa, ret>>
vars == <<sock, desc, last, aborted, ctx, wsa, ret>>

SYS == INSTANCE SlSys
SOCK == INSTANCE SlSock WITH net <- SYS!StackUp

ASSUME SlSystemAssumption == SYS!SlSysAssumption /\ SOCK!SlSockAssumption

Init == SYS!Init /\ SOCK!Init

\* A call on a context, with what it does to the sockets of the process.
socklynx_setup(c) ==
  /\ ~aborted
  /\ SYS!sl_sys_setup(c)
  /\ IF SYS!StackUp = SYS!StackUp' THEN UNCHANGED sockvars ELSE SOCK!NetStart

socklynx_cleanup(c) ==
  /\ ~aborted
  /\ SYS!sl_sys_cleanup(c)
  /\ IF SYS!StackUp = SYS!StackUp' THEN UNCHANGED sockvars ELSE SOCK!NetStop

SocketCall(s) == UNCHANGED sysvars /\ SOCK!SockCall(s)
HostFiles == UNCHANGED sysvars /\ (SOCK!HostOpen \/ SOCK!HostClose)

Next ==
  \/ \E c \in Ctxs : socklynx_setup(c) \/ socklynx_cleanup(c)
  \/ \E s \in Socks : SocketCall(s)
  \/ HostFiles

Spec == Init /\ [][Next]_vars

-----------------------------------------------------------------------------
(* Properties.                                                             *)

\* Once every context says STOPPED, in whatever order they were set up, cleaned
\* up or failed to be, no socket of the process is left: neither an open one
\* under a Winsock that a startup counted twice keeps up, nor one that a struct
\* opened after the last cleanup.
StoppedHoldsNoSocket ==
  Winsock /\ (\A c \in Ctxs : ~SYS!Started(c)) =>
    \A f \in SOCK!Fds : desc[f].owner \notin Socks

\* A socket lives as long as socket calls let it while any context stays
\* started: cleaning up one context never drops a socket opened under another,
\* and a second cleanup of a context already stopped drops none either.
SocketsOutliveOtherContexts ==
  [][\A f \in SOCK!Fds :
        /\ desc[f].owner \in Socks /\ desc'[f].owner # desc[f].owner
        /\ \E c \in Ctxs : SYS!Started(c) /\ SYS!Started(c)'
        => last'.who \in Socks]_vars
=============================================================================
