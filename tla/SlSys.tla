------------------------------- MODULE SlSys -------------------------------
(***************************************************************************)
(* sl_sys_t contexts: sl_sys_setup and sl_sys_cleanup of                   *)
(* include/socklynx/sys.h, and the count Winsock keeps of WSAStartup calls *)
(* not yet undone.  The stack of the process is up while the count is not  *)
(* zero; on POSIX there is nothing to start.                               *)
(***************************************************************************)
EXTENDS Integers, FiniteSets

CONSTANTS
  Ctxs,        \* the caller's sl_sys_t contexts
  Winsock,     \* SL_SOCK_API_WINSOCK
  StaleStates  \* what the state of a context may hold before its first call

AllStates == {"STOPPED", "STARTED", "other"}

ASSUME SlSysAssumption ==
  /\ IsFiniteSet(Ctxs)
  /\ Winsock \in BOOLEAN
  /\ StaleStates \subseteq AllStates

VARIABLES
  ctx,   \* ctx[c]: its state, and whether af_inet and af_inet6 are written
  wsa,   \* Winsock's count of startups
  ret    \* the last call: which, on what context, and what it returned

sysvars == <<ctx, wsa, ret>>

CtxType == [state : AllStates, af : BOOLEAN]
Calls == {"setup", "cleanup"}

\* A zeroed context is STOPPED; one on the stack of a function holds garbage.
Init ==
  /\ ctx \in [Ctxs -> {k \in CtxType : k.state \in StaleStates /\ ~k.af}]
  /\ wsa = 0
  /\ ret \in [call : {"cleanup"}, ctx : Ctxs, rv : {"SL_OK"}]

Started(c) == ctx[c].state = "STARTED"
StackUp == ~Winsock \/ wsa > 0

Return(call, c, k, n, rv) ==
  /\ ctx' = [ctx EXCEPT ![c] = k]
  /\ wsa' = n
  /\ ret' = [call |-> call, ctx |-> c, rv |-> rv]

\* The count after a WSAStartup, and after a WSACleanup, that succeeds.
Startup == IF Winsock THEN wsa + 1 ELSE wsa
Undone == IF Winsock THEN wsa - 1 ELSE wsa

\* As if the early return of sl_sys_setup were missing. (mutant of sl_sys_setup)
SetupAlways(c) == Return("setup", c, [state |-> "STARTED", af |-> TRUE], Startup, "SL_OK")

\* As if it returned before it writes the families.  (mutant of sl_sys_setup)
SetupWithoutFamilies(c) ==
  Return("setup", c, [ctx[c] EXCEPT !.state = "STARTED"], wsa, "SL_OK")

sl_sys_setup(c) ==
  \/ Started(c) /\ Return("setup", c, ctx[c], wsa, "SL_OK")
  \/ /\ ~Started(c)
     /\ Return("setup", c, [state |-> "STARTED", af |-> TRUE], Startup, "SL_OK")
  \/ /\ ~Started(c) /\ Winsock
     /\ Return("setup", c, [ctx[c] EXCEPT !.af = TRUE], wsa, "error")

\* As if the early return of sl_sys_cleanup were missing.
\*                                                    (mutant of sl_sys_cleanup)
CleanupAlways(c) ==
  StackUp /\ Return("cleanup", c, [ctx[c] EXCEPT !.state = "STOPPED"], Undone, "SL_OK")

\* WSACleanup fails when nothing was started, and may fail for the network.
sl_sys_cleanup(c) ==
  \/ ctx[c].state = "STOPPED" /\ Return("cleanup", c, ctx[c], wsa, "SL_OK")
  \/ /\ ctx[c].state # "STOPPED" /\ StackUp
     /\ Return("cleanup", c, [ctx[c] EXCEPT !.state = "STOPPED"], Undone, "SL_OK")
  \/ /\ ctx[c].state # "STOPPED" /\ Winsock
     /\ Return("cleanup", c, ctx[c], wsa, "error")

Next == \E c \in Ctxs : sl_sys_setup(c) \/ sl_sys_cleanup(c)

Spec == Init /\ [][Next]_sysvars

-----------------------------------------------------------------------------
(* Properties.                                                             *)

\* Types of the variables.
TypeOK ==
  /\ ctx \in [Ctxs -> CtxType]
  /\ wsa \in 0 .. Cardinality(Ctxs)
  /\ ret \in [call : Calls, ctx : Ctxs, rv : {"SL_OK", "error"}]

\* Each started context holds exactly one startup of Winsock, however often it
\* was set up, cleaned up or failed to: so the last cleanup, and no earlier
\* one, takes the stack down.
RefCount == Winsock => wsa = Cardinality({c \in Ctxs : Started(c)})

\* When sl_sys_setup returns SL_OK the context is started, the stack is up and
\* the families the caller builds endpoints from are there (test_api.c checks
\* all of it after each setup).
SetupDelivers ==
  ret.call = "setup" /\ ret.rv = "SL_OK" =>
    Started(ret.ctx) /\ ctx[ret.ctx].af /\ StackUp
=============================================================================
