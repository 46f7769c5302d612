---------------------------- MODULE SlSys_proofs ----------------------------
(* Proofs about SlSys, for any number of contexts and on both platforms.   *)
EXTENDS SlSys, FiniteSetTheorems, TLAPS

USE SlSysAssumption

StartedCtxs == {c \in Ctxs : Started(c)}

\* A context that was zeroed before its first call is never in a third state,
\* which sl_sys_cleanup would take for a started one.
SysInv ==
  /\ \A c \in Ctxs : ctx[c].state # "other"
  /\ ctx \in [Ctxs -> CtxType]
  /\ ret \in [call : Calls, ctx : Ctxs, rv : {"SL_OK", "error"}]
  /\ wsa = IF Winsock THEN Cardinality(StartedCtxs) ELSE 0

LEMMA StartedFinite ==
  /\ IsFiniteSet(StartedCtxs)
  /\ Cardinality(StartedCtxs) \in 0 .. Cardinality(Ctxs)
  <1>1. StartedCtxs \subseteq Ctxs
    BY DEF StartedCtxs
  <1>2. IsFiniteSet(StartedCtxs) /\ Cardinality(StartedCtxs) <= Cardinality(Ctxs)
    BY <1>1, FS_Subset
  <1> QED
    BY <1>2, FS_CardinalityType

LEMMA SysInvImplies == SysInv => TypeOK /\ RefCount
  BY StartedFinite, FS_CardinalityType DEF SysInv, TypeOK, RefCount, StartedCtxs

LEMMA SysInit == StaleStates \subseteq {"STOPPED"} /\ Init => SysInv
  <1> SUFFICES ASSUME StaleStates \subseteq {"STOPPED"}, Init PROVE SysInv
    OBVIOUS
  <1>1. ctx \in [Ctxs -> CtxType] /\ \A c \in Ctxs : ~Started(c)
    BY DEF Init, Started, CtxType
  <1>2. StartedCtxs = {}
    BY <1>1 DEF StartedCtxs
  <1> QED
    BY <1>1, <1>2, FS_EmptySet DEF Init, SysInv, Calls

\* A startup adds the context to the started ones, a cleanup removes it.
LEMMA SysStep ==
  ASSUME SysInv, NEW c \in Ctxs, sl_sys_setup(c) \/ sl_sys_cleanup(c)
  PROVE  SysInv'
  <1>0. ctx[c] \in CtxType
    BY DEF SysInv
  <1>1. ASSUME NEW k \in CtxType, NEW n, NEW call \in Calls, NEW rv \in {"SL_OK", "error"},
               Return(call, c, k, n, rv),
               k.state # "other", n = IF Winsock THEN Cardinality(StartedCtxs') ELSE 0
        PROVE  SysInv'
    BY <1>1 DEF SysInv, Return
  <1>2. ASSUME NEW k \in CtxType, NEW n, NEW call, NEW rv, Return(call, c, k, n, rv)
        PROVE  StartedCtxs' = IF k.state = "STARTED" THEN StartedCtxs \cup {c}
                                                     ELSE StartedCtxs \ {c}
    BY <1>2 DEF SysInv, Return, StartedCtxs, Started
  <1>3. ASSUME ~Started(c) PROVE Cardinality(StartedCtxs \cup {c}) = Cardinality(StartedCtxs) + 1
    BY <1>3, StartedFinite, FS_AddElement DEF StartedCtxs
  <1>4. ASSUME Started(c) PROVE Cardinality(StartedCtxs \ {c}) = Cardinality(StartedCtxs) - 1
    BY <1>4, StartedFinite, FS_RemoveElement DEF StartedCtxs
  <1>5. Started(c) <=> c \in StartedCtxs
    BY DEF StartedCtxs
  <1>6. CASE Started(c) /\ Return("setup", c, ctx[c], wsa, "SL_OK")
    BY <1>0, <1>1, <1>2, <1>5, <1>6 DEF SysInv, Calls, Started
  <1>7. CASE ~Started(c) /\ Return("setup", c, [state |-> "STARTED", af |-> TRUE], Startup, "SL_OK")
    <2> DEFINE k == [state |-> "STARTED", af |-> TRUE]
    <2>1. k \in CtxType /\ k.state = "STARTED"
      BY DEF CtxType, AllStates
    <2> HIDE DEF k
    <2>2. StartedCtxs' = StartedCtxs \cup {c}
      BY <1>2, <1>7, <2>1 DEF k
    <2>3. Startup = IF Winsock THEN Cardinality(StartedCtxs') ELSE 0
      BY <1>3, <1>7, <2>2 DEF SysInv, Startup
    <2> QED
      BY <1>1, <1>7, <2>1, <2>3 DEF Calls, k
  <1>8. CASE ~Started(c) /\ Winsock /\ Return("setup", c, [ctx[c] EXCEPT !.af = TRUE], wsa, "error")
    <2>1. /\ [ctx[c] EXCEPT !.af = TRUE] \in CtxType
          /\ [ctx[c] EXCEPT !.af = TRUE].state = ctx[c].state
      BY <1>0 DEF CtxType
    <2> QED
      BY <1>1, <1>2, <1>5, <1>8, <2>1 DEF SysInv, Calls, Started
  <1>9. CASE ctx[c].state = "STOPPED" /\ Return("cleanup", c, ctx[c], wsa, "SL_OK")
    BY <1>0, <1>1, <1>2, <1>5, <1>9 DEF SysInv, Calls, Started
  <1>10. CASE /\ ctx[c].state # "STOPPED"
              /\ Return("cleanup", c, [ctx[c] EXCEPT !.state = "STOPPED"], Undone, "SL_OK")
    <2>1. /\ [ctx[c] EXCEPT !.state = "STOPPED"] \in CtxType
          /\ [ctx[c] EXCEPT !.state = "STOPPED"].state = "STOPPED"
      BY <1>0 DEF CtxType, AllStates
    <2>2. Started(c)
      BY <1>0, <1>10 DEF SysInv, Started, CtxType, AllStates
    <2> QED
      BY <1>1, <1>2, <1>4, <1>10, <2>1, <2>2 DEF SysInv, Calls, Undone
  <1>11. CASE ctx[c].state # "STOPPED" /\ Winsock /\ Return("cleanup", c, ctx[c], wsa, "error")
    BY <1>0, <1>1, <1>2, <1>5, <1>11 DEF SysInv, Calls, Started
  <1> QED
    BY <1>6, <1>7, <1>8, <1>9, <1>10, <1>11 DEF sl_sys_setup, sl_sys_cleanup

LEMMA SysNext == SysInv /\ [Next]_sysvars => SysInv'
  <1> SUFFICES ASSUME SysInv, [Next]_sysvars PROVE SysInv'
    OBVIOUS
  <1>1. CASE UNCHANGED sysvars
    BY <1>1 DEF sysvars, SysInv, StartedCtxs, Started
  <1> QED
    BY <1>1, SysStep DEF Next

\* With contexts that were zeroed, each started one accounts for exactly one
\* startup of Winsock, for any number of contexts and any order of calls.
THEOREM RefCountSafe ==
  StaleStates \subseteq {"STOPPED"} /\ Spec => [](TypeOK /\ RefCount)
  BY SysInit, SysNext, SysInvImplies, PTL DEF Spec

-----------------------------------------------------------------------------
(* What a setup that succeeds delivers.                                    *)

\* While a context is started the stack is up: it holds a startup of its own.
StackKept == \A c \in Ctxs : Started(c) => StackUp

LEMMA StartedKeepsStack == SysInv => StackKept
  <1> SUFFICES ASSUME SysInv, NEW c \in Ctxs, Started(c)
               PROVE  StackUp
    BY DEF StackKept
  <1>1. StartedCtxs # {}
    BY DEF StartedCtxs
  <1>2. Cardinality(StartedCtxs) # 0
    BY <1>1, StartedFinite, FS_EmptySet
  <1> QED
    BY <1>2, StartedFinite DEF SysInv, StackUp

\* With no context started no startup is left, and Winsock is down.
LEMMA StoppedStack == SysInv /\ Winsock /\ (\A c \in Ctxs : ~Started(c)) => ~StackUp
  <1> SUFFICES ASSUME SysInv, Winsock, \A c \in Ctxs : ~Started(c) PROVE ~StackUp
    OBVIOUS
  <1>1. StartedCtxs = {}
    BY DEF StartedCtxs
  <1>2. wsa = 0
    BY <1>1, FS_EmptySet DEF SysInv
  <1> QED
    BY <1>2 DEF StackUp

\* A context is only marked started with its families written: without this a
\* second setup, which returns early, would deliver nothing.
Written == \A c \in Ctxs : Started(c) => ctx[c].af

LEMMA WrittenInit == StaleStates \subseteq {"STOPPED"} /\ Init => Written /\ SetupDelivers
  BY DEF Init, Written, SetupDelivers, Started

LEMMA WrittenStep ==
  ASSUME SysInv, Written, NEW c \in Ctxs, sl_sys_setup(c) \/ sl_sys_cleanup(c)
  PROVE  Written' /\ (ret'.call = "setup" /\ ret'.rv = "SL_OK" =>
                        /\ ret'.ctx = c /\ ctx'[c].state = "STARTED" /\ ctx'[c].af)
  <1>0. ctx[c] \in CtxType /\ ctx \in [Ctxs -> CtxType]
    BY DEF SysInv
  <1>1. ASSUME NEW k \in CtxType, NEW n, NEW call, NEW rv, Return(call, c, k, n, rv),
               k.state = "STARTED" => k.af,
               call = "setup" /\ rv = "SL_OK" => k.state = "STARTED"
        PROVE  Written' /\ (ret'.call = "setup" /\ ret'.rv = "SL_OK" =>
                              /\ ret'.ctx = c /\ ctx'[c].state = "STARTED" /\ ctx'[c].af)
    BY <1>0, <1>1 DEF Written, Started, Return
  <1>2. CASE Started(c) /\ Return("setup", c, ctx[c], wsa, "SL_OK")
    BY <1>0, <1>1, <1>2 DEF Written, Started
  <1>3. CASE Return("setup", c, [state |-> "STARTED", af |-> TRUE], Startup, "SL_OK")
    <2> DEFINE k == [state |-> "STARTED", af |-> TRUE]
    <2>1. k \in CtxType /\ k.state = "STARTED" /\ k.af
      BY DEF CtxType, AllStates
    <2>2. Return("setup", c, k, Startup, "SL_OK")
      BY <1>3
    <2> HIDE DEF k
    <2> QED
      BY <1>1, <2>1, <2>2
  <1>4. CASE ~Started(c) /\ Return("setup", c, [ctx[c] EXCEPT !.af = TRUE], wsa, "error")
    <2> DEFINE k == [ctx[c] EXCEPT !.af = TRUE]
    <2>1. k \in CtxType /\ k.af
      BY <1>0 DEF CtxType
    <2>2. Return("setup", c, k, wsa, "error")
      BY <1>4
    <2> HIDE DEF k
    <2> QED
      BY <1>1, <2>1, <2>2
  <1>5. CASE \E n, rv : Return("cleanup", c, [ctx[c] EXCEPT !.state = "STOPPED"], n, rv)
    <2> DEFINE k == [ctx[c] EXCEPT !.state = "STOPPED"]
    <2>1. k \in CtxType /\ k.state = "STOPPED"
      BY <1>0 DEF CtxType, AllStates
    <2>2. PICK n, rv : Return("cleanup", c, k, n, rv)
      BY <1>5
    <2> HIDE DEF k
    <2> QED
      BY <1>1, <2>1, <2>2
  <1>6. CASE \E n, rv : Return("cleanup", c, ctx[c], n, rv)
    <2>1. PICK n, rv : Return("cleanup", c, ctx[c], n, rv)
      BY <1>6
    <2> QED
      BY <1>0, <1>1, <2>1 DEF Written, Started
  <1> QED
    BY <1>2, <1>3, <1>4, <1>5, <1>6 DEF sl_sys_setup, sl_sys_cleanup

LEMMA DeliversNext ==
  SysInv /\ Written /\ SetupDelivers /\ [Next]_sysvars => Written' /\ SetupDelivers'
  <1> SUFFICES ASSUME SysInv, Written, SetupDelivers, [Next]_sysvars
               PROVE  Written' /\ SetupDelivers'
    OBVIOUS
  <1>1. CASE UNCHANGED sysvars
    BY <1>1 DEF sysvars, Written, SetupDelivers, Started, StackUp
  <1>2. CASE Next
    <2>1. PICK c \in Ctxs : sl_sys_setup(c) \/ sl_sys_cleanup(c)
      BY <1>2 DEF Next
    <2>2. SysInv'
      BY <2>1, SysStep
    <2>3. StackKept'
      BY <2>2, StartedKeepsStack, PTL
    <2> QED
      BY <2>1, <2>3, WrittenStep DEF SetupDelivers, StackKept, Started
  <1> QED
    BY <1>1, <1>2

\* With contexts that were zeroed, a setup that returns SL_OK, the first or a
\* repeated one, leaves its context started with the families written and the
\* stack up, whatever other contexts were cleaned up or failed in between.
THEOREM SetupSafe == StaleStates \subseteq {"STOPPED"} /\ Spec => []SetupDelivers
  BY SysInit, SysNext, WrittenInit, DeliversNext, PTL DEF Spec
=============================================================================
