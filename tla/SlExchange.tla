----------------------------- MODULE SlExchange -----------------------------
(***************************************************************************)
(* A program over the whole library: UDP_SocketSendRecv_Blocking of        *)
(* Tests/Editor/SLIntegration.cs.  One thread sets a context up, opens a   *)
(* server and a client, sends a datagram each way over the loopback and    *)
(* compares what arrives; in its finally block it closes and cleans up     *)
(* everything once more.  A call or a comparison that fails goes straight  *)
(* to the finally block.  The host opens and closes files meanwhile.       *)
(*                                                                         *)
(* The two endpoints the test receives into are one here, ep: it starts    *)
(* zeroed, as both of them do, and all addresses are IPv4.  The byte       *)
(* arrays are taken to stay where they were when their addresses were      *)
(* taken: the test pins them only for that moment.                         *)
(***************************************************************************)
EXTENDS Integers, Sequences

CONSTANTS Server, Client, MaxFd, Host, None, Pinned, Winsock, CloseMayFail, Context

VARIABLES sock, desc, last, aborted,       \* of SlSock
          ctx, wsa, ret,                   \* of SlSys
          sent, flight, queue, ep, got,    \* of SlDatagram
          pc,       \* the next call of the test
          failed    \* why it went to its finally block, if it did

vars == <<sock, desc, last, aborted, ctx, wsa, ret, sent, flight, queue, ep, got, pc, failed>>

Socks == {Server, Client}
ServerPort == 51343
ClientPort == 51343 + 256    \* _port + 1, where _port is in network order
Payload == [s \in Socks |-> IF s = Server THEN 1235 ELSE 256]
Memory == 1408

LIB == INSTANCE SlSystem WITH
  Ports <- {ServerPort, ClientPort}, Asserts <- TRUE, Rules <- {},
  Ctxs <- {Context}, StaleStates <- {"STOPPED"}
DG == INSTANCE SlDatagram WITH
  Ports <- {ServerPort, ClientPort}, Asserts <- TRUE, Rules <- {}, net <- LIB!SYS!StackUp,
  Lens <- {256, 1235}, Caps <- {Memory}, Network <- {}, QueueMax <- 1, MaxSends <- 2

ASSUME SlExchangeAssumption ==
  Server # Client /\ LIB!SlSystemAssumption /\ DG!SlDatagramAssumption

sysvars == <<ctx, wsa, ret>>
Peer(s) == IF s = Server THEN Client ELSE Server
EndpointOf == [s \in Socks |->
  [af |-> "v4", port |-> IF s = Server THEN ServerPort ELSE ClientPort]]

Init ==
  /\ LIB!Init /\ DG!Init
  /\ \A s \in Socks : sock[s].endpoint = EndpointOf[s]
  /\ pc = "setup" /\ failed = "no"

-----------------------------------------------------------------------------
(* The test.                                                               *)

\* As if there were no finally block.                    (mutant of Otherwise)
OtherwiseEnds(why) == pc' = "end" /\ failed' = why
Otherwise(why) == pc' = "finally server" /\ failed' = why

\* Assert.True(ok): on to the next call, or to the finally block.
Then(ok, next, why) ==
  \/ ok /\ pc' = next /\ UNCHANGED failed
  \/ ~ok /\ Otherwise(why)

CallOk == last'.rv = "SL_OK"

\* The context is set up before the try block.
Setup ==
  /\ pc = "setup"
  /\ LIB!socklynx_setup(Context) /\ DG!Drained
  /\ \/ ret'.rv = "SL_OK" /\ pc' = "open server" /\ UNCHANGED failed
     \/ ret'.rv # "SL_OK" /\ pc' = "end" /\ failed' = "call"

Open(s, at, next) ==
  /\ pc = at
  /\ UNCHANGED sysvars
  /\ DG!SOCK!socklynx_socket_open(s) /\ DG!Drained
  /\ Then(CallOk, next, "call")

Send(s, at, next) ==
  /\ pc = at
  /\ UNCHANGED sysvars
  /\ DG!sl_sock_send(s, Payload[s], DG!AsGiven(EndpointOf[Peer(s)]))
  /\ Then(CallOk, next, "call")

\* The length, the payload and the sender's endpoint, but for its family, are
\* compared.
Matches(s) ==
  /\ CallOk
  /\ got'.n = Payload[Peer(s)]
  /\ sent[got'.id].by = Peer(s)
  /\ [ep' EXCEPT !.af = "v4"] = DG!AsGiven(EndpointOf[Peer(s)])

Recv(s, at, next) ==
  /\ pc = at
  /\ UNCHANGED sysvars
  /\ DG!RecvTakes(s, Memory)
  /\ Then(Matches(s), next, IF CallOk THEN "compare" ELSE "call")

\* A receive that is interrupted.
Interrupted(s, at) ==
  /\ pc = at
  /\ UNCHANGED sysvars
  /\ DG!RecvFails(s)
  /\ Otherwise("call")

Close(s, at, next) ==
  /\ pc = at
  /\ UNCHANGED sysvars
  /\ DG!SOCK!socklynx_socket_close(s) /\ DG!Drained
  /\ Then(CallOk, next, "call")

Cleanup ==
  /\ pc = "cleanup"
  /\ LIB!socklynx_cleanup(Context) /\ DG!Drained
  /\ Then(ret'.rv = "SL_OK", "finally server", "call")

\* The finally block looks at no result.
FinallyClose(s, at, next) ==
  /\ pc = at
  /\ UNCHANGED sysvars
  /\ DG!SOCK!socklynx_socket_close(s) /\ DG!Drained
  /\ pc' = next /\ UNCHANGED failed

FinallyCleanup ==
  /\ pc = "finally cleanup"
  /\ LIB!socklynx_cleanup(Context) /\ DG!Drained
  /\ pc' = "end" /\ UNCHANGED failed

Thread ==
  \/ Setup
  \/ Open(Server, "open server", "open client")
  \/ Open(Client, "open client", "client sends")
  \/ Send(Client, "client sends", "server receives")
  \/ Recv(Server, "server receives", "server sends")
  \/ Send(Server, "server sends", "client receives")
  \/ Recv(Client, "client receives", "close server")
  \/ Close(Server, "close server", "close client")
  \/ Close(Client, "close client", "cleanup")
  \/ Cleanup
  \/ FinallyClose(Server, "finally server", "finally client")
  \/ FinallyClose(Client, "finally client", "finally cleanup")
  \/ FinallyCleanup

Signal ==
  \/ Interrupted(Server, "server receives")
  \/ Interrupted(Client, "client receives")

Arrival == UNCHANGED <<sysvars, pc, failed>> /\ \E i \in flight : DG!Deliver(i)

HostFiles ==
  /\ UNCHANGED <<sysvars, pc, failed>>
  /\ DG!SOCK!HostOpen \/ DG!SOCK!HostClose
  /\ DG!Drained

Next == Thread \/ Signal \/ Arrival \/ HostFiles

\* The thread runs on, and the loopback delivers: nothing else is fair.  In
\* particular no signal need come to a receive that waits.
Spec == Init /\ [][Next]_vars /\ WF_vars(Thread) /\ WF_vars(Arrival)

-----------------------------------------------------------------------------
(* Properties.                                                             *)

\* The test ends, whatever fails on the way: no receive waits for a datagram
\* that will never come.
Ends == <>(pc = "end")

\* Why it ends: while a receive waits, its datagram is in the queue of its
\* socket, or on its way, to be delivered there and nowhere else; no assert of
\* sl_sock_send or sl_sock_recv has stopped the process.
Waits(s) == pc = IF s = Server THEN "server receives" ELSE "client receives"
Awaited ==
  \A s \in Socks : Waits(s) =>
    LET f == sock[s].fd IN
    /\ ~aborted
    /\ \/ queue[f] # <<>>
       \/ \E i \in flight : DG!Receivers(sent[i]) = {f}

\* When it has ended no socket is left open, whichever call failed.
EndsClean == pc = "end" => \A f \in DG!SOCK!Fds : desc[f].owner \notin Socks

\* The test fails only when a call fails: what is received is what the other
\* side sent, whole, from the endpoint of its struct.
ReceivesWhatWasSent == failed # "compare"
=============================================================================
