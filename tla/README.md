# socklynx in TLA+

socklynx is a thin C library (header-only, `include/socklynx/`) that gives
managed code, through the exports of `src/socklynx/socklynx_plugin.c` and the
C# facade in `UnityProject/Assets/SockLynx/Scripts/`, one UDP socket API over
POSIX and Winsock. It keeps almost no state of its own: what can go wrong is the
agreement between three places that each hold a part of the truth, namely the
struct in the caller's memory, the descriptor table and network stack of the
process, and the peer at the other end of the network. The modules here model
those three and the calls that move them.

## The system

| Component | State | Operations | Meets the others through |
| --- | --- | --- | --- |
| contexts, `sys.h` | `sl_sys_t`: STOPPED/STARTED, the two address families; Winsock's startup count (process-wide) | `sl_sys_setup`, `sl_sys_cleanup` | the network stack: without it `socket()` fails, and the last `WSACleanup` drops every open socket |
| socket life cycle, `sock.h` | `sl_sock_t`: fd, state, error, flags, endpoint; the descriptor it refers to | `sl_sock_create`, `sl_sock_bind`, `sl_sock_close`, `sl_sock_blocking_set`, `sl_sock_nonblocking_set`; `socklynx_socket_open` is create and bind | the descriptor table, shared with everything else in the process |
| datagrams, `sock.h` | nothing in the struct but `error`; the kernel's queues; the caller's buffers and endpoints | `sl_sock_send`, `sl_sock_recv` | the network; the endpoint a receive fills in is the one an answer is sent to |
| endpoints and buffers, `endpoint.h`, `buf.h` | a union of `sockaddr_in`- and `sockaddr_in6`-like structs; the same layout as `iovec` / `WSABUF` | accessors | cast to the kernel's types, and mirrored field by field in C# |
| C# mirror, `Native.cs`, `SockLynx.cs` | explicit layouts of the same structs | P/Invoke, `Endpoint.NewV4/NewV6`, `Socket.NewUDP` | pointers to its structs are passed to the C functions unconverted |
| byte utilities, `Util.cs` | none | `HtoN`/`NtoH`, `MemCpy`, `MemSet`, `MemCmp` | ports and IPv6 addresses go through `HtoN`; the tests compare with `MemCmp` |
| error macros, `error.h` | none | `SL_GUARD`, `SL_ASSERT` (compiled out on some platforms) | decides whether a call in the wrong state ends the process or goes on |
| loadgen, server | none | empty `main` | nothing |

What is hard here:

* *Partial failure.* `socklynx_socket_open` is three system calls. A failed
  `setsockopt` leaves a live descriptor in a struct that is still NEW; a failed
  `bind` leaves it CREATED. What the caller may do next is decided by asserts
  that may not be compiled in.
* *Stale descriptors.* Descriptors are small integers that the kernel reuses at
  once, and a closed struct is marked by `fd = 0`, which on POSIX is a valid
  descriptor of somebody else.
* *Shared process state.* Winsock's startup count is shared by contexts that know
  nothing of each other, and stopping it invalidates structs that know nothing of
  contexts.
* *The network.* Loss, duplication, reordering and truncation, dual-stack sockets
  that see IPv4 peers under IPv6 names, and receives that wait for ever.

## Modules

| Module | Models |
| --- | --- |
| `SlSock` | the life cycle of the structs against the descriptor table; one action per call, with every way it can return |
| `SlSock_proofs` | theorems about `SlSock` |
| `SocketLife` | abstract: what the library promises of a socket, without descriptors |
| `SlSockLife` | the refinement mapping from `SlSock` to `SocketLife` |
| `SlSockLife_proofs` | the refinement proved, the theorem about `SocketLife`, and the theorems about `SlSock` that need or follow from them |
| `MCSlSock` | `SlSock` and `SlSockLife` for TLC, with symmetry |
| `SlSys` | contexts and Winsock's count |
| `SlSys_proofs` | theorems about `SlSys` |
| `SlSystem` | `SlSys` and `SlSock` in one process |
| `SlSystem_proofs` | theorems about contexts and sockets together |
| `MCSlSystem` | symmetry for TLC |
| `SlLayout` | the structs of a build as C, C# and the kernel lay them out |
| `SlLayout_proofs` | theorems about `SlLayout` |
| `MCSlLayout` | toolchains and user macros for TLC |
| `SlDatagram` | send and receive over `SlSock`'s sockets, with queues and a network |
| `SlDatagram_proofs` | theorems about `SlDatagram` |
| `MCSlDatagram` | initial endpoints and bounds for TLC |
| `SlExchange` | the integration test as a program over all of the above, with liveness |
| `SlExchange_proofs` | theorems about `SlExchange` |
| `SlBytes` | the algorithms of `Util.cs` |
| `SlBytes_proofs` | theorems about `SlBytes` |

`SlSockLife` extends `SlSock` and instantiates `SocketLife`. `SlSystem`
instantiates `SlSys` and `SlSock`, with `net` replaced by "the count
is not zero". `SlDatagram` instantiates `SlSock`. `SlExchange` instantiates
`SlSystem` and `SlDatagram`.

### SlSock

`sock[s]` is the struct `s`; `desc[f]` is what descriptor `f` refers to: who
opened it (a struct, the *host*, that is the rest of the process, or nobody),
the address it is bound to, whether it is nonblocking and whether it is
IPv6-only. `last` is the last caller and its result, `aborted` says an
`SL_ASSERT` failed. A call is one action from entry to return: the system calls
inside it cannot be observed in between by a caller that uses one struct from
one thread, and other threads' calls on other structs only meet it in the kernel,
where each system call takes what is free at that moment.

The host opens and closes descriptors of its own at any time; those in `Pinned`
it keeps (its stdin, descriptor 0). `NetStop` and `NetStart` are the last
`WSACleanup` and the next `WSAStartup`; `SlSystem` replaces them by real contexts.

Modelling choices:

* An endpoint is a family and a port. Addresses are left out, and two of a family
  are taken to overlap, as the wildcard and loopback addresses in use do.
* `socket()` and `open()` return the lowest free descriptor on POSIX and any
  unused nonzero handle on Winsock. `socket()` with family 0 fails on POSIX;
  Winsock may choose a family.
* Any system call may fail at any time, the switch of an open socket's mode
  included. A `close()` that fails leaves the
  descriptor open. (Linux releases it even then, but for a datagram socket it
  cannot fail there.)
* The kernel, the network, Winsock's count and the rest of the process are not
  code of this repository: they are modelled from how the code uses them and
  are marked external in `PROJECT.json`.

What a caller may do is a set of usage rules, `Rules`:

| Rule | The caller | Needed because |
| --- | --- | --- |
| `close` | does not close a struct whose fd is 0 | on POSIX `close(0)` succeeds and closes the host's descriptor |
| `open` | creates only a NEW or CLOSED struct with fd 0, binds only a CREATED one | create overwrites the fd of a failed create, and its assert is not always there |
| `nonblocking` | switches only an open struct | on POSIX a switch of a struct without socket hits descriptor 0 and sets a flag that the next socket does not have |
| `stop` | does not stop Winsock while sockets are open | structs would keep handles that Winsock may give out again |

None is enforced by the code, but where the asserts are compiled in
(`SL_ASSERT`) create stops the process on a struct that is neither NEW nor CLOSED
and bind on one that is not CREATED; a struct whose create failed half way is
still NEW and passes. `sock_posix` has the asserts compiled out and the caller keep
`open`; `sock_winsock` has them in and the caller keep no rule but `stop`. The runs
and the theorems say which property needs which rule, and the runs with an
expected violation drop one.

### SocketLife and SlSockLife

`SocketLife` has one variable that changes, `life[s]`: there is no socket in
struct `s`, or a half made one (a create whose `setsockopt` failed), or one that
is CREATED or BOUND, with the address it got and its mode. Nothing in it can be
hit by anybody else, because there are no descriptors and no host. `SlSockLife`
computes `life` from the struct (`Stage`) and from what the kernel has under its
descriptor (`Life`), so the refinement says that the struct, the kernel's table
and the reuse of descriptors together behave as one socket per struct. It holds
for a caller that keeps the usage rules.

### SlSys

One action for each of `sl_sys_setup` and `sl_sys_cleanup`, with the early
returns on STARTED and STOPPED and with failures of Winsock. `StaleStates` is
what the state of a context may hold before its first call: only STOPPED when
the caller zeroes it (as the C# code does), anything when it is an uninitialised
local (as in `test_api.c`).

### SlDatagram

A datagram is an index into the history `sent`; it is in `flight`, then in the
`queue` of a descriptor, and is taken by a receive. Which descriptor it is
delivered to is decided on arrival, so it may reach a socket that was opened
after it was sent. `Network` says what else may happen to it: nothing on the
loopback but being dropped by a full queue, or `loss`, `dup` and `reorder`.

`ep` is one `sl_endpoint_t` that the caller uses for every receive. A receive on
an IPv4 socket writes the first 16 of its 28 bytes, and `msg_namelen` is not
handed back, so the tail keeps what an earlier receive left there. A dual-stack
socket names an IPv4 sender by an IPv4-mapped IPv6 address, which differs from a
native one only in that tail.

A receive into buffers that are too short is cut on POSIX (`msg_flags` is not
looked at) and fails and consumes the datagram on Winsock. A receive on a
blocking socket is an action that is not enabled while the queue is empty, but it
may fail at any time (a signal, `WSAECONNRESET`).

### SlExchange

The program is `UDP_SocketSendRecv_Blocking` of `SLIntegration.cs`: `pc` is the
next call, `failed` says whether a call or a comparison failed. The finally block
closes and cleans up everything again whatever happened; it looks at no result.
The arrays whose addresses are put into buffers are pinned only while the address
is taken; the model takes them not to move, as with the collector of Unity.
Server and client are different structs, and the assumptions of `SlSystem` and
`SlDatagram` are its own. `Ends` says that the test ends, and `Awaited` why no
receive keeps it from that: while one waits, its datagram is in the queue of its
socket, or on its way and to be delivered there and nowhere else.

`test_integration.c` makes the same calls in C, but is not modelled, as its
comparisons do not say what the test is after (the macros are those of
aws-c-common). `ASSERT_TRUE(memcmp(...))` at lines
108, 109 and 114 holds when the bytes *differ*, where line 113, `ASSERT_SUCCESS`,
holds when they are equal. Line 108 compares the client's payload over the length
of the server's. In lines 109 and 114 `&ep_client + 2` moves by two endpoints and
not by two bytes, so that both operands lie beyond the objects they name.
What they are after, that the payload and the sender's endpoint arrive, is
`ReceivesWhatWasSent`, as the C# test states it.

### SlLayout

Nothing converts between the structs of C, C# and the kernel: a pointer is
passed, and memory that one side wrote is read by the other. A behaviour is a
build (a toolchain and the `SL_*` macros a user defined), then one struct written
by one side and read by another. `common.h` decides in the order of its `#if`
chains: platform, socket API, compiler, word size, and the typedefs that stand in
for `stdint.h`. Those are of the type that the socket headers of the system give
`size_t`, `intptr_t` and `int64_t`, or the compiler stops: on 32-bit Linux and
Android `size_t` is an `int` there, so `SL_C_MISSING_STDINT` cannot be built with
(`StandInsAgree`). `Struct` lays fields out as a C compiler does: `Ends` goes through
them in order and puts each at the next place aligned for it. The C# structs are
the explicit offsets of `Native.cs`, except for `Buffer`, which is sequential.
`Written` and `ReadFrom` are the memory of a struct that was filled in, and its
fields as the other side reads them there.
A byte of memory is the name of the field it was written as and its place there,
so a byte read as part of anything else shows. A build that a static assert, an
`#error`, a conflicting typedef or a missing socket type stops is `rejected`.
`Recognised` says that a compiler predefines the name of its platform, and nothing
of its architecture; `MCSlLayout` has TLC check it of every toolchain it lists,
among them Windows on ARM64, RISC-V and x64 with 4-byte pointers, on which
the list of `SL_64` is wrong.

All platforms are little endian. `SL_IPV6_ENABLED` is taken to be defined, as
`Native.cs` defines it; without it `Endpoint` does not compile. C# scripts are
taken to be built for the platform they run on: the .NET build defines
`SL_SOCK_API_WINSOCK` on Windows (`Directory.Build.props:19-21`).

### SlBytes

A byte is a set of bits and an integer a function from lanes to bytes, so that
shifts, masks and sign extension are exact at every width. `MemCpy`, `MemSet` and
`MemCmp` take one step for each word of 8 bytes and each word of the tail
(`WordAt`), in the order of the code, and a step reads its whole word before it
writes: that matters where the words of a tail, or source and destination,
overlap.

## Runs

| Run | Checks | Bounds |
| --- | --- | --- |
| `sock_posix` | types, ownership, binding, no leak, flags, port exclusion, failures that name no error, isolation; `SlSock` implements `SocketLife` | 2 structs, ports 0, 1, 2, descriptors 0..3 of which the host keeps 0; all rules, asserts compiled out; deadlock checked |
| `sock_winsock` | ownership, binding, ports held by BOUND structs only, isolation, harmless repeated close, with rule `stop` only | 2 structs, port 1, handles 1..3, asserts compiled in |
| `system` | no socket is left once every context is stopped; sockets survive the cleanup of other contexts | 2 structs, 2 contexts, port 1, handles 1 and 2; rules `open` and `nonblocking`, so Winsock is stopped under open sockets and its handles are given out again |
| `contexts` | Winsock's count is exact; a setup that succeeds delivers | 3 zeroed contexts |
| `datagram` | answers reach the sender; the sender is recognised | 2 structs on different ports, any families, 2 datagrams of size 2, queues of 1, buffers of size 1 and 2, a network that loses, duplicates and reorders |
| `exchange` | the test ends, no receive of it waits in vain, it ends clean, and compares unequal only after a failed call | Winsock, one context, real sizes and ports |
| `bytes` | `MemCpy`, `MemCmp`, `MemSet`, `HtoN` against their byte-wise definitions | every length and position in 24 cells, integers of 4 byte values |
| `layout` | every field is read as it was written, between C, C# and the kernel; no build is rejected that is told its word size | MSVC on x64, x86 and ARM64, MinGW, Linux on x64, ARM64, RISC-V, x86, ARM and x64 with 4-byte pointers, Android; nine user macros in every combination |
| `repeated_close` | violation: on POSIX a second close closes descriptor 0 | as `sock_posix`, rule `open` only, asserts compiled in |
| `ipv4_flag` | violation: `IPV4_DISABLED` is set on a socket that serves IPv4 | as `sock_posix`, asserts compiled in |
| `stale_context` | violation: setup of a context that holds garbage may do nothing and succeed | 1 context |
| `layout_apple` | violation: on Apple platforms an endpoint is not read as it was written | OSX, iOS and its simulator; no user macro |

*Why the bounds are enough.* Calls relate at most two structs and one descriptor
each, so two structs and one descriptor more than they can hold between them
show every reuse: a struct's old descriptor taken by the other struct, or by the
host. Ports 1 and 2 and the wildcard 0 give equal, different and
chosen ports. The descriptor limit is reached, so `socket()` also fails for
lack of descriptors. Two datagrams are a question and an answer, or two answers
that cross; a queue of one overflows. In 24 cells, lengths go through three whole
words and all tails, and copies overlap in every possible way. In `layout` every
macro meets every other: those that force a word size, platform or compiler, and
those that remove a check or a header. Structs and contexts are interchangeable, which
`MCSlSock`, `MCSlSystem` and `MCSlDatagram` use. `datagram` does not follow
behaviours in which a struct was switched to nonblocking
(`BlockingOnly`): that only decides when a receive may fail, and there it may
fail at any time.

*Deadlock.* It is checked in `sock_posix` and the violation runs. The others may
really stop: where a caller is not bound by the rules an `SL_ASSERT` ends the
process, `exchange` and `bytes` are programs that end, and `layout` and
`layout_apple` end with a rejected build or a struct that was read.

*Fairness.* Only `SlExchange` states any: `WF_vars(Thread)`, as one thread runs
the test and is scheduled, and `WF_vars(Arrival)`, as the loopback delivers. A
signal that interrupts a receive is not fair: the test must not need one to end.
No fairness is assumed of the host. With a network that loses datagrams the test
would wait for ever, which is what a blocking receive does; hence the loopback.

## Findings

* `sl_sock_close` does not look at the state of the struct and marks it closed by
  `fd = 0` (`sock.h:170-184`). On POSIX closing it again, which the tests do in
  their finally blocks, closes descriptor 0 of the process
  (`repeated_close`). On Winsock 0 is no handle and the close just fails.
* `sl_sock_create` clears `IPV6_V6ONLY`, which enables IPv4 on the socket, and
  sets `SL_SOCK_FLAG_IPV4_DISABLED` (`sock.h:160-163`, `ipv4_flag`).
* `sl_sys_setup` reads `sys->state` before anything wrote it, and the C tests
  pass an uninitialised context (`stale_context`).
* Addresses on Apple's platforms begin with a length byte. The C structs have it
  on OSX but not on iOS (`endpoint.h:29-43`), the C# ones on neither
  (`Native.cs:172`, `layout_apple`).

Met while modelling, but claimed otherwise by no text of the repository: negative
`short` and `int` patterns of `MemSet` are sign-extended into their neighbours;
`MemCpy` within one array is wrong for moves down by 1 or 2 bytes.
`README.md:11` says that a platform should be auto-detected, and asks for an
issue where a build fails: with no macro defined, `buf.h`'s static assert stops a
build for Windows on ARM64 (`_M_ARM64` is not in the list of `SL_64`), for
RISC-V, and for x64 with 4-byte pointers; `SL_FORCE_64` or `SL_FORCE_32` cures each
(`WordSizeForced`). `SL_C_MISSING_STDINT` cures nothing on 32-bit POSIX.

## Proofs

All theorems hold for any set of structs, ports and contexts (the contexts
finite), any descriptor limit, with or without asserts (those about datagrams
need them), on both platforms, for any size of memory and any compilers and user
macros, under the assumptions named in the modules. What the caller, or the
build, is assumed to do is a hypothesis of each theorem.

| Theorem | Shows | Of a caller that, or where |
| --- | --- | --- |
| `TypeCorrect` | `TypeOK` | does anything |
| `OwnershipSafe` | `DescriptorOwned` | (`SafeCaller`) keeps `close` on POSIX, where the host keeps descriptor 0, and `stop` on Winsock |
| `IsolationSafe` | `Isolation` | (`IsolatedCaller`) keeps `nonblocking` on POSIX as well |
| `NoLeakSafe` | `NoLeak` | (`TidyCaller`) keeps `open` as well |
| `BoundSafe` | `BoundAsAsked` | (`CheckedCaller`) is isolated, and keeps `open` or has the asserts compiled in |
| `PortsHeldSafe` | `PortsHeldByBound` | (`CheckedCaller`) |
| `RepeatedCloseSafe` | `RepeatedCloseIsHarmless` | (`SafeCaller`) |
| `FlagsSafe` | `FlagsTrackKernel` | is tidy |
| `SilentFailureSafe` | `SilentFailureNeedsClose` | is tidy |
| `LifeImplemented` | `ImplementsSocketLife` | (`LifeCaller`) is tidy and keeps `nonblocking` on Winsock too |
| `PortSafe` | `PortExclusive` | (`LifeCaller`) |
| `RefCountSafe` | `TypeOK` and `RefCount` of `SlSys` | zeroes its contexts |
| `SetupSafe` | `SetupDelivers` | zeroes its contexts |
| `StoppedSafe` | `StoppedHoldsNoSocket` | zeroes its contexts |
| `SocketsSafe` | `DescriptorOwned` and `NoLeak` in `SlSystem` | is tidy |
| `OutliveSafe` | `SocketsOutliveOtherContexts` | zeroes its contexts |
| `TypeSafe` | `TypeOK` of `SlDatagram` | (`AssertedCaller`) is isolated, with asserts compiled in |
| `ReplySafe` | `ReplyReaches` | (`AssertedCaller`) |
| `SenderSafe` | `SenderRecognised` | (`AssertedCaller`) |
| `AwaitedSafe` | `Awaited` | |
| `ReceivesSafe` | `ReceivesWhatWasSent` | |
| `EndsCleanSafe` | `EndsClean` | `close()` does not fail on an open socket (`~CloseMayFail`) |
| `CopySafe`, `SetSafe`, `CompareSafe` | `CopyExact`, `SetExact`, `CompareExact` | |
| `SwapSafe` | `SwapReverses` | |
| `PatternSafe` | `PatternRepeats` | |
| `ReadSafe` | `ReadAsWritten` | builds for no Apple platform (`NotApple`) |
| `ForceSafe` | `WordSizeForced` | has compilers that say what platform they are for (`Recognised`) |

The argument of `SlSock_proofs`. `DescriptorOwned` is not inductive: nothing in it
keeps `socket()` from returning descriptor 0, and a close of an empty struct from
releasing it. `OwnerInv` adds that descriptor 0 is nobody's socket (the host's on
POSIX, never given out on Winsock) and that an open struct has a nonzero fd.
Then every call changes at most the descriptor its struct holds, or one that was
free (`Own`), and no other struct (`CallFrame`), which is `Isolation` and the frame
condition for the rest: `NoLeak` follows struct by struct from `Holds`, and
`BoundAsAsked` from `Agrees`, which also says that open sockets are not IPv6-only.
`PortsHeldByBound` follows from the same frame and `Agrees`: a port is taken by the
call that makes its struct BOUND, and a struct that has a bound socket is not
created again, as either the caller or the assert sees to. `DownInv` says that a
Winsock that is down has no socket of any struct, whatever the caller does.

`SysInv` of `SlSys_proofs` adds that no context is in a third state, which
`sl_sys_cleanup` would take for a started one and undo a startup it never made.

`SetupDelivers` needs `Written` beside it: a started context has its families, or
else the early return of a second setup would deliver nothing.

The argument of `SlSockLife_proofs`. What a call may do to its own struct and
descriptor is stated once (`Outcome`: it failed and left both as they were, or it
created, half or whole, opened, bound, closed or switched) and `CallOutcome` shows
every action to be one of these. `FlagsSafe` is an induction over outcomes: a
struct's flag and its socket's mode change together (`Tracks`). In the simulation
(`LifeStep`) each outcome is a step of `SocketLife` on that struct; the rest of the
process and calls on other structs leave `Life` of a struct alone (`LifeFrame`);
the one kernel fact needed is that `bind()` gives an address that clashes with
none, which is `Available`. `PortSafe` is not proved on `SlSock` at all:
`Exclusive` is inductive in the abstract specification, and comes down through the
refinement.

The argument of `SlSystem_proofs`. `SlSystem` puts its steps together from those of
`SlSys` and `SlSock`, so a context call is a step of `SlSock`'s `NetStart` or `NetStop` or a
stutter (`SockImplemented`, a lemma), and what `SlSock_proofs` shows of any behaviour of
`SlSock` can be used. `StoppedSafe` combines both sides: with no context started
the count is zero (`StoppedStack`, from `SysInv`), and with a count of zero there
is no socket (`DownInv`). A setup that counts twice breaks the first half: Winsock
stays up after the last cleanup, and with it every socket that was left open.
So does `OutliveSafe`: a context that is started before and after a
call keeps the count above zero at both times (`StackKept`, from `SysInv`), so the
call stops nothing.

The argument of `SlDatagram_proofs`. Neither property is inductive: both speak of
the last receive, but depend on what the kernel was told at a bind and on what was
queued before. `Inv` has three parts. The sockets are as `SlSock_proofs` says
(`SockInv`). A socket keeps the address it has until it is closed (`Steady`), so
whatever waits in a queue still fits the address it was delivered to: an IPv4
socket has IPv4 datagrams only (`QueueInv`). A datagram carries the port its
sender's struct asks for (`HistoryInv`), because a bound struct is bound as it
asked and the assert of `sl_sock_send` lets only bound ones send. `GotInv` says
what a receive makes of that in the caller's endpoint, and the theorems follow
from it. The theorems cover Winsock as well, for which `datagram` has no run.

The argument of `SlExchange_proofs`. The test does not keep the usage rules: it
closes twice, whatever happened, and on POSIX its second close hits descriptor 0. Its theorems therefore rest on its own control flow, not on those of
`SlSock_proofs`. `IInv` relates `pc` to everything else. `TypeInv` adds that every
address in the table is that of the struct whose socket has it, which leaves one
receiver for each datagram (`OneReceiver`). `TalkInv` speaks of the time before
the first close: a struct is new and has no socket, or is bound, and holds its
socket at the address it asked for (`OwnInv`, `SidesInv`); and the datagrams are
where the next call needs them, none anywhere or one on its way or in its queue
(`PathInv`). `Awaited` needs all of these: a struct said to be bound whose socket
is not, a second socket at the address, or an older datagram that fills the queue
would leave a receive waiting. `DataInv` says that whatever is in a queue is
the other side's datagram for that address, so no comparison fails. `CloseInv`
(`NoLeak` and `PcInv`) says where in the test no socket of a struct is left; a
close that fails although `close()` does not means that the struct had none
(`CloseFails`). The host opens and closes descriptors meanwhile (`FilesKeeps`).

The argument of `SlBytes_proofs` about integers is lane by lane (`Swap16`,
`Swap32`, `Swap64`; `Repeat8`, `Repeat16`, `Repeat32`): the bytes are arbitrary, so
four of them in the run stand for all 256. About the loops: after `i` words
exactly the bytes below `End(n, i)` are done (`WordCovers`), and a word that goes
over some of them again writes the same bytes (`CopyStep`, `SetStep`). For a copy
within one array that needs the source bytes of every later word to be untouched
so far, which moves down by 3 bytes or more and no smaller ones guarantee: the
overlapping words of a tail go back by up to 3 bytes. `AllCovered` ends the
argument: the words of `n` bytes cover `n` bytes.

The argument of `SlLayout_proofs`. The fields of a declared struct lie one after the
other (`EndsInOrder`, by induction over the fields), so `Struct` is sound
(`StructSound`): no two overlap and all are within it. A field that two sound
layouts put at the same place, with the same size, is read as it was written
(`ReadBack`). It remains to compute the layouts of both sides for every build
(`Addr4Fact`, `Addr6Fact`, `SysFact`, `SockFact`; the C# ones in `Addr4Mirror` and so
on) and to see that they agree (`LayoutsAgree`), where the static asserts are
needed for `sl_sock_t` and `sl_buf_t`: without them an `int64_t` of 4 bytes or a
wrong word size would pass. `ForceSafe` goes through the `#if` chains of `common.h`
for what a compiler may predefine and a user add (`ApiFact`) and shows every reason
to reject a build absent (`CompilesFact`).

The lemma `ExclusiveSafe` is an induction over the steps of `SocketLife`, in the
names of `SlSockLife`'s instance `LIFE`. By itself it says little, as every step
of `SocketLife` that binds is guarded by it; `PortSafe` makes it a statement about
the code.

Every safety property of every passing run is stated by a theorem. Only
model-checked: `Ends` of `SlExchange`, as liveness under fairness is beyond the
prover (`AwaitedSafe` is its safety part), and the violations.

## Not modelled

* How the kernel scatters one datagram over several buffers. That the array of
  buffers is the kernel's array is part of `SlLayout`.
* One struct used from two threads at once: nothing in the code supports it.
* `type`, `proto` and `dir` of a struct: written, never read.
* `SL_API`, `SL_CALL`, `stdbool` and the integer limits of `common.h`: nothing the
  properties speak of depends on them. Platforms without a socket API (PS4,
  Switch): the code has none either, so a build for them is rejected.
* The Unity editor with a build target other than the machine it runs on, where
  `UNITY_STANDALONE_WIN` says nothing about the library.
* `loadgen` and `server`, which are empty, and the build.

## Plan

Done: contexts and sockets, their composition, datagrams, the integration test,
the byte utilities, the layouts, `SocketLife` with its refinement, and proofs of
the safety of all of these. Left:

1. A larger program over the library with two threads, each with its own structs,
   and its `Awaited`: which of the two may wait for the other.
2. What a caller may expect of buffers that are too short, of a retry after a
   failure (`error` is never cleared), and of two threads on one struct.
