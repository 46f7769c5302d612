------------------------------ MODULE SlLayout ------------------------------
(***************************************************************************)
(* The structs socklynx shares with managed code and with the kernel: what *)
(* include/socklynx/common.h selects for a build, the structs buf.h,       *)
(* endpoint.h, sys.h and sock.h then declare, and their mirrors in         *)
(* Scripts/Native.cs.  Nothing converts between them: one side writes its  *)
(* fields into memory and the other reads that memory as its own struct.   *)
(*                                                                         *)
(* A byte of memory is named for the field it was written as and its place *)
(* there, so that a byte read anywhere else shows.  All platforms are      *)
(* little endian.  SL_IPV6_ENABLED is defined in Native.cs, as it must be: *)
(* Endpoint names IPv6 outside its #if.                                    *)
(***************************************************************************)
EXTENDS Integers, Sequences, FiniteSetsExt

CONSTANTS
  Toolchains,  \* compilers and their targets: see ToolType
  Defines,     \* the SL_* macros a user may define for a build
  MaxDefines   \* at most so many of them at once

ToolType ==
  [macros : SUBSET STRING,   \* predefined
   ptr : {4, 8},             \* sizeof(void *)
   long : {4, 8},            \* sizeof(long)
   align8 : {4, 8},          \* alignment of an integer of 8 bytes
   word : {"int", "long", "long long"},   \* its headers' size_t and intptr_t
   int64 : {"long", "long long"},         \* its headers' int64_t
   api : {"WINSOCK", "POSIX"},
   sa_len : BOOLEAN]         \* sockaddr begins with its length, as in BSD

ASSUME SlLayoutAssumption ==
  /\ \A t \in Toolchains : t.ptr \in {4, 8} /\ t.long \in {4, 8} /\ t.align8 \in {4, 8}
  /\ \A t \in Toolchains : t.api \in {"WINSOCK", "POSIX"} /\ t.sa_len \in BOOLEAN
  /\ MaxDefines \in Nat

VARIABLES
  build,   \* the toolchain and the macros that were defined
  phase,   \* what has happened: to the build, then to one shared struct
  shared,  \* the struct, who wrote it and who reads it
  memory,  \* what was written
  seen     \* what was read: the bytes of each field

vars == <<build, phase, shared, memory, seen>>

Builds == {b \in [tool : Toolchains, defines : SUBSET Defines] :
             Cardinality(b.defines) <= MaxDefines}

Init ==
  /\ build \in Builds
  /\ phase = "source"
  /\ shared = <<>> /\ memory = <<>> /\ seen = <<>>

-----------------------------------------------------------------------------
(* common.h.                                                               *)

Macros(b) == b.tool.macros \cup b.defines

\* #if ... #elif: the first of the lines that has a macro of the build.  Only
\* Apple's headers define TARGET_*.
PlatformLines == <<
  [names |-> "NONE", if |-> {"SL_FORCE_PLATFORM_NONE"}],
  [names |-> "PS4", if |-> {"SL_FORCE_PLATFORM_PS4"}],
  [names |-> "XBONE", if |-> {"SL_FORCE_PLATFORM_XBONE"}],
  [names |-> "SWITCH", if |-> {"SL_FORCE_PLATFORM_SWITCH"}],
  [names |-> "WINDOWS", if |-> {"__CYGWIN32__", "WIN32", "_WIN32", "__WIN32__", "_WIN64",
                                "WINAPI_FAMILY"}],
  [names |-> "IOS", if |-> {"TARGET_IPHONE_SIMULATOR", "TARGET_OS_IPHONE"}],
  [names |-> "OSX", if |-> {"TARGET_OS_MAC"}],
  [names |-> "ANDROID", if |-> {"__ANDROID__"}],
  [names |-> "POSIX", if |-> {"__linux__", "__unix__", "_POSIX_VERSION"}]>>

Platform(b) ==
  LET hits == {i \in DOMAIN PlatformLines : PlatformLines[i].if \cap Macros(b) # {}}
  IN  IF hits = {} THEN "none" ELSE PlatformLines[Min(hits)].names

SockApi(b) ==
  CASE Platform(b) \in {"WINDOWS", "XBONE"} -> "WINSOCK"
    [] Platform(b) \in {"POSIX", "OSX", "IOS", "ANDROID"} -> "POSIX"
    [] OTHER -> "none"

SL_C_MSC(b) == "SL_FORCE_C_NONE" \notin Macros(b) /\ "_MSC_VER" \in Macros(b)

\* As if SL_FORCE_64 were not looked at.                      (mutant of SL_64)
SL_64WithoutForce(b) ==
  /\ "SL_FORCE_32" \notin Macros(b)
  /\ Macros(b) \cap {"__x86_64__", "_M_AMD64", "__aarch64__", "__ia64__", "__powerpc64__"} # {}
SL_64(b) ==
  /\ "SL_FORCE_32" \notin Macros(b)
  /\ Macros(b) \cap {"SL_FORCE_64", "__x86_64__", "_M_AMD64", "__aarch64__", "__ia64__",
                     "__powerpc64__"} # {}

\* stdint.h is right; the typedefs that stand in for it build on long.
HasStdint(b) == "SL_C_MISSING_STDINT" \notin Macros(b)
Int64Size(b) == IF ~HasStdint(b) /\ SL_64(b) THEN b.tool.long ELSE 8
WordSize(b) == IF HasStdint(b) THEN b.tool.ptr ELSE b.tool.long   \* size_t, (u)intptr_t

\* The socket headers have defined some of these names by then: size_t and
\* intptr_t, and on POSIX the integers of 8 bytes.  A second typedef must be of
\* the same type, but MSVC only warns of another one that is as wide.
StandInsAgree(b) ==
  \/ "_MSC_VER" \in b.tool.macros /\ b.tool.long = b.tool.ptr
  \/ /\ b.tool.word = "long"
     /\ b.tool.api = "POSIX" => b.tool.int64 = (IF SL_64(b) THEN "long" ELSE "long long")

\* A compiler that predefines what says its platform to everybody, whatever its
\* architecture, and nothing that is the user's to define.
Recognised(t) ==
  /\ t.macros \cap {"SL_FORCE_PLATFORM_NONE", "SL_FORCE_PLATFORM_PS4",
                    "SL_FORCE_PLATFORM_XBONE", "SL_FORCE_PLATFORM_SWITCH", "SL_FORCE_C_NONE",
                    "SL_FORCE_32", "SL_FORCE_64", "SL_C_MISSING_STDINT"} = {}
  /\ t.api = "WINSOCK" => "_WIN32" \in t.macros
  /\ t.api = "POSIX" =>
       /\ t.macros \cap {"__linux__", "__ANDROID__", "__unix__", "TARGET_OS_MAC"} # {}
       /\ t.macros \cap {"_WIN32", "WIN32", "_WIN64", "__WIN32__", "__CYGWIN32__",
                         "WINAPI_FAMILY"} = {}

-----------------------------------------------------------------------------
(* Structs.                                                                *)

Field(name, size, align) == [name |-> name, size |-> size, align |-> align]
Uint(name, size) == Field(name, size, size)

Up(n, align) == align * ((n + align - 1) \div align)

\* Where the fields of a struct end: a C compiler puts each at the next place
\* that is aligned for it.
Ends(decl) ==
  LET end[i \in 0 .. Len(decl)] ==
        IF i = 0 THEN 0 ELSE Up(end[i - 1], decl[i].align) + decl[i].size
  IN  end

\* The layout of a struct with these fields; it is padded at its end.
Struct(decl) ==
  LET end == Ends(decl)
      Place(i) == [at |-> end[i] - decl[i].size, size |-> decl[i].size]
      align == Max({decl[i].align : i \in DOMAIN decl})
  IN  [at |-> [n \in {decl[i].name : i \in DOMAIN decl} |->
                 Place(CHOOSE i \in DOMAIN decl : decl[i].name = n)],
       size |-> Up(end[Len(decl)], align),
       align |-> align]

\* The second struct of an array: sl_sock_send and sl_sock_recv take arrays
\* of buffers.
Second(l) ==
  [at |-> [n \in DOMAIN l.at |-> [at |-> l.at[n].at + l.size, size |-> l.at[n].size]],
   size |-> 2 * l.size]

\* The first fields of a socket address, with and without a length.
Family(len) == IF len THEN <<Uint("len", 1), Uint("af", 1)>> ELSE <<Uint("af", 2)>>
Addr4(len) == Struct(Family(len) \o <<Uint("port", 2), Uint("addr4", 4), Field("pad", 8, 1)>>)
Addr6(len) ==
  Struct(Family(len) \o <<Uint("port", 2), Uint("flowinfo", 4), Field("addr6", 16, 1),
                        Uint("scope_id", 4)>>)

Pointer(b, name) == Uint(name, b.tool.ptr)
Buf(winsock, base, len) == Struct(IF winsock THEN <<Uint("len", 4), base>> ELSE <<base, len>>)
sl_buf_t(b) == Buf(SockApi(b) = "WINSOCK", Pointer(b, "base"), Uint("len", WordSize(b)))

sl_sock_t(b) ==
  LET int64 == Field("fd", Int64Size(b), IF Int64Size(b) = 8 THEN b.tool.align8 ELSE 4)
      endpoint == Addr6(Platform(b) = "OSX")
  IN  Struct(<<int64, Uint("dir", 4), Uint("state", 4), Uint("type", 4), Uint("proto", 4),
               Uint("error", 4), Uint("flags", 4),
               Field("endpoint", endpoint.size, endpoint.align)>>)

Structs == {"addr4", "addr6", "sys", "sock", "buf", "second buf"}

Sys == Struct(<<Uint("state", 4), Uint("af_inet", 2), Uint("af_inet6", 2)>>)

C(b, struct) ==
  CASE struct = "addr4" -> Addr4(Platform(b) = "OSX")
    [] struct = "addr6" -> Addr6(Platform(b) = "OSX")
    [] struct = "sys" -> Sys
    [] struct = "sock" -> sl_sock_t(b)
    [] struct = "buf" -> sl_buf_t(b)

\* [FieldOffset(at)]
Explicit(fields, size) ==
  [at |-> [n \in DOMAIN fields |-> [at |-> fields[n][1], size |-> fields[n][2]]], size |-> size]

\* Scripts of the project are built for the platform they run on, which
\* decides SL_SOCK_API_WINSOCK there.
CSharp(b, struct) ==
  CASE struct = "addr4" -> Explicit([af |-> <<0, 2>>, port |-> <<2, 2>>, addr4 |-> <<4, 4>>], 28)
    [] struct = "addr6" ->
         Explicit([af |-> <<0, 2>>, port |-> <<2, 2>>, flowinfo |-> <<4, 4>>,
                   addr6 |-> <<8, 16>>, scope_id |-> <<24, 4>>], 28)
    [] struct = "sys" ->
         Explicit([state |-> <<0, 4>>, af_inet |-> <<4, 2>>, af_inet6 |-> <<6, 2>>], 8)
    [] struct = "sock" ->
         Explicit([fd |-> <<0, 8>>, dir |-> <<8, 4>>, state |-> <<12, 4>>, type |-> <<16, 4>>,
                   proto |-> <<20, 4>>, error |-> <<24, 4>>, flags |-> <<28, 4>>,
                   endpoint |-> <<32, 28>>], 64)
    [] struct = "buf" -> Buf(b.tool.api = "WINSOCK", Pointer(b, "base"), Pointer(b, "len"))

\* sockaddr_in, sockaddr_in6, and WSABUF or iovec; it knows no other struct.
Kernel(b, struct) ==
  CASE struct = "addr4" -> Addr4(b.tool.sa_len)
    [] struct = "addr6" -> Addr6(b.tool.sa_len)
    [] struct = "buf" -> Buf(b.tool.api = "WINSOCK", Pointer(b, "base"), Pointer(b, "len"))

View(b, who, struct) ==
  CASE who = "C" -> C(b, struct)
    [] who = "C#" -> CSharp(b, struct)
    [] who = "kernel" -> Kernel(b, struct)

Layout(b, who, struct) ==
  IF struct = "second buf" THEN Second(View(b, who, "buf")) ELSE View(b, who, struct)

-----------------------------------------------------------------------------
(* A build, and one struct that two sides share.                           *)

\* As if SL_SKIP_STATIC_ASSERT were always defined.    (mutant of StaticAsserts)
AssertsSkipped(b) == TRUE
StaticAsserts(b) ==
  "SL_SKIP_STATIC_ASSERT" \in Macros(b)
  \/ /\ Int64Size(b) = 8 /\ WordSize(b) = b.tool.ptr
     /\ sl_buf_t(b).size = IF SL_64(b) THEN 16 ELSE 8

\* The socket headers are those of the platform; without a socket API there
\* is no SL_SOCK_TYPE; MSVC without stdint.h is an #error.
Compiles(b) ==
  /\ SockApi(b) = b.tool.api
  /\ ~HasStdint(b) => ~SL_C_MSC(b) /\ StandInsAgree(b)
  /\ StaticAsserts(b)

Compile ==
  /\ phase = "source"
  /\ phase' = IF Compiles(build) THEN "built" ELSE "rejected"
  /\ UNCHANGED <<build, shared, memory, seen>>

Sides(struct) == IF struct \in {"sys", "sock"} THEN {"C", "C#"} ELSE {"C", "C#", "kernel"}

\* What a field holds where its own side reads it.
Value(name, size) == [i \in 0 .. size - 1 |-> <<name, i>>]

\* Memory as large as a struct, when every field the writer knows is filled in.
Holds(l, n, i) == i - l.at[n].at \in 0 .. l.at[n].size - 1
Written(l) ==
  [i \in 0 .. l.size - 1 |->
     IF \E n \in DOMAIN l.at : Holds(l, n, i)
     THEN LET n == CHOOSE n \in DOMAIN l.at : Holds(l, n, i) IN <<n, i - l.at[n].at>>
     ELSE <<"padding", i>>]

\* The fields of a struct, read from memory.
ReadFrom(l, mem) ==
  [n \in DOMAIN l.at |-> [i \in 0 .. l.at[n].size - 1 |->
     IF l.at[n].at + i \in DOMAIN mem THEN mem[l.at[n].at + i] ELSE <<"beyond", i>>]]

Write(struct, by, to) ==
  /\ phase = "built"
  /\ phase' = "shared"
  /\ shared' = [struct |-> struct, by |-> by, to |-> to]
  /\ memory' = Written(Layout(build, by, struct))
  /\ UNCHANGED <<build, seen>>

Read ==
  /\ phase = "shared"
  /\ phase' = "read"
  /\ seen' = ReadFrom(Layout(build, shared.to, shared.struct), memory)
  /\ UNCHANGED <<build, shared, memory>>

Next ==
  \/ Compile
  \/ \E struct \in Structs :
       \E by \in Sides(struct), to \in Sides(struct) : Write(struct, by, to)
  \/ Read

Spec == Init /\ [][Next]_vars

-----------------------------------------------------------------------------
(* Properties.                                                             *)

\* In every build that the static asserts let pass, whatever was forced, each
\* side reads a field as the other wrote it, of its full width: the callers
\* of the library, the library and the kernel mean the same memory.
ReadAsWritten ==
  phase = "read" /\ "SL_SKIP_STATIC_ASSERT" \notin Macros(build) =>
    LET written == Layout(build, shared.by, shared.struct).at IN
    \A n \in DOMAIN written \cap DOMAIN seen :
      seen[n] = Value(n, written[n].size)

\* "These defines can force compliance with exotic platforms" (common.h): on any
\* architecture, known to common.h or not, a build that is told the word size of
\* its target, and whose platform and headers are left as they are, passes
\* every check.  SL_FORCE_32 and SL_FORCE_64 are what to say for it.
WordSizeForced ==
  /\ build.defines \subseteq {"SL_FORCE_32", "SL_FORCE_64", "SL_FORCE_C_NONE",
                             "SL_SKIP_STATIC_ASSERT"}
  /\ build.defines \cap {"SL_FORCE_32", "SL_FORCE_64"} =
       {IF build.tool.ptr = 8 THEN "SL_FORCE_64" ELSE "SL_FORCE_32"}
  => phase # "rejected"
=============================================================================
