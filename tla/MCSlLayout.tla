----------------------------- MODULE MCSlLayout -----------------------------
(* SlLayout for TLC: the toolchains of the platforms the project names, and*)
(* its user macros.                                                        *)
EXTENDS SlLayout

Tool(macros, ptr, long, align8, word, int64, api, sa_len) ==
  [macros |-> macros, ptr |-> ptr, long |-> long, align8 |-> align8, word |-> word,
   int64 |-> int64, api |-> api, sa_len |-> sa_len]

\* The last one is not in common.h's list of 64 bit targets.
Windows == {
  Tool({"_WIN32", "_MSC_VER", "_M_IX86"}, 4, 4, 8, "int", "long long", "WINSOCK", FALSE)} \cup {
  Tool({"_WIN32", "_WIN64"} \cup arch, 8, 4, 8, "long long", "long long", "WINSOCK", FALSE) :
    arch \in {{"_MSC_VER", "_M_AMD64"}, {"__GNUC__", "__x86_64__"}, {"_MSC_VER", "_M_ARM64"}}}

\* arm and arm64 Linux and Android, x86, x64, riscv64, and x64 with short pointers.
LinuxTool(arch, ptr, align8) ==
  Tool({"__linux__", "__unix__", "__GNUC__"} \cup arch, ptr, ptr, align8,
       IF ptr = 8 THEN "long" ELSE "int", IF ptr = 8 THEN "long" ELSE "long long", "POSIX", FALSE)

Linux ==
  {LinuxTool(arch, 8, 8) : arch \in {{"__x86_64__"}, {"__aarch64__"}, {"__riscv"},
                                    {"__aarch64__", "__ANDROID__"}}} \cup
  {LinuxTool(arch, 4, 8) : arch \in {{"__arm__"}, {"__arm__", "__ANDROID__"},
                                    {"__x86_64__", "__ILP32__"}}} \cup
  {LinuxTool({"__i386__"}, 4, 4)}

Apple == {
  Tool({"__APPLE__", "TARGET_OS_MAC", "__GNUC__", "__clang__"} \cup target, 8, 8, 8,
       "long", "long long", "POSIX", TRUE) :
    target \in {{"__x86_64__"}, {"__aarch64__", "TARGET_OS_IPHONE"},
                {"__x86_64__", "TARGET_OS_IPHONE", "TARGET_IPHONE_SIMULATOR"}}}

WindowsAndLinux == Windows \cup Linux

ASSUME AllRecognised == \A t \in WindowsAndLinux \cup Apple : Recognised(t)

UserMacros == {"SL_FORCE_64", "SL_FORCE_32", "SL_C_MISSING_STDINT", "SL_SKIP_STATIC_ASSERT",
               "SL_FORCE_PLATFORM_NONE", "SL_FORCE_PLATFORM_PS4", "SL_FORCE_PLATFORM_XBONE",
               "SL_FORCE_PLATFORM_SWITCH", "SL_FORCE_C_NONE"}
=============================================================================
