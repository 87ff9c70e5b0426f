-------------------------------- MODULE Predef --------------------------------
(******************************************************************************)
(* The C preprocessor at work on include/msgpack/predef.h: the headers that    *)
(* find out the architecture, the C library, the operating system and the byte *)
(* order.  A platform is the macros its compiler defines, the macros its own   *)
(* headers define, what the machine is really like, and what must be found.    *)
(* Left out are the headers whose results nothing here uses: compilers,        *)
(* languages, standard libraries, platforms and the other C libraries.         *)
(*                                                                             *)
(* A macro MSGPACK_X is X here, and detail/os_detected.h defines OS_DETECTED.  *)
(* A macro without a value is 1; #if of an undefined one is 0.                 *)
(******************************************************************************)
EXTENDS Macros, SequencesExt

CONSTANTS Platforms,    \* [macros, headers, ...]
          Early         \* headers a program may include before predef.h

VARIABLES platform,
          first,        \* the header of predef that the program includes first
          macros,       \* what is defined so far, name -> value
          entered,      \* headers whose include guard is defined
          agenda        \* what is left to read, the nearest first

pvars == <<platform, first, macros, entered, agenda>>

-------------------------------------------------------------------------------
(* version_number.h and the decompositions of make.h that are used.            *)
VERSION_NUMBER(major, minor, patch) ==
  (major % 100) * 10000000 + (minor % 100) * 100000 + (patch % 100000)

V(major, minor) == VERSION_NUMBER(major, minor, 0)

AVAILABLE == VERSION_NUMBER(0, 0, 1)
NOT_AVAILABLE == VERSION_NUMBER(0, 0, 0)

MAKE_10_VRP000(v) ==
  VERSION_NUMBER((v \div 100000) % 10, (v \div 10000) % 10, (v \div 1000) % 10)
MAKE_10_VRR000(v) == VERSION_NUMBER((v \div 100000) % 10, (v \div 1000) % 100, 0)
MAKE_10_VV00(v) == VERSION_NUMBER((v \div 100) % 100, 0, 0)
MAKE_10_VVRR(v) == VERSION_NUMBER((v \div 100) % 100, v % 100, 0)
MAKE_10_VVRR00PP00(v) ==
  VERSION_NUMBER((v \div 100000000) % 100, (v \div 1000000) % 100, (v \div 100) % 100)

(* The chain of #if !defined(X) && defined(...): the first entry with a macro  *)
(* that is defined gives the version.                                          *)
Version(m, chain) ==
  LET hits == {i \in DOMAIN chain : AnyDefined(m, chain[i][1])} IN
  IF hits = {} THEN AVAILABLE
  ELSE chain[CHOOSE i \in hits : \A j \in hits : i <= j][2]

(* A header that finds X: not available, or a version when one of its macros   *)
(* is defined.                                                                 *)
Finds(m, X, names, chain) ==
  Define(m, X, IF AnyDefined(m, names) THEN Version(m, chain) ELSE NOT_AVAILABLE)

(* The same for an operating system: the first one that is found is the only   *)
(* one (detail/os_detected.h).                                                 *)
OsDetected(m) == Defined(m, "OS_DETECTED")
Exclude(m, X) == IF Value(m, X) # 0 THEN Define(m, "OS_DETECTED", 1) ELSE m
FindsOs(m, X, names, chain) ==
  IF OsDetected(m) THEN Define(m, X, NOT_AVAILABLE)
  ELSE Exclude(Finds(m, X, names, chain), X)

arch_alpha(m) ==
  Finds(m, "ARCH_ALPHA", {"__alpha__", "__alpha", "_M_ALPHA"},
    <<<<{"__alpha_ev4__"}, V(4, 0)>>, <<{"__alpha_ev5__"}, V(5, 0)>>,
      <<{"__alpha_ev6__"}, V(6, 0)>>>>)
arch_arm(m) ==
  Finds(m, "ARCH_ARM", {"__arm__", "__arm64", "__thumb__", "__TARGET_ARCH_ARM",
                        "__TARGET_ARCH_THUMB", "_M_ARM"},
    <<<<{"__arm64"}, V(8, 0)>>,
      <<{"__TARGET_ARCH_ARM"}, V(Value(m, "__TARGET_ARCH_ARM"), 0)>>,
      <<{"__TARGET_ARCH_THUMB"}, V(Value(m, "__TARGET_ARCH_THUMB"), 0)>>,
      <<{"_M_ARM"}, V(Value(m, "_M_ARM"), 0)>>>>)
arch_blackfin(m) ==
  Finds(m, "ARCH_BLACKFIN", {"__bfin__", "__BFIN__", "bfin", "BFIN"}, << >>)
arch_convex(m) ==
  Finds(m, "ARCH_CONVEX", {"__convex__"},
    <<<<{"__convex_c1__"}, V(1, 0)>>, <<{"__convex_c2__"}, V(2, 0)>>,
      <<{"__convex_c32__"}, V(3, 2)>>, <<{"__convex_c34__"}, V(3, 4)>>,
      <<{"__convex_c38__"}, V(3, 8)>>>>)
arch_ia64(m) ==
  Finds(m, "ARCH_IA64", {"__ia64__", "_IA64", "__IA64__", "__ia64", "_M_IA64",
                         "__itanium__"}, << >>)
arch_m68k(m) ==
  Finds(m, "ARCH_M68K", {"__m68k__", "M68000"},
    <<<<{"__mc68060__", "mc68060"}, V(6, 0)>>,
      <<{"__mc68040__", "mc68040"}, V(4, 0)>>,
      <<{"__mc68030__", "mc68030"}, V(3, 0)>>,
      <<{"__mc68020__", "mc68020"}, V(2, 0)>>,
      <<{"__mc68010__", "mc68010"}, V(1, 0)>>>>)
arch_mips(m) ==
  Finds(m, "ARCH_MIPS", {"__mips__", "__mips", "__MIPS__"},
    <<<<{"__mips"}, V(Value(m, "__mips"), 0)>>,
      <<{"_MIPS_ISA_MIPS1", "_R3000"}, V(1, 0)>>,
      <<{"_MIPS_ISA_MIPS2", "__MIPS_ISA2__", "_R4000"}, V(2, 0)>>,
      <<{"_MIPS_ISA_MIPS3", "__MIPS_ISA3__"}, V(3, 0)>>,
      <<{"_MIPS_ISA_MIPS4", "__MIPS_ISA4__"}, V(4, 0)>>>>)
arch_parisc(m) ==
  Finds(m, "ARCH_PARISC", {"__hppa__", "__hppa", "__HPPA__"},
    <<<<{"_PA_RISC1_0"}, V(1, 0)>>,
      <<{"_PA_RISC1_1", "__HPPA11__", "__PA7100__"}, V(1, 1)>>,
      <<{"_PA_RISC2_0", "__RISC2_0__", "__HPPA20__", "__PA8000__"}, V(2, 0)>>>>)
arch_ppc(m) ==
  Finds(m, "ARCH_PPC", {"__powerpc", "__powerpc__", "__POWERPC__", "__ppc__",
                        "_M_PPC", "_ARCH_PPC", "__PPCGECKO__",
                        "__PPCBROADWAY__", "_XENON"},
    <<<<{"__ppc601__", "_ARCH_601"}, V(6, 1)>>,
      <<{"__ppc603__", "_ARCH_603"}, V(6, 3)>>, <<{"__ppc604__"}, V(6, 4)>>>>)
arch_pyramid(m) == Finds(m, "ARCH_PYRAMID", {"pyr"}, << >>)
arch_rs6k(m) ==
  Finds(m, "ARCH_RS6000", {"__THW_RS6000", "_IBMR2", "_POWER", "_ARCH_PWR",
                           "_ARCH_PWR2"}, << >>)
arch_sparc(m) ==
  Finds(m, "ARCH_SPARC", {"__sparc__", "__sparc"},
    <<<<{"__sparcv9"}, V(9, 0)>>, <<{"__sparcv8"}, V(8, 0)>>>>)
arch_superh(m) ==
  Finds(m, "ARCH_SH", {"__sh__"},
    <<<<{"__SH5__"}, V(5, 0)>>, <<{"__SH4__"}, V(4, 0)>>,
      <<{"__sh3__", "__SH3__"}, V(3, 0)>>, <<{"__sh2__"}, V(2, 0)>>,
      <<{"__sh1__"}, V(1, 0)>>>>)
arch_sys370(m) == Finds(m, "ARCH_SYS370", {"__370__", "__THW_370__"}, << >>)
arch_sys390(m) == Finds(m, "ARCH_SYS390", {"__s390__", "__s390x__"}, << >>)
arch_x86_32(m) ==
  Finds(m, "ARCH_X86_32", {"i386", "__i386__", "__i486__", "__i586__",
                           "__i686__", "__i386", "_M_IX86", "_X86_",
                           "__THW_INTEL__", "__I86__", "__INTEL__"},
    <<<<{"__I86__"}, V(Value(m, "__I86__"), 0)>>,
      <<{"_M_IX86"}, MAKE_10_VV00(Value(m, "_M_IX86"))>>,
      <<{"__i686__"}, V(6, 0)>>, <<{"__i586__"}, V(5, 0)>>,
      <<{"__i486__"}, V(4, 0)>>, <<{"__i386__"}, V(3, 0)>>>>)
arch_x86_64(m) ==
  Finds(m, "ARCH_X86_64", {"__x86_64", "__x86_64__", "__amd64__", "__amd64",
                           "_M_X64"}, << >>)
arch_x86(m) ==
  Define(m, "ARCH_X86", IF Value(m, "ARCH_X86_32") # 0 \/ Value(m, "ARCH_X86_64") # 0
                        THEN AVAILABLE ELSE NOT_AVAILABLE)
arch_z(m) == Finds(m, "ARCH_Z", {"__SYSC_ZARCH__"}, << >>)

library_gnu(m) ==
  Finds(m, "LIB_C_GNU", {"__GLIBC__", "__GNU_LIBRARY__"},
    <<<<{"__GLIBC__"}, V(Value(m, "__GLIBC__"), Value(m, "__GLIBC_MINOR__"))>>,
      <<{"__GNU_LIBRARY__"},
        V(Value(m, "__GNU_LIBRARY__"), Value(m, "__GNU_LIBRARY_MINOR__"))>>>>)

os_aix(m) ==
  FindsOs(m, "OS_AIX", {"_AIX", "__TOS_AIX__"},
    <<<<{"_AIX43"}, V(4, 3)>>, <<{"_AIX41"}, V(4, 1)>>,
      <<{"_AIX32"}, V(3, 2)>>, <<{"_AIX3"}, V(3, 0)>>>>)
os_amigaos(m) == FindsOs(m, "OS_AMIGAOS", {"AMIGA", "__amigaos__"}, << >>)
os_android(m) == FindsOs(m, "OS_ANDROID", {"__ANDROID__"}, << >>)
os_beos(m) == FindsOs(m, "OS_BEOS", {"__BEOS__"}, << >>)
os_haiku(m) == FindsOs(m, "OS_HAIKU", {"__HAIKU__"}, << >>)
os_hpux(m) == FindsOs(m, "OS_HPUX", {"hpux", "_hpux", "__hpux"}, << >>)
os_irix(m) == FindsOs(m, "OS_IRIX", {"sgi", "__sgi"}, << >>)
os_linux(m) == FindsOs(m, "OS_LINUX", {"linux", "__linux"}, << >>)
os_os400(m) == FindsOs(m, "OS_OS400", {"__OS400__"}, << >>)
os_qnxnto(m) ==
  FindsOs(m, "OS_QNX", {"__QNX__", "__QNXNTO__"},
    <<<<{"_NTO_VERSION"}, MAKE_10_VVRR(Value(m, "_NTO_VERSION"))>>,
      <<{"__QNX__"}, V(4, 0)>>>>)
os_solaris(m) == FindsOs(m, "OS_SOLARIS", {"sun", "__sun"}, << >>)
os_vms(m) ==
  FindsOs(m, "OS_VMS", {"VMS", "__VMS"},
    <<<<{"__VMS_VER"}, MAKE_10_VVRR00PP00(Value(m, "__VMS_VER"))>>>>)
os_windows(m) ==
  FindsOs(m, "OS_WINDOWS", {"_WIN32", "_WIN64", "__WIN32__", "__TOS_WIN__",
                            "__WINDOWS__"}, << >>)

(* This header defines OS_CGYWIN: OS_CYGWIN is not even zero afterwards.       *)
os_cygwin(m) ==
  IF OsDetected(m) \/ ~Defined(m, "__CYGWIN__") THEN Define(m, "OS_CYGWIN", NOT_AVAILABLE)
  ELSE Define(Undefine(m, "OS_CYGWIN"), "OS_CGYWIN", AVAILABLE)

Apple(m) == Defined(m, "__APPLE__") /\ Defined(m, "__MACH__")

os_ios(m) ==
  LET iPhone == "__ENVIRONMENT_IPHONE_OS_VERSION_MIN_REQUIRED__" IN
  IF OsDetected(m) \/ ~Apple(m) \/ ~Defined(m, iPhone)
  THEN Define(m, "OS_IOS", NOT_AVAILABLE)
  ELSE Exclude(Define(m, "OS_IOS", m[iPhone] * 1000), "OS_IOS")

(* Mutant: the header does not look whether a system is found already.         *)
os_macosAnyway(m) ==
  IF ~(AnyDefined(m, {"macintosh", "Macintosh"}) \/ Apple(m))
  THEN Define(m, "OS_MACOS", NOT_AVAILABLE)
  ELSE Exclude(Define(m, "OS_MACOS", V(IF Apple(m) THEN 10 ELSE 9, 0)),
               "OS_MACOS")

os_macos(m) ==
  IF OsDetected(m) \/ ~(AnyDefined(m, {"macintosh", "Macintosh"}) \/ Apple(m))
  THEN Define(m, "OS_MACOS", NOT_AVAILABLE)
  ELSE Exclude(Define(m, "OS_MACOS", V(IF Apple(m) THEN 10 ELSE 9, 0)),
               "OS_MACOS")

(* These two are no exclusive systems.                                         *)
os_unix(m) ==
  Finds(Finds(m, "OS_UNIX", {"unix", "__unix", "_XOPEN_SOURCE", "_POSIX_SOURCE"}, << >>),
        "OS_SVR4", {"__sysv__", "__SVR4", "__svr4__", "_SYSTYPE_SVR4"}, << >>)

(* bsd.h leaves OS_BSD alone when the header of one of the BSDs, which it      *)
(* includes before, defined it.  sys/param.h defines BSD4_4 and the like.      *)
os_bsd(m) ==
  LET before == IF Defined(m, "OS_BSD") THEN m ELSE Define(m, "OS_BSD", NOT_AVAILABLE)
      param == DefineAll(before, platform.headers["sys/param.h"])
      found == Define(param, "OS_BSD", Version(param,
                 <<<<{"BSD4_4"}, V(4, 4)>>,
                   <<{"BSD4_3"}, V(4, 3)>>,
                   <<{"BSD4_2"}, V(4, 2)>>,
                   <<{"BSD"}, MAKE_10_VVRR(Value(param, "BSD"))>>>>))
      after == IF OsDetected(m) \/ ~AnyDefined(m, {"BSD", "_SYSTYPE_BSD"})
               THEN before ELSE found
  IN IF Value(after, "OS_BSD") = 0 THEN after
     ELSE Define(Define(after, "OS_BSD_AVAILABLE", 1), "OS_DETECTED", 1)

(* What the headers of the BSDs share: finding one makes OS_BSD available.     *)
BsdAvailable(m) ==
  IF Defined(m, "OS_BSD_AVAILABLE") THEN m
  ELSE Define(Define(m, "OS_BSD", AVAILABLE), "OS_BSD_AVAILABLE", 1)

FindsBsd(m, X, names, chain) ==
  IF OsDetected(m) \/ ~AnyDefined(m, names) THEN Define(m, X, NOT_AVAILABLE)
  ELSE Exclude(Define(BsdAvailable(m), X, Version(m, chain)), X)

bsd_bsdi(m) == FindsBsd(m, "OS_BSD_BSDI", {"__bsdi__"}, << >>)

(* This header defines OS_DRAGONFLY_BSD: only OS_BSD is found.                 *)
bsd_dragonfly(m) ==
  IF OsDetected(m) \/ ~Defined(m, "__DragonFly__")
  THEN Define(m, "OS_BSD_DRAGONFLY", NOT_AVAILABLE)
  ELSE Define(Undefine(BsdAvailable(m), "OS_BSD_DRAGONFLY"), "OS_DRAGONFLY_BSD", AVAILABLE)

(* Versions before 5 have one digit of revision and one of patch level.        *)
Make(v) == IF v < 500000 THEN MAKE_10_VRP000(v) ELSE MAKE_10_VRR000(v)

bsd_free(m) ==
  FindsBsd(m, "OS_BSD_FREE", {"__FreeBSD__"},
    <<<<{"__FreeBSD_version"}, Make(Value(m, "__FreeBSD_version"))>>>>)

bsd_net(m) ==
  FindsBsd(m, "OS_BSD_NET", {"__NETBSD__", "__NetBSD__"},
    IF Defined(m, "__NETBSD__")
    THEN <<<<{"__NETBSD_version"}, Make(Value(m, "__NETBSD_version"))>>>>
    ELSE <<<<{"NetBSD0_8"}, V(0, 8)>>,
           <<{"NetBSD0_9"}, V(0, 9)>>,
           <<{"NetBSD1_0"}, V(1, 0)>>,
           <<{"__NetBSD_Version"}, MAKE_10_VVRR00PP00(Value(m, "__NetBSD_Version"))>>>>)

(* OpenBSD2_0 to OpenBSD4_9.                                                   *)
bsd_open(m) ==
  LET digits == <<"0", "1", "2", "3", "4", "5", "6", "7", "8", "9">>
      Release(major, minor) == "OpenBSD" \o digits[major + 1] \o "_" \o digits[minor + 1]
  IN FindsBsd(m, "OS_BSD_OPEN", {"__OpenBSD__"},
       [i \in 1 .. 30 |->
         LET major == 2 + (i - 1) \div 10
             minor == (i - 1) % 10 IN
         <<{Release(major, minor)}, V(major, minor)>>])

-------------------------------------------------------------------------------
(* other/endian.h: the first of five sources that knows the byte order.        *)
Known(m) == Value(m, "ENDIAN_BIG_BYTE") # 0 \/ Value(m, "ENDIAN_LITTLE_BYTE") # 0
            \/ Value(m, "ENDIAN_LITTLE_WORD") # 0

DefineIf(m, condition, name) == IF condition THEN Define(m, name, AVAILABLE) ELSE m

(* Mutant: which names are defined is taken for the answer.                    *)
ByNumbersDefined(m, prefix) ==
  DefineIf(DefineIf(m, Defined(m, prefix \o "BIG_ENDIAN"), "ENDIAN_BIG_BYTE"),
    Defined(m, prefix \o "LITTLE_ENDIAN"), "ENDIAN_LITTLE_BYTE")

(* The byte order that prefix _BYTE_ORDER names: all of _BIG_ENDIAN and so on  *)
(* are defined, as numbers to compare with.                                    *)
ByNumbers(m, prefix) ==
  LET order == prefix \o "BYTE_ORDER"
      Is(name) == Defined(m, prefix \o name) /\ m[order] = m[prefix \o name]
  IN DefineIf(DefineIf(DefineIf(m,
       Is("BIG_ENDIAN"), "ENDIAN_BIG_BYTE"),
       Is("LITTLE_ENDIAN"), "ENDIAN_LITTLE_BYTE"),
       Is("PDP_ENDIAN"), "ENDIAN_LITTLE_WORD")

EndianHeader(m) ==
  IF Value(m, "LIB_C_GNU") # 0 \/ Value(m, "OS_ANDROID") # 0 THEN {"endian.h"}
  ELSE IF Value(m, "OS_MACOS") # 0 THEN {"machine/endian.h"}
  ELSE IF Value(m, "OS_BSD") = 0 THEN {}
  ELSE IF Value(m, "OS_BSD_OPEN") # 0 THEN {"machine/endian.h"} ELSE {"sys/endian.h"}

endian_headers(before) ==
  LET header == EndianHeader(before)
      m == IF header = {} THEN before
           ELSE DefineAll(before, platform.headers[CHOOSE h \in header : TRUE])
  IN IF Defined(m, "__BYTE_ORDER") THEN ByNumbers(m, "__")
     ELSE IF Defined(m, "_BYTE_ORDER") THEN ByNumbers(m, "_") ELSE m

Only(m, name, other) == Defined(m, name) /\ ~Defined(m, other)

endian_big(m) ==
  DefineIf(m, ~Known(m) /\
    \/ Only(m, "__BIG_ENDIAN__", "__LITTLE_ENDIAN__")
    \/ Only(m, "_BIG_ENDIAN", "_LITTLE_ENDIAN")
    \/ AnyDefined(m, {"__ARMEB__", "__THUMBEB__", "__AARCH64EB__", "_MIPSEB", "__MIPSEB",
                      "__MIPSEB__"}), "ENDIAN_BIG_BYTE")

endian_little(m) ==
  DefineIf(m, ~Known(m) /\
    \/ Only(m, "__LITTLE_ENDIAN__", "__BIG_ENDIAN__")
    \/ Only(m, "_LITTLE_ENDIAN", "_BIG_ENDIAN")
    \/ AnyDefined(m, {"__ARMEL__", "__THUMBEL__", "__AARCH64EL__", "_MIPSEL", "__MIPSEL",
                      "__MIPSEL__"}), "ENDIAN_LITTLE_BYTE")

(* The architectures with one order; ARCH_PARISK and ARCH_AMD64 are names that *)
(* no header defines.                                                          *)
endian_architecture(m) ==
  LET Has(names) == \E name \in names : Value(m, name) # 0
      big == DefineIf(m, ~Known(m) /\
               Has({"ARCH_M68K", "ARCH_PARISK", "ARCH_SPARC", "ARCH_SYS370", "ARCH_SYS390",
                    "ARCH_Z"}), "ENDIAN_BIG_BYTE")
  IN DefineIf(big, ~Known(m) /\
       Has({"ARCH_AMD64", "ARCH_IA64", "ARCH_X86", "ARCH_BLACKFIN"}), "ENDIAN_LITTLE_BYTE")

endian_windows(m) ==
  DefineIf(m, ~Known(m) /\ Value(m, "ARCH_ARM") # 0 /\ Value(m, "OS_WINDOWS") # 0,
           "ENDIAN_LITTLE_BYTE")

-------------------------------------------------------------------------------
(* What a header includes before its own test, in the order of the code.       *)
Architectures ==
  <<"alpha", "arm", "blackfin", "convex", "ia64", "m68k", "mips", "parisc", "ppc", "pyramid",
    "rs6k", "sparc", "superh", "sys370", "sys390", "x86", "z">>

Systems ==
  <<"aix", "amigaos", "android", "beos", "bsd", "cygwin", "haiku", "hpux", "irix", "ios",
    "linux", "macos", "os400", "qnxnto", "solaris", "unix", "vms", "windows">>

Bsds == <<"bsdi", "dragonfly", "free", "open", "net">>

Includes(h) ==
  CASE h = "predef.h" -> <<"architecture.h", "gnu", "os.h", "endian">>
    [] h = "architecture.h" -> Architectures
    [] h = "os.h" -> Systems
    [] h = "x86" -> <<"x86_32", "x86_64">>
    [] h = "macos" -> <<"ios">>
    [] h = "bsd" -> <<"macos">> \o Bsds
    [] h \in Range(Bsds) -> <<"bsd">>
    [] h = "endian" -> <<"gnu", "macos", "bsd", "android">>
    [] OTHER -> << >>

(* The tests of a header, after what it includes.                              *)
Test(h, m) ==
  CASE h = "alpha" -> arch_alpha(m)       [] h = "arm" -> arch_arm(m)
    [] h = "blackfin" -> arch_blackfin(m) [] h = "convex" -> arch_convex(m)
    [] h = "ia64" -> arch_ia64(m)         [] h = "m68k" -> arch_m68k(m)
    [] h = "mips" -> arch_mips(m)         [] h = "parisc" -> arch_parisc(m)
    [] h = "ppc" -> arch_ppc(m)           [] h = "pyramid" -> arch_pyramid(m)
    [] h = "rs6k" -> arch_rs6k(m)         [] h = "sparc" -> arch_sparc(m)
    [] h = "superh" -> arch_superh(m)     [] h = "sys370" -> arch_sys370(m)
    [] h = "sys390" -> arch_sys390(m)     [] h = "x86_32" -> arch_x86_32(m)
    [] h = "x86_64" -> arch_x86_64(m)     [] h = "x86" -> arch_x86(m)
    [] h = "z" -> arch_z(m)               [] h = "gnu" -> library_gnu(m)
    [] h = "aix" -> os_aix(m)             [] h = "amigaos" -> os_amigaos(m)
    [] h = "android" -> os_android(m)     [] h = "beos" -> os_beos(m)
    [] h = "bsd" -> os_bsd(m)             [] h = "bsdi" -> bsd_bsdi(m)
    [] h = "dragonfly" -> bsd_dragonfly(m) [] h = "free" -> bsd_free(m)
    [] h = "net" -> bsd_net(m)            [] h = "open" -> bsd_open(m)
    [] h = "cygwin" -> os_cygwin(m)       [] h = "haiku" -> os_haiku(m)
    [] h = "hpux" -> os_hpux(m)           [] h = "ios" -> os_ios(m)
    [] h = "irix" -> os_irix(m)           [] h = "linux" -> os_linux(m)
    [] h = "macos" -> os_macos(m)         [] h = "os400" -> os_os400(m)
    [] h = "qnxnto" -> os_qnxnto(m)       [] h = "solaris" -> os_solaris(m)
    [] h = "unix" -> os_unix(m)           [] h = "vms" -> os_vms(m)
    [] h = "windows" -> os_windows(m)
    [] h = "endian_headers" -> endian_headers(m)
    [] h = "endian_builtin" -> endian_little(endian_big(m))
    [] h = "endian_architecture" -> endian_architecture(m)
    [] h = "endian_windows" -> endian_windows(m)
    [] OTHER -> m

(* What of a header is left to read: includes and tests.  endian.h includes    *)
(* two more headers only where it still needs them.                            *)
Include(h) == [do |-> "include", what |-> h]
Run(h) == [do |-> "test", what |-> h]

Body(h) ==
  [i \in DOMAIN Includes(h) |-> Include(Includes(h)[i])]
    \o IF h # "endian" THEN <<Run(h)>>
       ELSE <<Run("endian_headers"), Run("endian_builtin"),
              [do |-> "include_if_needed", what |-> "architecture.h"],
              Run("endian_architecture"),
              [do |-> "include_if_needed", what |-> "windows"], Run("endian_windows")>>

-------------------------------------------------------------------------------
(* A program includes what it likes before it comes to predef.h.               *)
PInit ==
  /\ platform \in Platforms
  /\ macros = platform.macros
  /\ entered = {}
  /\ first \in Early \cup {"predef.h"}
  /\ agenda = <<Include(first), Include("predef.h")>>

(* The include guard makes the second time nothing.                            *)
DoInclude ==
  /\ agenda # << >> /\ Head(agenda).do = "include"
  /\ LET h == Head(agenda).what IN
       /\ entered' = entered \cup {h}
       /\ agenda' = (IF h \in entered THEN << >> ELSE Body(h)) \o Tail(agenda)
  /\ UNCHANGED <<platform, first, macros>>

DoIncludeIfNeeded ==
  /\ agenda # << >> /\ Head(agenda).do = "include_if_needed"
  /\ LET h == Head(agenda).what
         needed == ~Known(macros) /\ (h = "windows" => Value(macros, "ARCH_ARM") # 0)
     IN agenda' = (IF needed THEN <<Include(h)>> ELSE << >>) \o Tail(agenda)
  /\ UNCHANGED <<platform, first, macros, entered>>

DoTest ==
  /\ agenda # << >> /\ Head(agenda).do = "test"
  /\ macros' = Test(Head(agenda).what, macros)
  /\ agenda' = Tail(agenda)
  /\ UNCHANGED <<platform, first, entered>>

PNext == DoInclude \/ DoIncludeIfNeeded \/ DoTest
===============================================================================
