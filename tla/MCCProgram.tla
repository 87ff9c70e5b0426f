------------------------------- MODULE MCCProgram -------------------------------
(* The C program on real platforms, with small memory.                         *)
EXTENDS CProgram

(* A platform: the macros its compiler defines; those that its own headers     *)
(* define; what the machine really is; and what should be found.               *)
P(os, also, machine, names, headers, sizes) ==
  [os |-> os, also |-> also, machine |-> machine,
   macros |-> [n \in names |-> 1], fpa |-> FALSE, char_signed |-> TRUE,
   headers |-> headers @@ [h \in {"sys/param.h", "endian.h", "machine/endian.h", "sys/endian.h"}
                             |-> << >>],
   sizeof |-> [t \in {"short", "int", "long", "long_long"} |->
                 CASE t = "short" -> 2 [] t = "int" -> sizes[1] [] t = "long" -> sizes[2]
                   [] OTHER -> 8]]

ILP32 == <<4, 4>>
LP64 == <<4, 8>>
I16 == <<2, 4>>

Numbers(prefix, order) ==
  (prefix \o "LITTLE_ENDIAN" :> 1234) @@ (prefix \o "BIG_ENDIAN" :> 4321)
    @@ (prefix \o "PDP_ENDIAN" :> 3412)
    @@ (prefix \o "BYTE_ORDER" :> IF order = "big" THEN 4321 ELSE 1234)

More(p, m) == [p EXCEPT !.macros = m @@ @]

(* <assert.h>, which predef includes, tells the version of glibc.              *)
Glibc(order, names, sizes) ==
  More(P({"OS_LINUX"}, {}, order, names \cup {"linux", "__linux", "unix", "__unix"},
         "endian.h" :> Numbers("__", order), sizes),
       ("__GLIBC__" :> 2) @@ ("__GLIBC_MINOR__" :> 19))
Musl(order, names, sizes) ==
  P({"OS_LINUX"}, {}, order, names \cup {"__linux", "__unix"}, << >>, sizes)

(* sys/param.h of a BSD defines BSD; a program may have included it before.    *)
BSDMacros == ("BSD" :> 199306) @@ ("BSD4_4" :> 1)
Bsd(flavour, names, order, sizes) ==
  P({"OS_BSD", flavour}, {}, order, names \cup {"unix", "__unix"},
    [h \in {"sys/endian.h", "machine/endian.h"} |-> Numbers("_", order)]
      @@ ("sys/param.h" :> BSDMacros), sizes)

Mac(names, sizes) ==
  P({"OS_MACOS"}, {}, "little", names \cup {"__APPLE__", "__MACH__", "__LITTLE_ENDIAN__",
      "__DARWIN_OSSwapInt64"},
    ("machine/endian.h" :> Numbers("__", "little")) @@ ("sys/param.h" :> BSDMacros), sizes)

LimitsMacros(int, long) ==
  ("SHRT_MAX" :> 2) @@ ("USHRT_MAX" :> 2) @@ ("INT_MAX" :> int) @@ ("UINT_MAX" :> int)
    @@ ("LONG_MAX" :> long) @@ ("ULONG_MAX" :> long) @@ ("LLONG_MAX" :> 8) @@ ("ULLONG_MAX" :> 8)

MCPlatforms ==
  {Glibc("little", {"__x86_64__"}, LP64),
   More(Glibc("little", {"i386", "__i386__", "__i686__"}, ILP32), LimitsMacros(4, 4)),
   More(Glibc("big", {"__s390x__", "__s390__"}, LP64),
        ("SIZEOF_SHORT" :> 2) @@ ("SIZEOF_INT" :> 4) @@ ("SIZEOF_LONG" :> 8)
          @@ ("SIZEOF_LONG_LONG" :> 8)),
   [Glibc("little", {"__arm__", "__ARMEL__"}, ILP32) EXCEPT !.fpa = TRUE,
                                                            !.char_signed = FALSE],
   [Glibc("little", {"__arm__", "__ARMEL__", "__ARM_EABI__"}, ILP32) EXCEPT
      !.char_signed = FALSE],
   Musl("big", {"__mips__", "__MIPSEB__"}, ILP32),
   Musl("little", {"__mips__", "__MIPSEL__"}, ILP32),
   Musl("little", {"__powerpc64__", "__powerpc__", "__LITTLE_ENDIAN__"}, LP64),
   Musl("big", {"__m68k__"}, ILP32),
   Musl("little", {"__riscv"}, LP64),                   \* no order found: #error
   [Musl("little", {"__ANDROID__", "__x86_64__"}, LP64) EXCEPT
      !.os = {"OS_ANDROID"}, !.also = {"linux"},
      !.headers = ("endian.h" :> Numbers("_", "little")) @@ @],
   More(Bsd("OS_BSD_FREE", {"__FreeBSD__", "__x86_64__"}, "little", LP64),
        "__FreeBSD_version" :> 1000510),
   [More(Bsd("OS_BSD_FREE", {"__FreeBSD__", "__sparc__"}, "big", LP64),
         ("__FreeBSD_version" :> 491000) @@ BSDMacros) EXCEPT !.also = {"free"}],
   More(Bsd("OS_BSD_NET", {"__NetBSD__", "__x86_64__"}, "little", LP64),
        "__NetBSD_Version" :> 700000000),
   Bsd("OS_BSD_OPEN", {"__OpenBSD__", "OpenBSD4_9", "i386"}, "little", ILP32),
   Bsd("OS_BSD_DRAGONFLY", {"__DragonFly__", "__x86_64__"}, "little", LP64),
   Mac({"__x86_64__"}, LP64),
   More(Mac({"__x86_64__"}, LP64), BSDMacros),
   [More(Mac({"__arm64"}, LP64), "__ENVIRONMENT_IPHONE_OS_VERSION_MIN_REQUIRED__" :> 70000)
      EXCEPT !.os = {"OS_IOS"}],
   More(P({"OS_WINDOWS"}, {}, "little", {"_WIN32", "_M_X64"}, << >>, ILP32),
        ("_MSC_VER" :> 1600)),
   P({"OS_WINDOWS"}, {}, "little", {"_WIN32", "__WIN32__", "i386"}, << >>, ILP32),
   P({"OS_WINDOWS"}, {}, "little", {"_WIN32", "_M_ARM"}, << >>, ILP32),
   P({"OS_CYGWIN"}, {}, "little", {"__CYGWIN__", "i386", "unix"}, << >>, ILP32),
   P({"OS_SOLARIS"}, {}, "big", {"sun", "__sun", "__sparc", "unix", "__svr4__", "_BIG_ENDIAN"},
     << >>, ILP32),
   P({"OS_AIX"}, {}, "big", {"_AIX", "_AIX43", "_POWER", "_ARCH_PPC", "_BIG_ENDIAN", "unix"},
     << >>, ILP32),
   P({"OS_HPUX"}, {}, "big", {"__hppa", "__hpux", "_PA_RISC2_0", "_BIG_ENDIAN"}, << >>, ILP32),
   P({"OS_IRIX"}, {}, "big", {"sgi", "__sgi", "__mips", "_MIPSEB"}, << >>, ILP32),
   P({"OS_AMIGAOS"}, {}, "big", {"AMIGA", "__amigaos__", "M68000", "mc68020"}, << >>, I16),
   P({"OS_VMS"}, {}, "little", {"VMS", "__ia64__"}, << >>, ILP32)}

MCEarly == {"linux", "bsd", "free", "endian", "macos", "architecture.h"}

(* Both sides of every threshold, as 8 digits; a narrower type sees their end. *)
Tails ==
  {<<0, 0, 0>>, <<0, 0, 127>>, <<0, 0, 128>>, <<0, 0, 255>>, <<0, 1, 0>>, <<0, 255, 255>>,
   <<1, 0, 0>>, <<127, 255, 255>>, <<128, 0, 0>>, <<255, 255, 255>>, <<255, 255, 224>>,
   <<255, 255, 223>>, <<255, 255, 128>>, <<255, 255, 127>>, <<255, 128, 0>>, <<255, 127, 255>>}
MCValues ==
  {<<x, x, x, x, x>> \o t : x \in {0, 255}, t \in Tails}
    \cup {<<0, 0, 0, 1, 0, 0, 0, 0>>, <<255, 255, 255, 255, 128, 0, 0, 0>>,
          <<255, 255, 255, 255, 127, 255, 255, 255>>, <<1, 2, 3, 4, 5, 6, 7, 8>>,
          <<128, 0, 0, 0, 0, 0, 0, 0>>}

MCReals == {<<63, 128, 1, 2>>, <<63, 240, 1, 2, 3, 4, 5, 6>>}
MCBodies == {<< >>, <<7, 8, 9>>, [i \in 1 .. 12 |-> i]}
===============================================================================
