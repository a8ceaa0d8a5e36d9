------------------------------ MODULE Platform ------------------------------
(***************************************************************************)
(* Dispatch on real machines: which kernels are built follows from the     *)
(* build, and which the CPU can run from the tests src/common/can_*.c make *)
(* of what CPUID reports.  A test is right if it keeps from the CPU every  *)
(* kernel with an instruction the CPU lacks; which instructions those are  *)
(* is read off the assembly.                                               *)
(* Definitions marked "slip" are deliberate errors that no action uses.    *)
(***************************************************************************)
EXTENDS Dispatch, Priorities, Sequences

CONSTANTS
  HashNames,  \* the hashes registered, all of the same byte order
  CPUs,       \* [x86, vendor, top, family, model, extfam, extmod, has]
  Builds      \* [x64, on, stubs]: the machine it is made on, the kernels left out

VARIABLES hash, cpu, build

platform == <<hash, cpu, build>>
platformVars == <<vars, hash, cpu, build>>

Prio == IMPL_PRIO[hash]

-----------------------------------------------------------------------------
\* The features CPUID reports in each leaf.
Leaf1 == {"ssse3", "avx"}
Leaf7 == {"avx2", "bmi1", "bmi2", "sha"}
LeafExt == {"xop"}

\* The macro leaves zeros where the CPU has no CPUID or no such leaf.
cpuid(c, level, leaf) == IF c.x86 /\ level <= c.top THEN c.has \cap leaf ELSE {}

can_ssse3 == "ssse3" \in cpuid(cpu, 1, Leaf1)

can_avx == "avx" \in cpuid(cpu, 1, Leaf1)

\* slip: BMI2 is not asked for.
can_avx2_alone == cpu.top >= 7 /\ "avx2" \in cpuid(cpu, 7, Leaf7)

can_avx2 == cpu.top >= 7 /\ {"avx2", "bmi2"} \subseteq cpuid(cpu, 7, Leaf7)

can_shaext == cpu.top >= 7 /\ "sha" \in cpuid(cpu, 7, Leaf7)

\* The extended leaves have a limit of their own, which every CPU exceeds.
can_xop == "xop" \in cpuid(cpu, 0, LeafExt)

can_x64 == build.x64

can_generic == TRUE

\* What cpuinfo packs into five words.  Not in it are the stepping, and the
\* extensions of family and model where they do not count.
cpuinfo(c) ==
  IF ~c.x86 THEN <<>>
  ELSE <<c.vendor, c.top, c.family, c.model,
         IF c.family = 15 THEN c.extfam ELSE 0,
         IF c.family \in {6, 15} THEN c.extmod ELSE 0>>

\* prcpu prints this function with the words of the machine the build is made on.
can_native == cpuinfo(cpu) = cpuinfo(build.on) /\ cpuinfo(cpu) # <<>>

Can(test) ==
  CASE test = "ssse3" -> can_ssse3
    [] test = "avx" -> can_avx
    [] test = "avx2" -> can_avx2
    [] test = "shaext" -> can_shaext
    [] test = "xop" -> can_xop
    [] test = "x64" -> can_x64
    [] test = "native" -> can_native
    [] test = "generic" -> can_generic

\* A source the assembler refuses, or a flag disables, is compiled to a stub; both
\* kernels of an implementation have to be there.
Built(name) == <<name, "xform">> \notin build.stubs /\ (Swapped => <<name, "xform_le">> \notin build.stubs)

-----------------------------------------------------------------------------
PInit ==
  /\ hash \in HashNames /\ cpu \in CPUs /\ build \in Builds
  /\ cpu.x86 = build.on.x86
  /\ built = {i \in 1..Len(Prio) : Built(Prio[i][1])}
  /\ capable = {i \in 1..Len(Prio) : Can(Prio[i][2])}
  /\ Init

PSpec ==
  /\ PInit /\ [][Next /\ UNCHANGED platform]_platformVars
  /\ \A t \in Thread : WF_vars(Step(t))

-----------------------------------------------------------------------------
\* The instructions in src/md/*/asm beyond x86-64, by hash and name; -mssse3
\* is in the flags of everything in C and -march=native in those of native.
Instructions(name) ==
  CASE name \in {"cryptogams_shaext", "intel_shaext"} -> {"sha", "ssse3"}
    [] name = "cryptogams_avx2" -> {"avx", "avx2", "bmi1", "bmi2"}
    [] name = "intel_avx2" -> {"avx", "avx2", "bmi2"} \cup (IF hash = "sha1" THEN {"bmi1"} ELSE {})
    [] name \in {"cryptogams_avx", "intel_avx"} -> {"avx"}
    [] name \in {"cryptogams_ssse3", "intel_ssse3"} -> {"ssse3"}
    [] name = "cryptogams_xop" -> {"xop", "avx"}
    [] name = "ryanc" -> IF hash = "ripemd160" THEN {"bmi1"} ELSE {}
    [] name = "ryanc_avx2" -> {"avx", "avx2"}
    [] name \in {"ryanc_alt", "cryptogams_gen"} -> {}
    [] name = "native" -> build.on.has
    [] name = "generic" -> build.on.has \cap {"ssse3"}

\* CPUs are as they are made: an extension comes with those it builds on, and a
\* model has the features of its model.
ASSUME PlatformAssumption ==
  /\ HashNames \subseteq DOMAIN IMPL_PRIO
  /\ \A h \in HashNames : BIG_ENDIAN[h] = Swapped /\ Len(IMPL_PRIO[h]) <= N
  /\ \A c \in CPUs :
       /\ c.has \subseteq Leaf1 \cup Leaf7 \cup LeafExt
       /\ c.x86 => c.top >= 1 /\ "ssse3" \in c.has
       /\ "avx2" \in c.has => "avx" \in c.has
       /\ "bmi2" \in c.has => "bmi1" \in c.has
       /\ "xop" \in c.has => "avx" \in c.has
       /\ \A b \in Builds : cpuinfo(c) = cpuinfo(b.on) => b.on.has \subseteq c.has

\* README.md and the Makefile: an implementation is chosen by what the CPU has, on
\* every CPU since Core 2 and Bulldozer.  No call runs a kernel that has an
\* instruction the CPU does not, whatever the build, the machine it was made on,
\* and the leaves CPUID is limited to.
RunsSupported == \A i \in ran \cap Impl : Instructions(Prio[i][1]) \subseteq cpu.has
=============================================================================
