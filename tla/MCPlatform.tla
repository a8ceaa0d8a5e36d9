----------------------------- MODULE MCPlatform -----------------------------
\* CPUs and builds for Platform.
EXTENDS Platform

Cpu(vendor, top, family, extfam, model, extmod, has) ==
  [x86 |-> TRUE, vendor |-> vendor, top |-> top, family |-> family, extfam |-> extfam,
   model |-> model, extmod |-> extmod, has |-> has]

Haswell == {"ssse3", "avx", "avx2", "bmi1", "bmi2"}

core2 == Cpu("intel", 10, 6, 0, 15, 0, {"ssse3"})
haswell == Cpu("intel", 13, 6, 0, 12, 3, Haswell)
limited == Cpu("intel", 3, 6, 0, 12, 3, Haswell)
guest == Cpu("amd", 13, 15, 0, 11, 6, {"ssse3", "avx", "avx2"})
goldmont == Cpu("intel", 21, 6, 0, 12, 5, {"ssse3", "sha"})
bulldozer == Cpu("amd", 13, 15, 6, 1, 0, {"ssse3", "avx", "xop"})
zen == Cpu("amd", 13, 15, 8, 1, 0, Haswell \cup {"sha"})
arm == [x86 |-> FALSE, top |-> 0, has |-> {}]

MCCPUs == {core2, haswell, limited, guest, goldmont, bulldozer, zen, arm}

Intel == {"intel_ssse3", "intel_avx", "intel_avx2", "intel_shaext"}
Assembly == Intel \cup {"cryptogams_shaext", "cryptogams_avx2", "cryptogams_avx", "cryptogams_ssse3",
                        "cryptogams_xop", "cryptogams_gen", "ryanc", "ryanc_alt", "ryanc_avx2"}

Kernels == {"xform", "xform_le"}

\* The default flags, an assembler that knows one kernel only in one byte order, and
\* the targets for which no assembly is assembled.
MCBuilds ==
  {[x64 |-> TRUE, on |-> haswell, stubs |-> Intel \X Kernels],
   [x64 |-> TRUE, on |-> core2, stubs |-> {<<"cryptogams_shaext", "xform_le">>, <<"cryptogams_avx2", "xform">>}],
   [x64 |-> FALSE, on |-> haswell, stubs |-> Assembly \X Kernels],
   [x64 |-> FALSE, on |-> arm, stubs |-> Assembly \X Kernels]}
=============================================================================
