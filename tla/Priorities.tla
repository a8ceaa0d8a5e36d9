----------------------------- MODULE Priorities -----------------------------
(***************************************************************************)
(* What src/md/*/param.h says of a hash's implementations: the byte order  *)
(* of their words, and the implementations in order of priority, each with *)
(* its name, the CPU test it needs and the number USING gives it, whose    *)
(* bit in the mask of Register is the one ENABLE gives it.                 *)
(***************************************************************************)

MD4_BIG_ENDIAN == FALSE
MD5_BIG_ENDIAN == FALSE
RIPEMD160_BIG_ENDIAN == FALSE
SHA1_BIG_ENDIAN == TRUE
SHA2_224_BIG_ENDIAN == TRUE
SHA2_256_BIG_ENDIAN == TRUE
SHA2_384_BIG_ENDIAN == TRUE
SHA2_512_BIG_ENDIAN == TRUE

MD4_IMPL_PRIO == <<
  <<"ryanc", "x64", 2>>, <<"ryanc_alt", "x64", 3>>,
  <<"native", "native", 1>>, <<"generic", "generic", 0>>>>

MD5_IMPL_PRIO == <<
  <<"ryanc", "x64", 2>>, <<"native", "native", 1>>,
  <<"generic", "generic", 0>>>>

RIPEMD160_IMPL_PRIO == <<
  <<"ryanc", "x64", 2>>, <<"ryanc_avx2", "avx2", 3>>,
  <<"native", "native", 1>>, <<"generic", "generic", 0>>>>

SHA1_IMPL_PRIO == <<
  <<"cryptogams_shaext", "shaext", 10>>, <<"intel_shaext", "shaext", 5>>,
  <<"cryptogams_avx2", "avx2", 9>>, <<"intel_avx2", "avx2", 4>>,
  <<"cryptogams_avx", "avx", 8>>, <<"intel_avx", "avx", 3>>,
  <<"cryptogams_ssse3", "ssse3", 7>>, <<"intel_ssse3", "ssse3", 2>>,
  <<"cryptogams_gen", "x64", 6>>, <<"native", "native", 1>>,
  <<"generic", "generic", 0>>>>

SHA2_224_IMPL_PRIO == <<
  <<"cryptogams_shaext", "shaext", 10>>, <<"intel_shaext", "shaext", 5>>,
  <<"cryptogams_avx2", "avx2", 9>>, <<"intel_avx2", "avx2", 4>>,
  <<"cryptogams_avx", "avx", 8>>, <<"cryptogams_ssse3", "ssse3", 7>>,
  <<"intel_avx", "avx", 3>>, <<"intel_ssse3", "ssse3", 2>>,
  <<"cryptogams_gen", "x64", 6>>, <<"native", "native", 1>>,
  <<"generic", "generic", 0>>>>

SHA2_256_IMPL_PRIO == <<
  <<"cryptogams_shaext", "shaext", 10>>, <<"intel_shaext", "shaext", 5>>,
  <<"cryptogams_avx2", "avx2", 9>>, <<"intel_avx2", "avx2", 4>>,
  <<"cryptogams_avx", "avx", 8>>, <<"cryptogams_ssse3", "ssse3", 7>>,
  <<"intel_avx", "avx", 3>>, <<"intel_ssse3", "ssse3", 2>>,
  <<"cryptogams_gen", "x64", 6>>, <<"native", "native", 1>>,
  <<"generic", "generic", 0>>>>

SHA2_384_IMPL_PRIO == <<
  <<"cryptogams_avx2", "avx2", 8>>, <<"intel_avx2", "avx2", 4>>,
  <<"cryptogams_avx", "avx", 7>>, <<"intel_avx", "avx", 3>>,
  <<"cryptogams_xop", "xop", 6>>, <<"intel_ssse3", "ssse3", 2>>,
  <<"cryptogams_gen", "x64", 5>>, <<"native", "native", 1>>,
  <<"generic", "generic", 0>>>>

SHA2_512_IMPL_PRIO == <<
  <<"cryptogams_avx2", "avx2", 8>>, <<"intel_avx2", "avx2", 4>>,
  <<"cryptogams_avx", "avx", 7>>, <<"intel_avx", "avx", 3>>,
  <<"cryptogams_xop", "xop", 6>>, <<"intel_ssse3", "ssse3", 2>>,
  <<"cryptogams_gen", "x64", 5>>, <<"native", "native", 1>>,
  <<"generic", "generic", 0>>>>

BIG_ENDIAN ==
  [md4 |-> MD4_BIG_ENDIAN, md5 |-> MD5_BIG_ENDIAN, ripemd160 |-> RIPEMD160_BIG_ENDIAN,
   sha1 |-> SHA1_BIG_ENDIAN, sha2_224 |-> SHA2_224_BIG_ENDIAN,
   sha2_256 |-> SHA2_256_BIG_ENDIAN, sha2_384 |-> SHA2_384_BIG_ENDIAN,
   sha2_512 |-> SHA2_512_BIG_ENDIAN]

IMPL_PRIO ==
  [md4 |-> MD4_IMPL_PRIO, md5 |-> MD5_IMPL_PRIO, ripemd160 |-> RIPEMD160_IMPL_PRIO,
   sha1 |-> SHA1_IMPL_PRIO, sha2_224 |-> SHA2_224_IMPL_PRIO,
   sha2_256 |-> SHA2_256_IMPL_PRIO, sha2_384 |-> SHA2_384_IMPL_PRIO,
   sha2_512 |-> SHA2_512_IMPL_PRIO]
=============================================================================
