------------------------------- MODULE Params -------------------------------
(***************************************************************************)
(* The eight hashes as src/md/*/param.h describes them: sizes, byte order  *)
(* and initial value.                                                      *)
(***************************************************************************)
EXTENDS Words, Priorities

MD4 == [
  DIGEST_LENGTH |-> 16, BLOCK_LENGTH |-> 64, WORD_BYTES |-> 4, STATE_WORDS |-> 4,
  BIG_ENDIAN |-> MD4_BIG_ENDIAN,
  IV |-> Constants(<<\h6745, \h2301, \hefcd, \hab89, \h98ba, \hdcfe, \h1032, \h5476>>, 4)]

MD5 == [
  DIGEST_LENGTH |-> 16, BLOCK_LENGTH |-> 64, WORD_BYTES |-> 4, STATE_WORDS |-> 4,
  BIG_ENDIAN |-> MD5_BIG_ENDIAN,
  IV |-> Constants(<<\h6745, \h2301, \hefcd, \hab89, \h98ba, \hdcfe, \h1032, \h5476>>, 4)]

RIPEMD160 == [
  DIGEST_LENGTH |-> 20, BLOCK_LENGTH |-> 64, WORD_BYTES |-> 4, STATE_WORDS |-> 5,
  BIG_ENDIAN |-> RIPEMD160_BIG_ENDIAN,
  IV |-> Constants(<<\h6745, \h2301, \hefcd, \hab89, \h98ba, \hdcfe, \h1032, \h5476,
                      \hc3d2, \he1f0>>, 4)]

SHA1 == [
  DIGEST_LENGTH |-> 20, BLOCK_LENGTH |-> 64, WORD_BYTES |-> 4, STATE_WORDS |-> 5,
  BIG_ENDIAN |-> SHA1_BIG_ENDIAN,
  IV |-> Constants(<<\h6745, \h2301, \hefcd, \hab89, \h98ba, \hdcfe, \h1032, \h5476,
                      \hc3d2, \he1f0>>, 4)]

SHA2_224 == [
  DIGEST_LENGTH |-> 28, BLOCK_LENGTH |-> 64, WORD_BYTES |-> 4, STATE_WORDS |-> 8,
  BIG_ENDIAN |-> SHA2_224_BIG_ENDIAN,
  IV |-> Constants(<<\hc105, \h9ed8, \h367c, \hd507, \h3070, \hdd17, \hf70e, \h5939,
                      \hffc0, \h0b31, \h6858, \h1511, \h64f9, \h8fa7, \hbefa, \h4fa4>>, 4)]

SHA2_256 == [
  DIGEST_LENGTH |-> 32, BLOCK_LENGTH |-> 64, WORD_BYTES |-> 4, STATE_WORDS |-> 8,
  BIG_ENDIAN |-> SHA2_256_BIG_ENDIAN,
  IV |-> Constants(<<\h6a09, \he667, \hbb67, \hae85, \h3c6e, \hf372, \ha54f, \hf53a,
                      \h510e, \h527f, \h9b05, \h688c, \h1f83, \hd9ab, \h5be0, \hcd19>>, 4)]

SHA2_384 == [
  DIGEST_LENGTH |-> 48, BLOCK_LENGTH |-> 128, WORD_BYTES |-> 8, STATE_WORDS |-> 8,
  BIG_ENDIAN |-> SHA2_384_BIG_ENDIAN,
  IV |-> Constants(<<\hcbbb, \h9d5d, \hc105, \h9ed8, \h629a, \h292a, \h367c, \hd507,
                      \h9159, \h015a, \h3070, \hdd17, \h152f, \hecd8, \hf70e, \h5939,
                      \h6733, \h2667, \hffc0, \h0b31, \h8eb4, \h4a87, \h6858, \h1511,
                      \hdb0c, \h2e0d, \h64f9, \h8fa7, \h47b5, \h481d, \hbefa, \h4fa4>>, 8)]

SHA2_512 == [
  DIGEST_LENGTH |-> 64, BLOCK_LENGTH |-> 128, WORD_BYTES |-> 8, STATE_WORDS |-> 8,
  BIG_ENDIAN |-> SHA2_512_BIG_ENDIAN,
  IV |-> Constants(<<\h6a09, \he667, \hf3bc, \hc908, \hbb67, \hae85, \h84ca, \ha73b,
                      \h3c6e, \hf372, \hfe94, \hf82b, \ha54f, \hf53a, \h5f1d, \h36f1,
                      \h510e, \h527f, \hade6, \h82d1, \h9b05, \h688c, \h2b3e, \h6c1f,
                      \h1f83, \hd9ab, \hfb41, \hbd6b, \h5be0, \hcd19, \h137e, \h2179>>, 8)]

Hashes == [md4 |-> MD4, md5 |-> MD5, ripemd160 |-> RIPEMD160, sha1 |-> SHA1,
           sha2_224 |-> SHA2_224, sha2_256 |-> SHA2_256,
           sha2_384 |-> SHA2_384, sha2_512 |-> SHA2_512]
=============================================================================
