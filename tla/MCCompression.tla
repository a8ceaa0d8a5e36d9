---------------------------- MODULE MCCompression ----------------------------
(***************************************************************************)
(* All eight hashes for TLC, with one vector for each from the files of    *)
(* src/scripts and two initial values from FIPS 180-4.                     *)
(***************************************************************************)
EXTENDS Compression

MCHash == DOMAIN Hashes

\* Words whose sums carry all the way, and words that differ everywhere.
MCPattern == {Fill(128, 255), [i \in 1..128 |-> (37 * i + 11) % 256]}

\* Nothing, and both sides of the boundary of the padding.
MCSlack(p) == {0, p.BLOCK_LENGTH - Reserve(p) - 1, p.BLOCK_LENGTH - Reserve(p)}

\* Every key that fits.
MCKeyLengths(p) == 0..p.BLOCK_LENGTH

\* The number a sequence of digits stands for.
Numeral(d) ==
  LET v[i \in 0..Len(d)] == IF i = 0 THEN 0 ELSE 10 * v[i - 1] + (d[i] - 48) IN v[Len(d)]

\* "SHA-256/8", "SHA-256/96", "SHA-512/8" and "SHA-512/96"
Name256 == <<<<83, 72, 65, 45, 50, 53, 54, 47, 56>>, <<83, 72, 65, 45, 50, 53, 54, 47, 57, 54>>>>
Name512 == <<<<83, 72, 65, 45, 53, 49, 50, 47, 56>>, <<83, 72, 65, 45, 53, 49, 50, 47, 57, 54>>>>

\* FIPS 180-4, 5.3.6, with the kernel of the library: the digest of a name, from the
\* initial value masked with 0xa5.
IvOf(h, name) ==
  LET p == Hashes[h]
      masked == [i \in 1..8 |-> p.IV[i] (+) Fill(p.WORD_BYTES, 165)]
      padded == Pad(p, name \o Fill(2 * p.BLOCK_LENGTH, 0), Len(name))
  IN Transform(h, masked, padded[1], padded[2])

\* hmac_<hash>_test.json, tcId 2
Vector == [
  md4 |-> [
    key |-> Halves(<<\he156, \h1f29, \h5ab2, \ha040, \h6fc4, \h0e42, \hc187, \hcb80>>),
    msg |-> <<\h89>>,
    tag |-> Halves(<<\h7f16, \hc413, \h7b9f, \h2a1c, \ha412, \hf6fd, \hafdf, \h9f88>>)],
  md5 |-> [
    key |-> Halves(<<\hfdde, \hf1dc, \h505c, \h12a4, \h1c86, \h6164, \h4046, \h654c>>),
    msg |-> <<\h9d>>,
    tag |-> Halves(<<\h9dbf, \hfcc6, \h5638, \hc5aa, \h0e4c, \hd1da, \h6d3d, \h90ee>>)],
  ripemd160 |-> [
    key |-> Halves(<<\h68fe, \hec74, \h22b3, \he5f9, \hb00c, \h90db, \hd9ae, \h74c9,
                    \h93ff, \h815d>>),
    msg |-> <<\h8b>>,
    tag |-> Halves(<<\hf552, \hd7e5, \h9ac2, \h2757, \h067a, \hcfe1, \hae5c, \h0f68,
                    \ha6cf, \h47dd>>)],
  sha1 |-> [
    key |-> Halves(<<\h4cd6, \h4efd, \hb76d, \hf5a8, \h5dce, \h3d34, \h7012, \hcad0,
                    \h6b0c, \h3db4>>),
    msg |-> <<\h6c>>,
    tag |-> Halves(<<\h6d3d, \h37af, \h55c7, \h5d87, \h2d2d, \ha07b, \h9b90, \h7ba2,
                    \h2ad4, \h87d4>>)],
  sha2_224 |-> [
    key |-> Halves(<<\h6e80, \h85f5, \h0511, \h9b98, \hc123, \h5027, \hb564, \hb4c7,
                    \hbde6, \h80c7, \hb42e, \h6c27, \h2278, \h7266>>),
    msg |-> <<\h90>>,
    tag |-> Halves(<<\hf87a, \hbb3a, \h906c, \h4d6b, \hc131, \h7e6a, \h8703, \h6a52,
                    \h7266, \hfbdb, \h92ac, \h32a3, \h7be5, \hece2>>)],
  sha2_256 |-> [
    key |-> Halves(<<\h8159, \hfd15, \h133c, \hd964, \hc9a6, \h964c, \h94f0, \hea26,
                    \h9a80, \h6fd9, \hf43f, \h0da5, \h8b6c, \hd1b3, \h3d18, \h9b2a>>),
    msg |-> <<\h77>>,
    tag |-> Halves(<<\hdfc5, \h105d, \h5eec, \hf7ae, \h7b8b, \h8de3, \h930e, \h7659,
                    \he84c, \h4172, \hf255, \h5142, \hf1e5, \h68fc, \h1872, \had93>>)],
  sha2_384 |-> [
    key |-> Halves(<<\h9766, \h96c0, \hdc97, \h182c, \ha771, \h975c, \h3928, \hff91,
                    \h68ef, \h89cd, \h740c, \hd229, \h2858, \hfd91, \h6068, \ha702,
                    \hbc1d, \hf7c6, \hcd8e, \he1f0, \hd25e, \h61d4, \hc514, \hcc5d>>),
    msg |-> <<\h2b>>,
    tag |-> Halves(<<\h363e, \h8973, \hfedc, \hf789, \h2013, \hdfae, \h0b70, \h65d6,
                    \h1d80, \hb98c, \h635b, \hc09e, \hd860, \ha014, \h73b9, \hbcd0,
                    \hdc55, \h0dbf, \h66cf, \h0d60, \h1fe9, \hcbf3, \hae59, \h620d>>)],
  sha2_512 |-> [
    key |-> Halves(<<\h0069, \h8977, \hf710, \h2c67, \hb594, \h1669, \h19aa, \h99dc,
                    \h3e58, \hc7b6, \h697a, \h6422, \he238, \hd04d, \h2f57, \hb2c7,
                    \h4e4e, \h84f5, \hc4c6, \hb792, \h952d, \hf72f, \h1c09, \h2448,
                    \h02f0, \hbcf8, \h752e, \hfb90, \he836, \h1107, \h03bf, \ha21c>>),
    msg |-> <<\h01>>,
    tag |-> Halves(<<\h4d16, \h09cc, \h2c2f, \h1ab5, \hddc3, \h5815, \hae1b, \h5dc0,
                    \h46f2, \h26bd, \he17e, \hc37a, \h4c89, \hec46, \hfbd3, \h1af2,
                    \haeb8, \h10b1, \h96df, \hfdd1, \h1924, \hd377, \h2bef, \h26a7,
                    \ha542, \he0a1, \h673b, \h76b9, \h15d4, \h1cbd, \h3df0, \hf6a6>>)]]

\* The kernels and the padding give the HMAC of the repository's vectors: they and
\* the standards they are compared with do not share an error.
KnownAnswers ==
  message = <<>> /\ out = NoOutput =>
    LET v == Vector[hash] IN VectorHmac(hash, v.key, v.msg) = v.tag

-----------------------------------------------------------------------------
\* FIPS 180-4, 5.3.6.1 and 5.3.6.2
Sha512t224 == Constants(<<
  \h8c3d, \h37c8, \h1954, \h4da2, \h73e1, \h9966, \h89dc, \hd4d6,
  \h1dfa, \hb7ae, \h32ff, \h9c82, \h679d, \hd514, \h582f, \h9fcf,
  \h0f6d, \h2b69, \h7bd4, \h4da8, \h77e3, \h6f73, \h04c4, \h8942,
  \h3f9d, \h85a8, \h6a1d, \h36c8, \h1112, \he6ad, \h91d6, \h92a1>>, 8)
Sha512t256 == Constants(<<
  \h2231, \h2194, \hfc2b, \hf72c, \h9f55, \h5fa3, \hc84c, \h64c2,
  \h2393, \hb86b, \h6f53, \hb151, \h9638, \h7719, \h5940, \heabd,
  \h9628, \h3ee2, \ha88e, \hffe3, \hbe5e, \h1e25, \h5386, \h3992,
  \h2b01, \h99fc, \h2c85, \hb8aa, \h0eb7, \h2ddc, \h81c5, \h2ca2>>, 8)

\* sha2t.c computes the initial values FIPS lists, those the library's kernel computes
\* from names with one and two digits, gives the truncated hashes of the library theirs,
\* and refuses more bits than there are.  It spells every number in decimal.
TruncatedIvs ==
  message = <<>> /\ out = NoOutput =>
    /\ hash = "sha2_224" => sha256t(224) = P.IV
    /\ hash = "sha2_256" =>
         /\ sha256t(8) = IvOf(hash, Name256[1]) /\ sha256t(96) = IvOf(hash, Name256[2])
         /\ sha256t(257) = Failed
    /\ hash = "sha2_384" => sha512t(384) = P.IV
    /\ hash = "sha2_512" =>
         /\ sha512t(224) = Sha512t224 /\ sha512t(256) = Sha512t256
         /\ sha512t(8) = IvOf(hash, Name512[1]) /\ sha512t(96) = IvOf(hash, Name512[2])
         /\ sha512t(513) = Failed
         /\ \A t \in 0..511 :
              LET d == Digits(t) IN
              /\ Numeral(d) = t /\ \A i \in DOMAIN d : d[i] \in 48..57
              /\ Len(d) > 1 => d[1] # 48
=============================================================================
