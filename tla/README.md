# llhash: a verification development

llhash is a C library of Merkle-Damgaard hashes (MD4, MD5, RIPEMD-160, SHA-1,
SHA-2) with HMAC, HKDF and PBKDF2 on top.  One set of templates under
`src/md/*.in` is instantiated for every hash; the compression functions exist in
C and in many assembly versions, one of which is selected at run time.  This
directory holds TLA+ models of the templates, the TLC runs that check them on
small instances, and TLAPS proofs for every instance.

Paths below are relative to the repository root.

## Inventory

| Part | Source | State | Operations | Talks to |
| --- | --- | --- | --- | --- |
| Incremental hash | `src/md/hash.c.in`, `hash.h.in` | `HASH_CTX`: `data[]`, `datalen`, `bytelen`, `state[]` | Init, Init_IV, Update, Final, Clone, Clear, Extend | Transform |
| One-shot hash | `src/md/hash.c.in:54-91` | two static arrays, `padding` and `hash_output` | `HASH(data, len, hash)` | Transform |
| Stateless helpers | `src/md/hash.c.in:210-339` | none | Pad, Tail, Raw, Bswap, Serialize, Partial | Transform |
| Implementation selection | `src/md/register.c.in`, `src/common/stub.c`, `built.S` | the pointers Transform and Native | Register, the default and invalid handlers | CPU tests, kernels |
| CPU tests | `src/common/can_*.c`, `cpuinfo.[ch]`, `prcpu.c` | none; `can_native` compares with the machine of the build | `can_...()` | cpuid |
| Kernels in C | `src/md/*/xform.c` | none | `_xform`, and `_xform_le` for swapped words, of nblk blocks | - |
| Kernels in assembly | `src/md/*/asm` | none | the same | - |
| HMAC | `src/md/hmac.c.in` | `HMAC_CTX`: a hash context and the outer block | Init, Update, Outer, Semifinal, Final, Clone, Clear | incremental hash, Native |
| HKDF Extract | `src/md/ext.c.in:47-81` | the static, lock-free cache `EmptyKey` | Extract | HMAC |
| HKDF Expand | `src/md/ext.c.in:107-223` | a context, or a chain of blocks, on the stack | Expand | HMAC, Transform |
| PBKDF2 | `src/md/ext.c.in:225-429` | two HMAC contexts and their last blocks on the stack | 1, Block, PBKDF2, Range | HMAC, Tail, Partial, Native |
| Memory functions | `src/common/string.c`, `string.h` | none | llh_memcpy, llh_memset, llh_bzero | - |
| SHA-2/t | `sha2t.c` | none, a SHA-2 of its own | sha256t, sha512t | - |
| State debugging | `state_debug.c` | a buffer of text | debug builds only | - |
| Generators, tests | `Makefile`, `libh/`, `scripts/`, `src/libh/`, `test.c`, `vectors.c`, `openssl.c`, `hkdf.c` | - | build time and test programs | - |

The library starts no thread.  Its callers may: what is shared between them is
the two dispatch pointers, the two static arrays of the one-shot function and the
HKDF cache.  Everything else is per caller and sequential, and what makes it hard
is arithmetic on block boundaries over buffers that keep old bytes.

What makes each part correct:

* Incremental hash: whatever calls were made, in whatever order and on whatever
  old memory, Final compresses the padding of exactly the bytes fed since the
  last start.  Between calls less than a block is buffered.
* One-shot hash: the same of one message, although the arrays it works in keep
  what the last call left.
* Selection: nothing is ever run that the build lacks or the CPU does not
  support, first calls that race agree, a selection that was reported holds.
* HKDF cache: nobody uses a half-written context, one thread fills it, nobody
  waits for the one that does.
* HMAC: Final leaves the HMAC of what was fed, for short and long keys, on hosts
  of either byte order, although the outer blocks are laid out by Init and used
  again by every later call.
* HKDF Expand, PBKDF2: every byte given out is that of the RFC's definition, for
  every length of salt and password, number of iterations and range, although the
  last blocks are laid out once and written over in place.
* Kernels: the chaining state is the standard's after the same blocks, however
  they were divided into calls and whichever byte order they came in.
* Helpers: Pad and Tail close a message in its standard padding over old bytes;
  Partial cuts the same bytes as a copy of the digest.
* CPU tests: no kernel is taken for usable that has an instruction the CPU lacks.
* SHA-2/t: the initial values are those FIPS 180-4 lists.

The hazards found while reading, each with its line and the property that would
catch it, or why none does, are in `PROJECT.json`.

## Modules

`MDBuffers` - the data all templates work on.  A buffer is a sequence of *cells*:
a message byte, the 0x80, a zero of a fill, the k-th byte of the length n, or
unwritten memory.  Different origins are different values, so a stale or
misplaced byte always shows (in the program two of them could happen to be
equal).  A chaining state is the initial value and the cells absorbed so far: the
compression function is taken to be injective on what it absorbs, the usual
abstraction of a hash.  `Transform` absorbs `nblk % NBLK` blocks, for the kernels
count in 32 bits.  `OffsetCopy`, `OffsetFill` and `StoreLength` are `OFFSETCPY`,
`OFFSETFILL` and `STOR64DE`.  `IsPadded(m, p)` is the reference definition of the
padding, written from its meaning (0x80, the least number of zeros, length last)
and not from the code.  Sizes are parameters: block length `BL`, the reserve
`RES` (`HASH_WORD_SIZE/4`), the length's bytes `LW` (8).

`HashAbs` - what the incremental interface promises.  A context is a stream: an
initial value and bytes.  `Finish` writes some digest whose absorbed cells are the
padding of the stream.

`HashOps` - what the functions of `hash.c.in` do to one `HASH_CTX`, as operators:
`Updated` is Update, with its parts `TopUp`, `TakeBlocks` and `Buffered` in order;
`Finished` is Final, with `ClosePartial` and `CloseMessage`; `Fresh`, `Cloned` and
`Extended` are Init, Clone and Extend.  `HashContext` and `Hmac` share them as the
code shares the functions.

`HashContext` - the code.  `ctx[c]` is the structure (`data`, `bytelen`, `state`,
`datalen`), `phase[c]` what the caller last did with it, `out` the digest last
written.  Actions: `HashInit`, `HashInitIV`, `Update`, `Final`, `Clone`, `Clear`,
`Extend`, each the whole function.  Structures start as garbage.  The caller uses contexts the documented way: Update and Final on one
that was started, no two threads in one context (the code has no lock and the
README promises none).  The bound `MaxBytes` on the stream is the only one.

`HmacAbs` - what the HMAC interface promises: a context stands for a key and the
bytes fed since, and `Finish` leaves `HmacOf(key, bytes)`, the nested hashes of RFC
2104, in which a hash is that of a whole message and a key longer than a block is
replaced by its digest.

`Hmac` - the code.  `ctx[c]` is the first part of the `HMAC_CTX`, a `HASH_CTX`, and
`hmac[c]` the blocks behind it.  `swapped`, chosen at Init from `Orders`, says whether
the hash's byte order (`HashEndian`) is not the machine's; then the words in `hmac[c]`
are kept in the machine's order for Native, and `Flip` is the conversion of the macros.
`LengthAt` is where Init stores the bytes of the outer length, as one word or as two.  Actions:
`HmacInit` (`HashKey`, `LongKey`, `ShortKey`, `OuterPadding` are its parts),
`HmacUpdate`, `HmacFinal` with Semifinal and Outer, `HmacClone`, `HmacClear`.  A
masked byte is the pair of the mask and the byte; the byte of a digest is the pair
of the state and its place.  A state holds `SL` bytes and a digest `DL`, fewer for a
truncated hash.  The refinement mapping takes the state a finished context holds as
the HMAC.  `MaxBytes` bounds what is fed.

`OneShot` - the one-shot function, one step per access to a static array, by
threads that do or do not (`Serial`) keep their calls apart.

`Dispatch` - Register and the handlers behind the pointers.  `built` and `capable`
are chosen at Init, any sets: every build and every CPU.  A call through a pointer
that still holds its default handler walks the same path as Register(-1) and then
calls again through the pointer.  The two stores are plain C stores to
non-atomic variables, so they are made in either order.  `Swapped` says whether
the hash has a byte order other than the machine's; only then does Native have
its own default handler.

`EmptyKey` - Extract without a salt: the test of the flag, the private Init, the
compare-and-exchange, the fill by HMAC Init write by write, the Clone over it, the
store of the flag, and the field-by-field copy by readers.  The flag is an
`_Atomic` accessed with sequential consistency, so steps interleave.  A thread
in `Mortal` may end at any step.

`KeyDerivation` - PBKDF2 and HKDF Expand as clients of HMAC, whose module it extends:
`Key`, `Clone` and `Feed` are calls of `HmacInit`, `HmacClone` and `HmacUpdate` on the
contexts `octx` and `ictx`.  `Layout` is what both functions do behind HMAC's back: the
salt's last bytes go from the context to `otail`, Tail closes it around the four bytes
(`CB`) of a block number still to come, and `itail` is laid out for the iterations.
`DeriveBlock` is a turn of the loop with PBKDF2(Block), whose c iterations are
`Rounds` and end in `Iterated`; `DeriveOnce` a turn of PBKDF2(1); `Number` and `Expand` are HKDF Expand of one
block; `Wipe` ends every call and clears all that lies in its scratch: the contexts the
call has, the state and the tails.  A digest or-ed exclusively with others is the set of
those or-ed an odd number of times, so that two equal ones cancel as in C.  The
reference, `Chained` (the last of the `Sums` of a `Chain`) and `Expanded`, is the
recursion of RFC 8018 and RFC 5869 over `HmacOf` of `HmacAbs`.

`Words` - uint32_t and uint64_t as sequences of bytes, with the operators of C and the
rotations of `macros.h`.  TLC's integers have 32 bits with a sign, too few for either.
The bitwise operators go through the bits of a byte (`Bits`), so they can be proved about.

`Kernels` - the six compression functions of `src/md/*/xform.c` and the three for words
in the order of a little-endian machine, on real words and with the real tables.
What the C code unrolls by macros is a fold over rounds; `Role` is the rotation of the
registers among the macro's arguments, `Sha1Ring` and `Sha2Ring` the message schedule
that is written over as it is read.

`Params` and `Priorities` - the eight `param.h` files: sizes and initial value in the
one, byte order and the table of implementations in order of priority in the other, so
that `Platform` can be proved about without the words `Params` is written in.

`Sha2t` - `sha2t.c`, a SHA-2 written the way of the standard, and the initial values of
the truncated hashes.

`Standards` - MD4, MD5, SHA-1 and RIPEMD-160 as their standards define them: the
registers move, the whole schedule is laid out first, tables are computed where a
standard has a rule for them.  It shares with the kernels only the numbers a standard
gives.

`Helpers` - Pad, Tail, Raw, Bswap, Serialize and Partial on real bytes, and the kernel
each hash has behind Transform and Native, on a little-endian machine.

`Compression` - composes the four: a hash absorbs blocks, one or two to a call, through
Transform or through Bswap and Native, and is finished by Tail behind them or by Pad and
Raw from the start, in buffers full of old bytes.  `StandardHash` is the reference;
for SHA-2 it is `Sha2t`, the repository's second implementation.  `ZeroFills` and `MaskFills`
are the fills of the library, with zeros up to Pad's longest and with the inner padding of
HMAC behind a key of one of the `KeyLengths`; `MemsetFills` compares the two forms of
llh_memset for them.

`MemFunctions` - llh_memset as a known and as an unknown length compile it.

`Platform` - `Dispatch` with the kernels and priorities of `Priorities`, the tests of
`can_*.c` over what CPUID reports, and what a build leaves out (`Built`).  A CPU is a
vendor, a limit of leaves, family and model, and the extensions it has.
`Instructions` is read off the assembly: what each kernel uses beyond x86-64.

The modules whose names begin with `MC` give the constants small values.
`MCHashCareful` assumes `CarefulCalls`, the two things the code leaves to its callers:
no single Update of 2^28 blocks or more, and Extend only on a context fresh from
Init.  `MCHmac` assumes the same of the lengths of keys and chunks, and
`LengthInOrder`: not a little-endian hash with words shorter than the length on a
big-endian machine.  `MCKeyCareful` assumes `CarefulRequests` besides: salts that leave
room for the block number, PBKDF2(1) only where the hash has the machine's byte order,
and no second iteration of a truncated hash where it has not.  `MCCompression`
holds the vectors of `src/scripts` and the values of FIPS 180-4,
`MCPlatform` eight CPUs and four builds.

Operators marked "slip" are one-line deviations, each the kind of mistake the
code could contain.  No action uses them; put in place of the definition after
them they break the property they are listed with in `PROJECT.json`, which shows
that the property looks at what it says.

## Runs

| Run | Shows | Bounds, and why they do |
| --- | --- | --- |
| `hash_context` | `HashContext` implements `HashAbs`; `Bookkeeping`; the inductive invariant; Extend on a fresh context stands for the blocks behind the digest | two symmetric contexts; BL = 3, RES = 2, LW = 1 (the shape of the 64-bit hashes); chunks of 1 and 4 bytes are buffered, fill the room exactly, spill over it and hold a whole block; 5 bytes end at each fill of the last block, with one and with two closing blocks |
| `hash_long` | violation: one Update longer than the kernel counts | NBLK = 3 for 2^28 |
| `hmac` | `Hmac` implements `HmacAbs`; `Prepared`: an open context holds the masked key and the right outer blocks; the inductive invariant | BL = 10 in five words of two bytes, DL = 4 of SL = 6, a length of two words; keys of one block and of 16 bytes, whose own padding takes a second block; two chunks of 6 bytes, so that Update buffers, tops up and Final takes either path; two contexts, symmetric; both byte orders |
| `one_shot` | `ReturnsDigest` and the invariant behind it for calls kept apart | two threads, six lengths that put the end at each kind of place and leave each kind of tail to the next call |
| `dispatch_lazy` | `LazyAgrees`, `CallsReturn`, `RunsSupported` on real tables | three threads; SHA-1 and SHA2-512, which between them have every kind of test; eight CPUs (Core 2, Haswell, the same with CPUID limited, a virtual machine without BMI, Goldmont, Bulldozer, Zen, ARM); four builds |
| `cpu_features` | violation: RIPEMD160's first choice on CPUs without BMI1 | the same machines, the hashes in little-endian order |
| `dispatch_race` | `RunsUsable`, `Selected` | two threads, three implementations, every build and CPU, masks of one, of all and of none |
| `empty_key` | `KeyedUse`, `OneWriter`, `PublishedForGood`, `ExtractReturns`, `ClaimPublishes` | three threads: a writer, one that loses the claim and a reader; one may end |
| `kernels` | `ChainsAsStandard`, `DigestsAsStandard`, `PartialIsSlice`, `KnownAnswers`, `TruncatedIvs`, `MemsetFills` | all eight hashes at their real size; two blocks, in one call and in two, so that the ring, the registers and the sum are used again; two patterns of bytes; rests on both sides of the padding's boundary; every start and end of Partial; every fill with zeros up to the longest, and with the inner padding behind every key that fits into a block, the empty one included; initial values of 8, 96, 224 and 256 bits, and the digits of every number below 512 |
| `derive` | `DerivedKey` | BL = 8, DL = SL = 4, CB = 2; keys of up to three blocks with every kind of cut; one to three iterations, the third of which starts from buffers used twice; short passwords and long; salts that end at the start of a block, at the last place that leaves room for one closing block, and behind it; both byte orders |
| `pbkdf2` | violation: salts that leave no room for the block number | the same, every salt length modulo the block |
| `pbkdf2_truncated` | violation: the second iteration of a truncated hash on a machine of the other order | the same with SL = 6, one salt, two iterations |

`kernels` disables the deadlock check: a hash that is finished has no further call to
make.  In every other run callers can always make another, or have returned for
good by a step of their own (`Done`), or are the two of three threads of
`empty_key` that cannot end.

### Fairness

`PSpec` of `Platform` asks weak fairness of the steps of each thread that is *inside*
a call, and `FairSpec` of `EmptyKey` the same: the scheduler runs it.  Nothing in
either part blocks, so the code needs no more.  No thread has to make a call, and a
mortal thread may end instead of continuing.  The other parts are sequential: that a
call ends is a matter of its loops, which the runs follow to their ends without a
deadlock; no liveness is stated of them.

### What the violations mean

Each compares the code with a sentence of `README.md` or the Makefile; the sentence is
quoted with the finding in `PROJECT.json`.

* `hash_long`: a 64-bit block count is passed as 32 bits, and multiplied by 16 in
  32 bits.  2^28 blocks in one Update, that is 16 GiB (32 GiB for the long
  blocks), hash as none.
* `pbkdf2`: Tail places the padding for the salt and the block number together, modulo
  the block.  Where the salt's last bytes leave less than four, the padding goes to the
  start of the buffer, over the salt's bytes, and the number behind what is hashed.
  Of 64 lengths, four derive a key no other program would.
* `pbkdf2_truncated`: PBKDF2(Block) on a host of the other order copies
  `HASH_STATE_BYTES` over a digest and the padding behind it.  The first iteration does
  not go through that buffer, every other one does, so SHA2_224 and SHA2_384 derive the
  right key for c = 1 and a wrong one for all others on a little-endian machine.
* `cpu_features`: `ryanc.S` uses `andn`, of BMI1, and is registered where `can_x64` holds.

Disagreements without a run of their own; where a property or an assumption shuts one out,
it is named:

* PBKDF2(1) writes the inner digest in the hash's order into a block that HMAC Init keeps
  in the machine's, and compresses it in the hash's.  Where the orders agree that is one
  and the same; on a little-endian machine every big-endian hash (SHA-1, SHA-2) derives a
  wrong key, and no test calls the function.  `CarefulRequests` has it only where they
  agree; without it `DerivedKey` is violated.
* Extend does not reset `datalen`, so it must follow Init, which nothing says; what an
  older message has left in the buffer is hashed in front of the new bytes.
  `CarefulCalls` asks for Init; without it `ExtendRecreates` is violated.
* Register or-s the complements of 1 (not built) and 2 (not supported), -2 and -3, where
  the names in `llhash.h` are -1 and -2.  "Not built" is returned as NOSUPPORT, "not
  supported" as UNAVAL, "neither" as NOENABLE, and NOTBUILT where some are not built and
  others not supported.  `Dispatch` computes these codes, and no property names them.
* llh_memset of a known length stores zeros in whole turns of 128 bytes whatever the
  value.  The one fill of the library with another value that long is HMAC Init's of 0x36
  behind an empty key of SHA2_384 or SHA2_512.  HKDF Extract without a salt passes the
  length of that key as a literal, in the same translation unit, so a WebAssembly build
  that inlines Init knows it and keys the inner hash with zeros.  `MemsetFills` states it as
  the one exception (`MaskedBlock`), and is violated as well if that fill should agree.
* HMAC Init stores the outer length as two 32-bit words, the high one first
  (`LengthAt`).  A hash whose words are little-endian (MD4, MD5, RIPEMD-160) takes the
  first for the low one.  On a little-endian machine these hashes take another branch,
  so only a big-endian one computes another HMAC than everybody else.  `Hmac` has the
  branch, and without `LengthInOrder` its instances violate `FinalIsHmac`.
* Clear calls `wipe(ctx)`, which takes the size of the pointer: a pointer's width of the
  structure is filled and the rest of the data, the counter and the state survive,
  though `README.md` of the repository says it securely clears it.  The action `Clear`
  does the same (`PtrBytes`).
* A default handler that has begun in one thread overwrites a Register that returns in
  another before it ends (`Selected` excludes it by `NoOtherPicked`; without it
  `dispatch_race` loses the selection).
* The padding array of the one-shot function is static also for callers with their own
  digest array, so no two threads may be in it (`Serial` in `OneShot`).
* HKDF Expand of more than one block: the second block has the number 1 again, the loop
  leaves after it when there are more and does not leave when there are two, the length
  in the padding misses the key's block, the number takes the place of the 0x80 when
  there is no info, and a last whole block is cut to nothing.
* Partial relies on a signed `char`, and its branch for a little-endian hash on a
  big-endian machine tests `pos > end`.
* The native kernel is compiled for the CPU of the build and used on any of the same
  cpuinfo, whose five words leave out features that can be masked off
  (`PlatformAssumption` takes them to be there).
* can_avx and can_avx2 do not ask whether the system saves the wide registers.

## Proofs

TLAPS proves, for every block length, reserve, set of messages and number of
contexts, threads and implementations, and of the eight hashes at their real size for
every message:

* `HashOps_proofs`: what the buffer operators return, that one or two blocks laid
  out as the code does are a padding (`PaddedOne`, `PaddedTwo`), and that the
  padding determines the message (`PaddingInjective`), so that `ImplementsAbs`
  does pin down the bytes that were hashed.  Then, function by function, that each
  preserves `Aligned` and appends the right bytes to `Absorbed` (`BufferedStep`,
  `TopUpStep`, `TakeBlocksStep`, `UpdatedStep`, `FinishedStep`, `ClonedStep`, ...).  These
  lemmas speak of one structure and of any set of cells that has those of the padding,
  for `Hmac` absorbs other cells than `HashContext`.
* `HashContext_proofs`: `InvariantHolds`, `TypeCorrect`, `BookkeepingHolds`,
  `UpdateComplete`, `ExtendExact` and `Refinement` (`Spec => ImplementsAbs`), under
  `CarefulCalls`.  `TypeOK` and `Bookkeeping` are not inductive: Extend needs that a
  fresh context buffers nothing (`NewIsEmpty`) and that the digest it is given stands
  for whole blocks (`WholeDigest`).  `IInv` adds both.  Each action maps to the action of
  `HashAbs` of the same name, or to a stutter.
* `Hmac_proofs`: `HmacInvariant`, `HmacTypeCorrect`, `PreparedHolds`, `FinalExact` and
  `HmacRefinement` (`Spec => ImplementsHmac`), under `ShortCalls` and `LengthInOrder`.
  `Prepared` is nearly inductive: `IInv` adds the types its parts need, and that the
  state of a finished context is the HMAC, which a clone of it inherits.  The argument:
  swapping words is an involution that stays within whole words and moves with them
  (`SwapTwice`, `SwapIn`, `SwapShift`), so a place is either wholly key, digest,
  padding or length in both orders; Init leaves the masked key in the machine's order
  (`ShortIpad`, `LongIpad`, the latter over `KeyHashed`, Init's own copy of Final) and
  the padding where the outer hash reads it (`PaddingLaid`); `Laid` says so place by
  place, and is what `OuterReady` says of the whole (`LaidReady`, `ReadyLaid`); the inner
  digest fits into the gap (`OuterStep`).  A call changes one context and leaves it good
  (`Replaced`), so the invariant needs one lemma per call.
* `OneShot_proofs`: `SerialInvariant` and `SerialDigests`, `ReturnsDigest` when calls are kept apart.
  `IInv` says what each place in the call has laid out in the static padding; it
  is inductive because no other thread is inside a call.
* `Platform_proofs`, first of `Dispatch`: `TypeCorrect`, `CallsAreUsable`, `LazyCallsAgree`
  (when nobody registers explicitly) and `SelectionHolds`.  `Sound` adds to `TypeOK` that
  a pointer once written never returns to its default, that a thread knows it has written
  what is no longer in `left`, and that giving up means there is nothing usable; that
  Register(-1) finds a kernel if there is one rests on least elements of sets of
  naturals.  `Lazy` and `Chosen` extend it.  Then of machines: `RunsAreSupported`, which is `RunsSupported` for any machines and
  builds, if every CPU that hashes RIPEMD160 has BMI1 (`Bmi1ForRipemd`; `cpu_features`
  shows what happens to the others).  The tables only name eight tests (`AllTabled`), and
  a CPU that passes one has every instruction of the kernels the test is named for
  (`TestSuffices`), which rests on what `PlatformAssumption` says of real CPUs.  By
  `MachinesDispatch` (`PSpec => Spec`) all that is proved of `Dispatch` holds of real
  machines; `MachinesAgree` is `LazyAgrees` of them.
* `KeyDerivation_proofs`: `DerivedKeyExact`, which is `DerivedKey` for all passwords,
  salts, ranges and iterations, under the hypotheses of `Hmac_proofs` and
  `CarefulRequests`.  `KInv` says by `pc` what is ready: the contexts as `Prepares` of
  `Hmac_proofs` has them, the outer buffer with room for a number (`OuterBuffer`), the
  inner one with its padding where the inner hash reads it (`InTail`), the state keyed with the
  outer key, and where in the key the loop is (`Positioned`).  The argument: Tail's
  blocks behind whole blocks are the padding of the message (`ClosingTail`, `TailFun`); the
  salt ends in the context where its length says (`SaltEnds`), so the number has its place and
  nothing else moves when it is written (`NumberHashed`); a digest laid in its place
  leaves the padding, in the hash's order and in the machine's (`Placed`), so an iteration
  gives the HMAC of the digest before (`IterateInOrder`, `IterateSwapped`); and a cut
  block continues the key where it was left (`OutputPlaces`, `KeyGrows`).  The iterations
  are recursive functions over their number.  What holds of each is proved from
  the least number for which it would not (`AllNumbers`), the library's theorem that
  the naturals are well-founded, without an induction theorem that takes an operator.
* `EmptyKey_proofs`: `TypeCorrect`, `ExtractIsKeyed`, `FillIsExclusive`, `CacheIsStable`, with
  mortal threads.  The invariant says that the flag is 2 while somebody fills and
  that what was copied so far from a published cache is keyed.

* `Compression_proofs`: `KernelsAre`, that each C kernel computes the compression function
  of its standard (for SHA-2, of `sha2t.c`) on every state and block; `ChainsAlways`,
  `DigestsAlways` and `SlicesAlways`, which are `ChainsAsStandard`, `DigestsAsStandard` and
  `PartialIsSlice` for every set of patterns, number of blocks and place where messages end,
  over `PartialIs`; `FillsAlways`, which is `MemsetFills` for every set of key lengths, over
  `FillsAre` and `MemsetIs`.  In four parts:
  * *Kernels.*  Bytes are their bits, so what is true of bits is true of the bitwise
    operators (`AndBits`, `BytesAre`) and the kernels' forms of the mixing functions are
    the standards'.  In a kernel the registers change roles and in a standard the values
    move: after r rounds the one is the other turned back by r (`Roles`, `SameRoles`,
    `TurnedBack`).  In a kernel sixteen words are written over in a ring and in a standard
    the schedule is laid out first: when a round reads a word of the ring, that is
    the word of the schedule (`Rings`, `Sha1Rings`, `Sha2Rings`).  The rounds are folds, which
    are recursive functions over the number of the round; two folds that stay related
    end related, again from the least number at which they would not
    (`SameTrace`).
  * *Functions around the kernels.*  `TransformIs` and `NativeIs` carry the kernel to a call
    of any number of blocks, `CallGoesOn` says that a chain goes on where the last call
    left it, so it does not matter how the blocks are divided, and `PadIs` and `TailIs`
    that Pad and Tail, over old bytes, leave the standard's padding: for every length
    the arithmetic of the number of blocks, and where 0x80, zeros and length go.
    `StandardHashIs` does the same for the way `sha2t.c` lays out its input, whose digest
    then is the serialized chain.
  * *Partial and memset.*  `Piece` is what a turn of either loop of Partial leaves, and
    `PartialIs` puts the pieces together; `TurnsWrite` says what n turns of 128 bytes do to
    the buffer, and `MemsetWrites` adds the rest.  Where the first turn stores zeros for
    another value the first byte gives it away (`FirstIsZero`), so `MemsetIs` says exactly
    which fills agree: those with zeros or of less than a turn.  `FillsAre` puts the fills of
    a hash to it: all but the one behind an empty key of a 128-byte block.
  * *The invariant.*  Neither property is inductive.  A chain over a message only goes on
    when the message ends with a block, and a digest only comes out right if the state
    and the message before the last call belonged together; nor can Partial be compared
    with the digest unless the state is still the one that was written out.  `Consistent`
    has these parts (`Typed`, `AtBlocks`, `ChainsAsStandard`, `DigestsAsStandard`, `WrittenOut`)
    and is `ConsistentAlways`.  TLC found no violation of it on the instance of `kernels`.

Only model-checked: the liveness properties (`CallsReturn`, `ExtractReturns`,
`ClaimPublishes`), out of this prover's reach, and `KnownAnswers` and `TruncatedIvs`, which
are values of single inputs: TLC evaluates them.  They also tie `Standards` to the world,
for what is proved of the kernels is that they do what `Standards` and `Sha2t` say.

Three limits of these proofs are the model's.  A call in `Compression` takes at most
two blocks and its closing, so that the 32 bits of a kernel's count do not matter; what
happens beyond is `hash_long`.  `sha2t.c` counts in `unsigned int`, so `Sha2t` is the program only for
messages below 2^32 bytes, and its comparison with the kernels is of what it would
do without that limit.  SHA-512 has a length of 128 bits and both implementations leave the upper half
zero, which is the standard for messages below 2^61 bytes.

Assumptions: `SizeAssumption` (1 <= LW <= RES < BL) and `KernelAssumption` hold of
every parameter file, as do those of `HmacAssumption` about sizes: blocks, digests and
states are whole words, a digest is no longer than the state and shorter than a block,
the length is one word or two.  `OuterAssumption` says that the kernel counts further
than the three blocks the outer hash may take.  `CompressionAssumption` has names of the
eight hashes, patterns of bytes, ends of messages within a block and keys no longer than
one.  The others only
type the constants.
TLC evaluates them in every run.

## Not modelled, and the plan

* The instructions of the assembly kernels: straight-line code without state between
  calls, imported or generated.  `Platform` has what they need of the CPU.
* HKDF Expand of more than one block, for the reasons above.  The model would be of a
  function nobody can call and whose outcome is known to be wrong.
* The big-endian host in `Helpers`, and the kernels' `_be` suffix, for which the
  repository has no C kernel.  The orders of both hosts are in `Hmac` and
  `KeyDerivation`.
* `llh_memcpy` and `llh_bzero`: one plain loop in either form.
* `state_debug.c` (debug builds, text), the generators (`libh/`, `scripts/`, `src/libh/`,
  the Makefile), and the drivers around OpenSSL, clocks and files in the tests.
* Wiping is modelled as what it leaves, not as what a compiler might drop.

Next: `DerivedKey` gives the loop of PBKDF2 no end.  That every call reaches `wipe` in as
many turns as the range has blocks needs fairness of the caller's own thread only; as
a bound on `block` it is a safety property and provable from `KInv`.
