---------------------------- MODULE HashContext ----------------------------
(***************************************************************************)
(* The incremental interface of src/md/hash.c.in: HASH_CTX structures and  *)
(* Init, Init_IV, Update, Final, Clone, Clear and Extend on them, called   *)
(* in any order the interface allows.  phase is the caller's own record of *)
(* what it did with each structure; the code has no such field.            *)
(***************************************************************************)
EXTENDS HashOps

CONSTANTS
  Ctx,         \* the caller's HASH_CTX structures
  Chunks,      \* the data arrays handed to Update
  StdIV,       \* HASH(IV)
  PtrBytes,    \* sizeof(HASH_CTX *), what Clear wipes
  ExtendOnto,  \* phases in which callers hand a context to Extend
  MaxBytes,    \* bound: bytes a context may stand for
  NoDigest     \* nothing has been written to hash[] yet

VARIABLES
  ctx,         \* the structures in memory
  phase,       \* what the caller has last done with each of them
  out          \* the last digest written to hash[]

vars == <<ctx, phase, out>>

Phases == {"raw", "new", "open", "done", "cleared"}

ASSUME ChunkAssumption == Chunks \subseteq Seq(Byte)

ASSUME ContextAssumption ==
  /\ StdIV \in IV
  /\ PtrBytes \in Nat
  /\ ExtendOnto \subseteq Phases
  /\ MaxBytes \in Nat
  /\ NoDigest \notin State

\* Uninitialised memory; only datalen decides which branch a call takes.
Garbage ==
  {[data |-> [i \in 1..BL |-> Junk], bytelen |-> n,
    state |-> [iv |-> StdIV, in |-> <<>>], datalen |-> n] : n \in 0..1}

Open(c) == phase[c] \in {"new", "open"}

-----------------------------------------------------------------------------
Init ==
  /\ ctx \in [Ctx -> Garbage]
  /\ phase = [c \in Ctx |-> "raw"]
  /\ out = NoDigest

HashInit(c) ==
  /\ ctx' = [ctx EXCEPT ![c] = Fresh(@, StdIV)]
  /\ phase' = [phase EXCEPT ![c] = "new"]
  /\ UNCHANGED out

HashInitIV(c, iv) ==
  /\ ctx' = [ctx EXCEPT ![c] = Fresh(@, iv)]
  /\ phase' = [phase EXCEPT ![c] = "new"]
  /\ UNCHANGED out

Update(c, m) ==
  /\ Open(c)
  /\ Len(ctx[c].state.in) + ctx[c].datalen + Len(m) <= MaxBytes
  /\ ctx' = [ctx EXCEPT ![c] = Updated(@, m)]
  /\ phase' = [phase EXCEPT ![c] = "open"]
  /\ UNCHANGED out

Final(c) ==
  /\ Open(c)
  /\ ctx' = [ctx EXCEPT ![c] = Finished(@)]
  /\ out' = ctx'[c].state
  /\ phase' = [phase EXCEPT ![c] = "done"]

\* The two structures are distinct objects: memcpy may not overlap.
Clone(dst, src) ==
  /\ dst # src
  /\ phase[src] \in {"new", "open", "done"}
  /\ ctx' = [ctx EXCEPT ![dst] = Cloned(@, ctx[src])]
  /\ phase' = [phase EXCEPT ![dst] = phase[src]]
  /\ UNCHANGED out

\* wipe(ctx) takes sizeof of the pointer it is given.
Clear(c) ==
  /\ ctx' = [ctx EXCEPT ![c].data = OffsetFill(@, 0, Zero, PtrBytes)]
  /\ phase' = [phase EXCEPT ![c] = "cleared"]
  /\ UNCHANGED out

\* The caller passes a digest and the number of blocks behind it.
Extend(c) ==
  /\ out # NoDigest
  /\ phase[c] \in ExtendOnto
  /\ Len(out.in) <= MaxBytes
  /\ ctx' = [ctx EXCEPT ![c] = Extended(@, out, Len(out.in) \div BL)]
  /\ phase' = [phase EXCEPT ![c] = "open"]
  /\ UNCHANGED out

Next ==
  \E c \in Ctx :
    \/ HashInit(c)
    \/ \E iv \in IV : HashInitIV(c, iv)
    \/ \E m \in Chunks : Update(c, m)
    \/ Final(c)
    \/ \E src \in Ctx : Clone(c, src)
    \/ Clear(c)
    \/ Extend(c)

Spec == Init /\ [][Next]_vars

-----------------------------------------------------------------------------
\* The structures and the caller's record of them are well formed.
TypeOK ==
  /\ ctx \in [Ctx -> Context]
  /\ phase \in [Ctx -> Phases]
  /\ out \in State \cup {NoDigest}

\* Between calls every open context is aligned: Final places 0x80 and the length,
\* and Update fills the partial block, on the strength of it.
Bookkeeping == \A c \in Ctx : Open(c) => Aligned(ctx[c])

\* A context that has only been initialised buffers nothing, which is what
\* Extend relies on.
NewIsEmpty == \A c \in Ctx : phase[c] = "new" => ctx[c].datalen = 0

\* The blocks behind a digest are whole ones.
WholeDigest ==
  out # NoDigest => \E q \in 0..Len(out.in) : Len(out.in) = q * BL

\* The inductive invariant.
IInv == TypeOK /\ Bookkeeping /\ NewIsEmpty /\ WholeDigest

\* What the code leaves to its callers: no call passes a kernel more blocks
\* than it can count, and Extend is called on a context fresh from Init.
ShortCalls == \A m \in Chunks : Len(m) < NBLK * BL
CarefulCalls == ShortCalls /\ ExtendOnto \subseteq {"new"}

-----------------------------------------------------------------------------
\* The detailed calls implement the abstract contract: whatever sequence of
\* calls was made, cut into whatever chunks, on structures holding whatever
\* old bytes, Final writes the padding of the very bytes fed to the context.
Stream == [c \in Ctx |->
  IF Open(c) THEN [iv |-> ctx[c].state.iv, in |-> Absorbed(ctx[c])] ELSE <<>>]

Abs == INSTANCE HashAbs WITH stream <- Stream

ImplementsAbs == Abs!AbsSpec

\* After Extend a context stands for the blocks behind the digest and for
\* nothing else, so that what is fed next continues that message.
ExtendRecreates ==
  [][\A c \in Ctx : Extend(c) => Absorbed(ctx'[c]) = out.in]_vars

\* Update hashes all len bytes it is given, however many they are.
UpdateHashesAll ==
  [][\A c \in Ctx : \A m \in Chunks :
       Update(c, m) => Absorbed(ctx'[c]) = Absorbed(ctx[c]) \o m]_vars
=============================================================================
