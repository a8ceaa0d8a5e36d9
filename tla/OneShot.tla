------------------------------ MODULE OneShot ------------------------------
(***************************************************************************)
(* The one-shot function HASH(data, len, hash) of src/md/hash.c.in.  It    *)
(* pads in a static array that every call shares, and writes the digest to *)
(* another static array when hash is NULL.  Threads call it, each access   *)
(* to shared memory being a step of its own.  Definitions marked "slip"    *)
(* are deliberate errors that no action uses.                              *)
(***************************************************************************)
EXTENDS MDBuffers

CONSTANTS
  Thread,    \* the threads of the process
  Messages,  \* the data arrays they hash
  Dests,     \* what they pass for hash: "own" arrays or "null"
  StdIV,     \* HASH(IV)
  Serial,    \* whether callers keep their calls apart
  NoDigest   \* what an output array holds before the first digest

ASSUME OneShotAssumption ==
  /\ Messages \subseteq Seq(Byte)
  /\ \A m \in Messages : Len(m) < NBLK * BL
  /\ Dests \subseteq {"own", "null"}
  /\ StdIV \in IV
  /\ Serial \in BOOLEAN
  /\ NoDigest \notin State

VARIABLES
  padding,      \* the static array of two blocks
  hash_output,  \* the static digest
  pc,           \* where each thread is
  msg, dest,    \* the arguments of its call
  state,        \* its chaining state, on its stack
  own           \* its own array for the digest

vars == <<padding, hash_output, pc, msg, dest, state, own>>

Places == {"idle", "copy", "mark", "fill", "length", "compress", "output", "returned"}

\* dblk and remaining_bytes
Blocks(m) == Len(m) \div BL
Rest(m) == SubSeq(m, Blocks(m) * BL + 1, Len(m))

\* slip: the reserve is not left.
TailBlocksTight(m) == IF Len(Rest(m)) < BL - LW + 1 THEN 1 ELSE 2

\* The padding takes one block, or two if the length does not fit behind it.
TailBlocks(m) == IF Len(Rest(m)) < BL - RES THEN 1 ELSE 2

\* What the caller finds in the array that was returned to it.
Returned(t) == IF dest[t] = "own" THEN own[t] ELSE hash_output

-----------------------------------------------------------------------------
\* The static arrays start as zeros.
Init ==
  /\ padding = [i \in 1..(2 * BL) |-> Zero]
  /\ hash_output = NoDigest
  /\ pc = [t \in Thread |-> "idle"]
  /\ msg = [t \in Thread |-> <<>>]
  /\ dest = [t \in Thread |-> "own"]
  /\ state = [t \in Thread |-> [iv |-> StdIV, in |-> <<>>]]
  /\ own = [t \in Thread |-> NoDigest]

Goto(t, p) == pc' = [pc EXCEPT ![t] = p]

\* The call, and state[] = HASH(IV).
Call(t, m, d) ==
  /\ pc[t] = "idle"
  /\ Serial => \A u \in Thread : pc[u] = "idle"
  /\ msg' = [msg EXCEPT ![t] = m]
  /\ dest' = [dest EXCEPT ![t] = d]
  /\ state' = [state EXCEPT ![t] = [iv |-> StdIV, in |-> <<>>]]
  /\ Goto(t, "copy")
  /\ UNCHANGED <<padding, hash_output, own>>

CopyRest(t) ==
  /\ pc[t] = "copy"
  /\ padding' = OffsetCopy(padding, 0, Rest(msg[t]))
  /\ Goto(t, "mark")
  /\ UNCHANGED <<hash_output, msg, dest, state, own>>

\* 0x80 into the padding, then the whole blocks of the caller's array.
MarkEnd(t) ==
  /\ pc[t] = "mark"
  /\ padding' = OffsetCopy(padding, Len(Rest(msg[t])), <<Pad80>>)
  /\ state' = [state EXCEPT ![t] =
       IF Blocks(msg[t]) # 0 THEN Transform(@, msg[t], Blocks(msg[t])) ELSE @]
  /\ Goto(t, "fill")
  /\ UNCHANGED <<hash_output, msg, dest, own>>

\* slip: the fill ends where the reserve begins.
FillZerosShort(t) ==
  /\ pc[t] = "fill"
  /\ padding' = OffsetFill(padding, Len(Rest(msg[t])) + 1, Zero,
                           TailBlocks(msg[t]) * BL - RES)
  /\ Goto(t, "length")
  /\ UNCHANGED <<hash_output, msg, dest, state, own>>

FillZeros(t) ==
  /\ pc[t] = "fill"
  /\ padding' = OffsetFill(padding, Len(Rest(msg[t])) + 1, Zero,
                           TailBlocks(msg[t]) * BL - LW)
  /\ Goto(t, "length")
  /\ UNCHANGED <<hash_output, msg, dest, state, own>>

PutLength(t) ==
  /\ pc[t] = "length"
  /\ padding' = StoreLength(padding, Len(msg[t]), TailBlocks(msg[t]) * BL)
  /\ Goto(t, "compress")
  /\ UNCHANGED <<hash_output, msg, dest, state, own>>

Compress(t) ==
  /\ pc[t] = "compress"
  /\ state' = [state EXCEPT ![t] = Transform(@, padding, TailBlocks(msg[t]))]
  /\ Goto(t, "output")
  /\ UNCHANGED <<padding, hash_output, msg, dest, own>>

\* serialize into hash, or into the static array
Output(t) ==
  /\ pc[t] = "output"
  /\ IF dest[t] = "own"
     THEN own' = [own EXCEPT ![t] = state[t]] /\ UNCHANGED hash_output
     ELSE hash_output' = state[t] /\ UNCHANGED own
  /\ Goto(t, "returned")
  /\ UNCHANGED <<padding, msg, dest, state>>

\* The caller has read the digest and makes no more use of the array.
Done(t) ==
  /\ pc[t] = "returned"
  /\ Goto(t, "idle")
  /\ UNCHANGED <<padding, hash_output, msg, dest, state, own>>

Next ==
  \E t \in Thread :
    \/ \E m \in Messages, d \in Dests : Call(t, m, d)
    \/ CopyRest(t) \/ MarkEnd(t) \/ FillZeros(t) \/ PutLength(t)
    \/ Compress(t) \/ Output(t) \/ Done(t)

Spec == Init /\ [][Next]_vars

-----------------------------------------------------------------------------
\* The static arrays and the threads' locals have their types.
TypeOK ==
  /\ padding \in [1..(2 * BL) -> Cell]
  /\ hash_output \in State \cup {NoDigest}
  /\ pc \in [Thread -> Places]
  /\ msg \in [Thread -> Messages \cup {<<>>}]
  /\ dest \in [Thread -> {"own", "null"}]
  /\ state \in [Thread -> State]
  /\ own \in [Thread -> State \cup {NoDigest}]

\* What the first blocks of the padding hold once a thread got to a place.
PaddingAt(t) ==
  LET m == msg[t]
      r == Len(Rest(m))
      e == TailBlocks(m) * BL
  IN  /\ pc[t] \in {"mark", "fill", "length", "compress"} =>
           \A i \in 1..r : padding[i] = m[Blocks(m) * BL + i]
      /\ pc[t] \in {"fill", "length", "compress"} => padding[r + 1] = Pad80
      /\ pc[t] \in {"length", "compress"} =>
           \A i \in (r + 2)..(e - LW) : padding[i] = Zero
      /\ pc[t] = "compress" =>
           \A i \in (e - LW + 1)..e : padding[i] = LengthCell(Len(m), i - (e - LW))

\* What a thread has compressed once it got there.
StateAt(t) ==
  LET m == msg[t]
  IN  /\ state[t].iv = StdIV
      /\ pc[t] \in {"copy", "mark"} => state[t].in = <<>>
      /\ pc[t] \in {"fill", "length", "compress"} =>
           state[t].in = SubSeq(m, 1, Blocks(m) * BL)
      /\ pc[t] \in {"output", "returned"} => IsPadded(m, state[t].in)
      /\ pc[t] = "returned" => Returned(t) = state[t]

\* The invariant behind ReturnsDigest when calls are kept apart: the tail of a
\* message is laid out over whatever the call before left in the padding.
IInv ==
  /\ TypeOK
  /\ \A t \in Thread : pc[t] # "idle" =>
       /\ PaddingAt(t)
       /\ StateAt(t)
       /\ \A u \in Thread \ {t} : pc[u] = "idle"

\* A caller finds the digest of its own message in the array returned to it,
\* whatever the shared arrays held before the call.
ReturnsDigest ==
  \A t \in Thread : pc[t] = "returned" =>
    /\ Returned(t) # NoDigest
    /\ Returned(t).iv = StdIV
    /\ IsPadded(msg[t], Returned(t).in)
=============================================================================
