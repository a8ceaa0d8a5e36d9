------------------------- MODULE HashContext_proofs -------------------------
(***************************************************************************)
(* Proofs about HashContext, for every block length, word size, number of  *)
(* contexts and set of chunks.                                             *)
(***************************************************************************)
EXTENDS HashContext, HashOps_proofs

-----------------------------------------------------------------------------
\* A call writes one context, and tells its caller in which phase it left it.
LEMMA OneContext ==
  ASSUME IInv, NEW c \in Ctx, NEW v \in Context, NEW p \in Phases,
         p \in {"new", "open"} => Aligned(v),
         p = "new" => v.datalen = 0,
         ctx' = [ctx EXCEPT ![c] = v],
         phase' = [phase EXCEPT ![c] = p]
  PROVE  /\ ctx' \in [Ctx -> Context]
         /\ phase' \in [Ctx -> Phases]
         /\ Bookkeeping'
         /\ NewIsEmpty'
<1>1. ctx \in [Ctx -> Context] /\ phase \in [Ctx -> Phases]
  BY DEF IInv, TypeOK
<1>2. /\ ctx'[c] = v /\ phase'[c] = p
      /\ \A d \in Ctx : d # c => ctx'[d] = ctx[d] /\ phase'[d] = phase[d]
  BY <1>1
<1>3. ctx' \in [Ctx -> Context] /\ phase' \in [Ctx -> Phases]
  BY <1>1
<1>4. Bookkeeping'
  <2> SUFFICES ASSUME NEW d \in Ctx, phase'[d] \in {"new", "open"}
               PROVE  Aligned(ctx'[d])
    BY DEF Bookkeeping, Open
  <2>1. CASE d = c
    BY <1>2, <2>1, Zenon
  <2>2. CASE d # c
    BY <1>2, <2>2, Zenon DEF IInv, Bookkeeping, Open
  <2>3. QED
    BY <2>1, <2>2
<1>5. NewIsEmpty'
  BY <1>2, Zenon DEF IInv, NewIsEmpty
<1>6. QED
  BY <1>3, <1>4, <1>5

\* What the calls assume of their context holds in every state.
LEMMA OpenContext ==
  ASSUME IInv, NEW c \in Ctx
  PROVE  ctx[c] \in Context /\ (Open(c) => Aligned(ctx[c]))
BY DEF IInv, TypeOK, Bookkeeping

LEMMA ChunkStep ==
  ASSUME IInv, CarefulCalls, NEW c \in Ctx, Open(c), NEW m \in Chunks
  PROVE  LET v == Updated(ctx[c], m) IN
         /\ v \in Context
         /\ Aligned(v)
         /\ v.state.iv = ctx[c].state.iv
         /\ Absorbed(v) = Absorbed(ctx[c]) \o m
<1>1. m \in Seq(Cell) /\ Len(m) < NBLK * BL
  <2>1. m \in Seq(Byte) /\ Len(m) < NBLK * BL
    BY ChunkAssumption DEF CarefulCalls, ShortCalls
  <2>2. Seq(Byte) \subseteq Seq(Cell)
    BY DEF Cell
  <2>3. QED
    BY <2>1, <2>2
<1>2. ctx[c] \in Context /\ Aligned(ctx[c])
  BY OpenContext
<1>3. QED
  BY <1>1, <1>2, CellForm, UpdatedStep, Zenon

LEMMA CloseStep ==
  ASSUME IInv, NEW c \in Ctx, Open(c)
  PROVE  LET v == Finished(ctx[c]) IN
         /\ v \in Context
         /\ v.state.iv = ctx[c].state.iv
         /\ IsPadded(Absorbed(ctx[c]), v.state.in)
BY OpenContext, CellForm, FinishedStep, Zenon

\* The initial states satisfy the inductive invariant.
LEMMA InitInv == Init => IInv
<1> SUFFICES ASSUME Init PROVE IInv
  OBVIOUS
<1>1. Garbage \subseteq Context
  <2>1. [i \in 1..BL |-> Junk] \in Block /\ [iv |-> StdIV, in |-> << >>] \in State
    BY ContextAssumption DEF Block, State, Cell
  <2> SUFFICES ASSUME NEW n \in 0..1
               PROVE  [data |-> [i \in 1..BL |-> Junk], bytelen |-> n,
                       state |-> [iv |-> StdIV, in |-> << >>], datalen |-> n] \in Context
    BY DEF Garbage
  <2>2. n \in Nat
    OBVIOUS
  <2>3. QED
    BY <2>1, <2>2 DEF Context
<1>2. ctx \in [Ctx -> Context]
  BY <1>1 DEF Init
<1>3. phase \in [Ctx -> Phases] /\ \A c \in Ctx : phase[c] = "raw"
  BY DEF Init, Phases
<1>4. out = NoDigest
  BY DEF Init
<1>5. QED
  BY <1>2, <1>3, <1>4 DEF IInv, TypeOK, Bookkeeping, NewIsEmpty, WholeDigest, Open

\* Every call preserves it.
LEMMA NextInv ==
  ASSUME CarefulCalls, IInv, [Next]_vars
  PROVE  IInv'
<1>1. CASE UNCHANGED vars
  BY <1>1 DEF vars, IInv, TypeOK, Bookkeeping, NewIsEmpty, WholeDigest, Open
<1>2. ASSUME NEW c \in Ctx, NEW v \in Context, NEW p \in Phases,
             p \in {"new", "open"} => Aligned(v),
             p = "new" => v.datalen = 0,
             ctx' = [ctx EXCEPT ![c] = v],
             phase' = [phase EXCEPT ![c] = p],
             out' = out
      PROVE  IInv'
  <2>1. /\ ctx' \in [Ctx -> Context] /\ phase' \in [Ctx -> Phases]
        /\ Bookkeeping' /\ NewIsEmpty'
    BY <1>2, OneContext
  <2>2. out' \in State \cup {NoDigest} /\ WholeDigest'
    BY <1>2 DEF IInv, TypeOK, WholeDigest
  <2>3. QED
    BY <2>1, <2>2 DEF IInv, TypeOK
<1>3. ASSUME NEW c \in Ctx, NEW iv \in IV, HashInitIV(c, iv)
      PROVE  IInv'
  <2>1. /\ Fresh(ctx[c], iv) \in Context /\ Aligned(Fresh(ctx[c], iv))
        /\ Fresh(ctx[c], iv).datalen = 0
    BY OpenContext, CellForm, FreshStep
  <2>2. QED
    BY <1>2, <1>3, <2>1 DEF HashInitIV, Phases
<1>4. ASSUME NEW c \in Ctx, HashInit(c)
      PROVE  IInv'
  BY <1>3, <1>4, ContextAssumption DEF HashInit, HashInitIV
<1>5. ASSUME NEW c \in Ctx, NEW m \in Chunks, Update(c, m)
      PROVE  IInv'
  <2>1. Open(c)
    BY <1>5 DEF Update
  <2>2. Updated(ctx[c], m) \in Context /\ Aligned(Updated(ctx[c], m))
    BY <2>1, ChunkStep
  <2>3. QED
    BY <1>2, <1>5, <2>2 DEF Update, Phases
<1>6. ASSUME NEW c \in Ctx, Final(c)
      PROVE  IInv'
  <2>1. PICK v \in Context : /\ v = Finished(ctx[c])
                             /\ IsPadded(Absorbed(ctx[c]), v.state.in)
    BY <1>6, CloseStep DEF Final
  <2>2. /\ ctx' = [ctx EXCEPT ![c] = v]
        /\ phase' = [phase EXCEPT ![c] = "done"]
        /\ out' = v.state
    <3>1. /\ ctx' = [ctx EXCEPT ![c] = v] /\ out' = ctx'[c].state
          /\ phase' = [phase EXCEPT ![c] = "done"]
      BY <1>6, <2>1, Zenon DEF Final
    <3>2. ctx'[c] = v
      BY <3>1 DEF IInv, TypeOK
    <3>3. QED
      BY <3>1, <3>2
  <2>3. /\ ctx' \in [Ctx -> Context] /\ phase' \in [Ctx -> Phases]
        /\ Bookkeeping' /\ NewIsEmpty'
    <3>1. "done" \in Phases /\ "done" \notin {"new", "open"}
      BY DEF Phases
    <3>2. QED
      BY <2>2, <3>1, OneContext
  <2>4. out' \in State /\ WholeDigest'
    BY <2>1, <2>2, CellForm, Fields DEF WholeDigest, IsPadded
  <2>5. QED
    BY <2>3, <2>4 DEF IInv, TypeOK
<1>7. ASSUME NEW c \in Ctx, NEW src \in Ctx, Clone(c, src)
      PROVE  IInv'
  <2>1. /\ Cloned(ctx[c], ctx[src]) \in Context
        /\ Aligned(ctx[src]) => Aligned(Cloned(ctx[c], ctx[src]))
        /\ Cloned(ctx[c], ctx[src]).datalen = ctx[src].datalen
    BY OpenContext, CellForm, ClonedStep
  <2>2. phase[src] \in Phases /\ (phase[src] \in {"new", "open"} => Aligned(ctx[src]))
    BY DEF IInv, TypeOK, Bookkeeping, Open
  <2>3. phase[src] = "new" => ctx[src].datalen = 0
    BY DEF IInv, NewIsEmpty
  <2>4. QED
    BY <1>2, <1>7, <2>1, <2>2, <2>3 DEF Clone
<1>8. ASSUME NEW c \in Ctx, Clear(c)
      PROVE  IInv'
  <2>1. PICK e \in Block : e = OffsetFill(ctx[c].data, 0, Zero, PtrBytes)
    <3>1. ctx[c].data \in BlockOf(Cell) /\ 0 \in Nat /\ PtrBytes \in Nat /\ CellSet(Cell)
      BY OpenContext, CellForm, Fields, ContextAssumption
    <3>2. Filled(Cell, ctx[c].data, 0, PtrBytes)
      BY <3>1, FillCells, Zenon
    <3>3. QED
      BY <3>2, CellForm DEF Filled
  <2> DEFINE v == [ctx[c] EXCEPT !.data = e]
  <2>2. v \in Context
    BY OpenContext DEF Context
  <2>3. ctx' = [ctx EXCEPT ![c] = v] /\ phase' = [phase EXCEPT ![c] = "cleared"] /\ out' = out
    BY <1>8, <2>1, Zenon DEF Clear
  <2> HIDE DEF v
  <2>4. QED
    BY <1>2, <2>2, <2>3 DEF Phases
<1>9. ASSUME NEW c \in Ctx, Extend(c)
      PROVE  IInv'
  <2>1. PICK v \in Context : /\ v = Extended(ctx[c], out, Len(out.in) \div BL)
                             /\ Aligned(v)
    <3>1. out \in State /\ \E q \in 0..Len(out.in) : Len(out.in) = q * BL
      BY <1>9 DEF Extend, IInv, TypeOK, WholeDigest
    <3>2. phase[c] = "new"
      BY <1>9 DEF Extend, CarefulCalls
    <3>3. ctx[c] \in Context /\ ctx[c].datalen = 0
      BY <3>2, OpenContext DEF IInv, NewIsEmpty
    <3>4. QED
      BY <3>1, <3>3, CellForm, ExtendedStep
  <2>2. QED
    BY <1>2, <1>9, <2>1 DEF Extend, Phases
<1>10. QED
  BY <1>1, <1>3, <1>4, <1>5, <1>6, <1>7, <1>8, <1>9, Zenon DEF Next

\* What Update, Final, Clone and Extend assume of the structures they are given
\* holds after any calls before them.
THEOREM InvariantHolds ==
  ASSUME CarefulCalls PROVE Spec => []IInv
BY InitInv, NextInv, PTL DEF Spec

\* Whatever calls are made in whatever order, the structures stay well formed.
THEOREM TypeCorrect ==
  ASSUME CarefulCalls PROVE Spec => []TypeOK
<1>1. IInv => TypeOK
  BY DEF IInv
<1>2. QED
  BY <1>1, InitInv, NextInv, PTL DEF Spec

\* Between calls every open context holds less than a block and has counted
\* exactly the bytes it has compressed.
THEOREM BookkeepingHolds ==
  ASSUME CarefulCalls PROVE Spec => []Bookkeeping
<1>1. IInv => Bookkeeping
  BY DEF IInv
<1>2. QED
  BY <1>1, InitInv, NextInv, PTL DEF Spec

-----------------------------------------------------------------------------
\* Update hashes all len bytes it is given: what a context stands for grows by
\* exactly the chunk, whichever branch the chunk's length selects.
THEOREM UpdateComplete ==
  ASSUME CarefulCalls PROVE Spec => UpdateHashesAll
<1>1. ASSUME IInv, [Next]_vars
      PROVE  [\A c \in Ctx : \A m \in Chunks :
                Update(c, m) => Absorbed(ctx'[c]) = Absorbed(ctx[c]) \o m]_vars
  <2> SUFFICES ASSUME NEW c \in Ctx, NEW m \in Chunks, Update(c, m)
               PROVE  Absorbed(ctx'[c]) = Absorbed(ctx[c]) \o m
    OBVIOUS
  <2>1. Absorbed(Updated(ctx[c], m)) = Absorbed(ctx[c]) \o m
    BY <1>1, ChunkStep DEF Update
  <2>2. ctx' = [ctx EXCEPT ![c] = Updated(ctx[c], m)] /\ ctx \in [Ctx -> Context]
    BY <1>1 DEF Update, IInv, TypeOK
  <2>3. ctx'[c] = Updated(ctx[c], m)
    BY <2>2
  <2>4. QED
    BY <2>1, <2>3, Zenon
<1>2. QED
  BY <1>1, InitInv, NextInv, PTL DEF Spec, UpdateHashesAll

\* After Extend a context stands for the blocks behind the digest and nothing
\* else: Init leaves datalen at 0, and Extend relies on it.
THEOREM ExtendExact ==
  ASSUME CarefulCalls PROVE Spec => ExtendRecreates
<1>1. ASSUME IInv, [Next]_vars
      PROVE  [\A c \in Ctx : Extend(c) => Absorbed(ctx'[c]) = out.in]_vars
  <2> SUFFICES ASSUME NEW c \in Ctx, Extend(c)
               PROVE  Absorbed(ctx'[c]) = out.in
    OBVIOUS
  <2> DEFINE v == Extended(ctx[c], out, Len(out.in) \div BL)
  <2>1. ctx[c] \in Context /\ ctx[c].datalen = 0
    <3>1. phase[c] = "new"
      BY DEF Extend, CarefulCalls
    <3>2. QED
      BY <1>1, <3>1, OpenContext DEF IInv, NewIsEmpty
  <2>2. out \in State /\ \E q \in 0..Len(out.in) : Len(out.in) = q * BL
    BY <1>1 DEF Extend, IInv, TypeOK, WholeDigest
  <2>3. Absorbed(v) = out.in
    BY <2>1, <2>2, CellForm, ExtendedStep
  <2>4. ctx' = [ctx EXCEPT ![c] = v] /\ ctx \in [Ctx -> Context]
    BY <1>1 DEF Extend, IInv, TypeOK
  <2>5. ctx'[c] = v
    BY <2>4
  <2>6. QED
    BY <2>3, <2>5, Zenon
<1>2. QED
  BY <1>1, InitInv, NextInv, PTL DEF Spec, ExtendRecreates

-----------------------------------------------------------------------------
\* The stream a context stands for, as the mapping defines it.
View(x, ph) ==
  IF ph \in {"new", "open"} THEN [iv |-> x.state.iv, in |-> Absorbed(x)] ELSE << >>

LEMMA OneStream ==
  ASSUME IInv, NEW c \in Ctx, NEW v \in Context, NEW p \in Phases,
         ctx' = [ctx EXCEPT ![c] = v],
         phase' = [phase EXCEPT ![c] = p]
  PROVE  Stream' = [Stream EXCEPT ![c] = View(v, p)]
<1>1. ctx \in [Ctx -> Context] /\ phase \in [Ctx -> Phases]
  BY DEF IInv, TypeOK
<1>2. /\ ctx'[c] = v /\ phase'[c] = p
      /\ \A d \in Ctx : d # c => ctx'[d] = ctx[d] /\ phase'[d] = phase[d]
  BY <1>1
<1>3. Stream = [d \in Ctx |-> View(ctx[d], phase[d])]
  BY Zenon DEF Stream, View, Open
<1>4. Stream' = [d \in Ctx |-> View(ctx'[d], phase'[d])]
  BY Zenon DEF Stream, View, Open
<1>5. \A d \in Ctx : View(ctx'[d], phase'[d]) = IF d = c THEN View(v, p) ELSE View(ctx[d], phase[d])
  <2> SUFFICES ASSUME NEW d \in Ctx
               PROVE  View(ctx'[d], phase'[d]) = IF d = c THEN View(v, p) ELSE View(ctx[d], phase[d])
    OBVIOUS
  <2>1. CASE d = c
    BY <1>2, <2>1
  <2>2. CASE d # c
    BY <1>2, <2>2
  <2>3. QED
    BY <2>1, <2>2
<1>6. [Stream EXCEPT ![c] = View(v, p)]
        = [d \in Ctx |-> IF d = c THEN View(v, p) ELSE View(ctx[d], phase[d])]
  BY <1>3
<1>7. QED
  BY <1>4, <1>5, <1>6

\* The stream of an open context.
LEMMA StreamOf ==
  ASSUME NEW c \in Ctx
  PROVE  /\ Stream[c] = View(ctx[c], phase[c])
         /\ Open(c) => Stream[c] = [iv |-> ctx[c].state.iv, in |-> Absorbed(ctx[c])]
BY DEF Stream, View, Open

LEMMA InitMaps == Init => Abs!AbsInit
BY DEF Init, Abs!AbsInit, Abs!Nothing, Stream, Open

\* Every call is a step of the abstract contract.
LEMMA NextMaps ==
  ASSUME CarefulCalls, IInv, [Next]_vars
  PROVE  [Abs!AbsNext]_(Abs!absVars)
<1>1. CASE UNCHANGED vars
  BY <1>1 DEF vars, Abs!absVars, Stream, Open
<1>2. ASSUME NEW c \in Ctx, NEW iv \in IV, HashInitIV(c, iv)
      PROVE  Abs!Start(c, iv)
  <2>1. PICK v \in Context : /\ v = Fresh(ctx[c], iv)
                             /\ v.state.iv = iv /\ Absorbed(v) = << >>
    BY OpenContext, CellForm, FreshStep
  <2>2. ctx' = [ctx EXCEPT ![c] = v] /\ phase' = [phase EXCEPT ![c] = "new"] /\ out' = out
    BY <1>2, <2>1, Zenon DEF HashInitIV
  <2>3. Stream' = [Stream EXCEPT ![c] = View(v, "new")]
    BY <2>2, OneStream DEF Phases
  <2>4. View(v, "new") = [iv |-> iv, in |-> << >>]
    BY <2>1 DEF View
  <2>5. QED
    BY <2>2, <2>3, <2>4, Zenon DEF Abs!Start
<1>3. ASSUME NEW c \in Ctx, HashInit(c)
      PROVE  Abs!Start(c, StdIV)
  BY <1>2, <1>3, ContextAssumption DEF HashInit, HashInitIV
<1>4. ASSUME NEW c \in Ctx, NEW m \in Chunks, Update(c, m)
      PROVE  Abs!Feed(c, m)
  <2>1. Open(c)
    BY <1>4 DEF Update
  <2>2. PICK v \in Context : /\ v = Updated(ctx[c], m)
                             /\ v.state.iv = ctx[c].state.iv
                             /\ Absorbed(v) = Absorbed(ctx[c]) \o m
    BY <2>1, ChunkStep
  <2>3. ctx' = [ctx EXCEPT ![c] = v] /\ phase' = [phase EXCEPT ![c] = "open"] /\ out' = out
    BY <1>4, <2>2, Zenon DEF Update
  <2>4. Stream' = [Stream EXCEPT ![c] = View(v, "open")]
    BY <2>3, OneStream DEF Phases
  <2>5. PICK a : a = Absorbed(ctx[c])
    OBVIOUS
  <2>6. View(v, "open") = [iv |-> ctx[c].state.iv, in |-> a \o m]
    <3>1. View(v, "open") = [iv |-> v.state.iv, in |-> Absorbed(v)]
      BY DEF View
    <3>2. QED
      BY <2>2, <2>5, <3>1, Zenon
  <2>7. Stream[c] = [iv |-> ctx[c].state.iv, in |-> a]
    BY <2>1, <2>5, StreamOf, Zenon
  <2>8. [Stream[c] EXCEPT !.in = Stream[c].in \o m] = [iv |-> ctx[c].state.iv, in |-> a \o m]
    <3>1. Stream[c].in \o m = a \o m
      BY <2>7
    <3>2. PICK b : b = a \o m
      OBVIOUS
    <3>3. [Stream[c] EXCEPT !.in = b] = [iv |-> ctx[c].state.iv, in |-> b]
      BY <2>7, SMT
    <3>4. QED
      BY <3>1, <3>2, <3>3, Zenon
  <2>9. Stream' = [Stream EXCEPT ![c] = [Stream[c] EXCEPT !.in = Stream[c].in \o m]]
    BY <2>4, <2>6, <2>8, Zenon
  <2>10. Abs!Open(c)
    BY <2>1 DEF Open, Abs!Open
  <2>11. QED
    BY <2>3, <2>9, <2>10 DEF Abs!Feed
<1>5. ASSUME NEW c \in Ctx, Final(c)
      PROVE  Abs!Finish(c)
  <2>1. Open(c)
    BY <1>5 DEF Final
  <2>2. PICK v \in Context : /\ v = Finished(ctx[c])
                             /\ v.state.iv = ctx[c].state.iv
                             /\ IsPadded(Absorbed(ctx[c]), v.state.in)
    BY <2>1, CloseStep
  <2>3. /\ ctx' = [ctx EXCEPT ![c] = v] /\ out' = ctx'[c].state
        /\ phase' = [phase EXCEPT ![c] = "done"]
    BY <1>5, <2>2, Zenon DEF Final
  <2>4. out' = v.state /\ out' \in State
    BY <2>3, CellForm, Fields DEF IInv, TypeOK
  <2>5. Stream' = [Stream EXCEPT ![c] = << >>]
    <3>1. View(v, "done") = << >>
      BY DEF View
    <3>2. Stream' = [Stream EXCEPT ![c] = View(v, "done")]
      BY <2>3, OneStream DEF Phases
    <3>3. QED
      BY <3>1, <3>2, Zenon
  <2>6. out' # NoDigest
    BY <2>4, ContextAssumption
  <2>7. Stream[c].iv = ctx[c].state.iv /\ Stream[c].in = Absorbed(ctx[c])
    <3>1. Stream[c] = [iv |-> ctx[c].state.iv, in |-> Absorbed(ctx[c])]
      BY <2>1, StreamOf
    <3>2. QED
      BY <3>1
  <2>8. Abs!IsPadded(Absorbed(ctx[c]), v.state.in)
    BY <2>2 DEF IsPadded, Abs!IsPadded, LengthCell, Abs!LengthCell
  <2>9. Abs!Open(c)
    BY <2>1 DEF Open, Abs!Open
  <2>10. out'.iv = Stream[c].iv /\ Abs!IsPadded(Stream[c].in, out'.in)
    BY <2>2, <2>4, <2>7, <2>8, Zenon
  <2>11. QED
    BY <2>3, <2>5, <2>6, <2>9, <2>10, Zenon DEF Abs!Finish, Abs!Nothing
<1>6. ASSUME NEW c \in Ctx, NEW src \in Ctx, Clone(c, src)
      PROVE  Abs!Duplicate(c, src)
  <2>1. PICK v \in Context : /\ v = Cloned(ctx[c], ctx[src])
                             /\ v.state = ctx[src].state
                             /\ Absorbed(v) = Absorbed(ctx[src])
    BY OpenContext, CellForm, ClonedStep
  <2>2. /\ ctx' = [ctx EXCEPT ![c] = v] /\ phase' = [phase EXCEPT ![c] = phase[src]]
        /\ out' = out
    BY <1>6, <2>1, Zenon DEF Clone
  <2>3. phase[src] \in Phases
    BY DEF IInv, TypeOK
  <2>4. Stream' = [Stream EXCEPT ![c] = View(v, phase[src])]
    BY <2>2, <2>3, OneStream
  <2>5. View(v, phase[src]) = Stream[src]
    <3>1. View(v, phase[src]) = View(ctx[src], phase[src])
      BY <2>1, Zenon DEF View
    <3>2. QED
      BY <3>1, StreamOf, Zenon
  <2>6. QED
    BY <2>2, <2>4, <2>5, Zenon DEF Abs!Duplicate
<1>7. ASSUME NEW c \in Ctx, Clear(c)
      PROVE  Abs!Forget(c)
  <2>1. PICK e \in Block : e = OffsetFill(ctx[c].data, 0, Zero, PtrBytes)
    <3>1. ctx[c].data \in BlockOf(Cell) /\ 0 \in Nat /\ PtrBytes \in Nat /\ CellSet(Cell)
      BY OpenContext, CellForm, Fields, ContextAssumption
    <3>2. Filled(Cell, ctx[c].data, 0, PtrBytes)
      BY <3>1, FillCells, Zenon
    <3>3. QED
      BY <3>2, CellForm DEF Filled
  <2> DEFINE v == [ctx[c] EXCEPT !.data = e]
  <2>2. v \in Context
    BY OpenContext DEF Context
  <2>3. ctx' = [ctx EXCEPT ![c] = v] /\ phase' = [phase EXCEPT ![c] = "cleared"] /\ out' = out
    BY <1>7, <2>1, Zenon DEF Clear
  <2> HIDE DEF v
  <2>4. Stream' = [Stream EXCEPT ![c] = View(v, "cleared")]
    BY <2>2, <2>3, OneStream DEF Phases
  <2>5. View(v, "cleared") = << >>
    BY DEF View
  <2>6. QED
    BY <2>3, <2>4, <2>5, Zenon DEF Abs!Forget, Abs!Nothing
<1>8. ASSUME NEW c \in Ctx, Extend(c)
      PROVE  Abs!Resume(c)
  <2>1. out \in State /\ \E q \in 0..Len(out.in) : Len(out.in) = q * BL
    BY <1>8 DEF Extend, IInv, TypeOK, WholeDigest
  <2>2. phase[c] = "new"
    BY <1>8 DEF Extend, CarefulCalls
  <2>3. PICK v \in Context : /\ v = Extended(ctx[c], out, Len(out.in) \div BL)
                             /\ v.state = out /\ Absorbed(v) = out.in
    <3>1. ctx[c] \in Context /\ ctx[c].datalen = 0
      BY <2>2, OpenContext DEF IInv, NewIsEmpty
    <3>2. QED
      BY <2>1, <3>1, CellForm, ExtendedStep
  <2>4. /\ ctx' = [ctx EXCEPT ![c] = v] /\ phase' = [phase EXCEPT ![c] = "open"]
        /\ out' = out /\ out # NoDigest
    BY <1>8, <2>3, Zenon DEF Extend
  <2>5. Stream' = [Stream EXCEPT ![c] = View(v, "open")]
    BY <2>4, OneStream DEF Phases
  <2>6. View(v, "open") = out
    <3>1. View(v, "open") = [iv |-> out.iv, in |-> out.in]
      BY <2>3, Zenon DEF View
    <3>2. QED
      BY <2>1, <3>1 DEF State
  <2>7. QED
    BY <2>4, <2>5, <2>6, Zenon DEF Abs!Resume
<1>9. CASE Next
  <2>1. PICK c \in Ctx : \/ HashInit(c)
                         \/ \E iv \in IV : HashInitIV(c, iv)
                         \/ \E m \in Chunks : Update(c, m)
                         \/ Final(c)
                         \/ \E src \in Ctx : Clone(c, src)
                         \/ Clear(c)
                         \/ Extend(c)
    BY <1>9 DEF Next
  <2>2. StdIV \in IV
    BY ContextAssumption
  <2>3. QED
    BY <1>2, <1>3, <1>4, <1>5, <1>6, <1>7, <1>8, <2>1, <2>2, Zenon DEF Abs!AbsNext
<1>10. QED
  BY <1>1, <1>9

\* The incremental interface hashes exactly the bytes it is fed: every
\* behaviour of the code's calls is one of the abstract contract, in which
\* Final writes the padding of the bytes fed to that context since its start.
THEOREM Refinement ==
  ASSUME CarefulCalls PROVE Spec => ImplementsAbs
BY InitMaps, InitInv, NextInv, NextMaps, PTL DEF Spec, ImplementsAbs, Abs!AbsSpec
=============================================================================
