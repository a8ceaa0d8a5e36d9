-------------------------- MODULE EmptyKey_proofs --------------------------
(***************************************************************************)
(* Proofs about EmptyKey, for any number of threads.                       *)
(***************************************************************************)
EXTENDS EmptyKey, TLAPS

\* The flag says who may touch the cache: at 1 nobody has, at 2 one thread may
\* write it, at 0 it is complete and everybody may read it.
Guarded ==
  /\ TypeOK
  /\ OneWriter
  /\ \A t \in Thread :
       /\ pc[t] = "test" => got[t] = {}
       /\ pc[t] \in Filling => flag = 2
       /\ pc[t] \in Filling \cup {"cas", "use"} => ctx[t] = Keyed
       /\ pc[t] = "publish" => cache = Keyed
       /\ pc[t] = "read" => flag = 0 /\ \A f \in got[t] : ctx[t][f] = Keyed[f]
  /\ flag = 0 => cache = Keyed

LEMMA KeyedType == Keyed \in Context /\ Zeroed \in Context
BY EmptyKeyAssumption DEF Keyed, Zeroed, Context

\* Two contexts that agree on every field are the same context.
LEMMA SameFields ==
  ASSUME NEW x \in Context, \A f \in Field : x[f] = Keyed[f]
  PROVE  x = Keyed
<1>1. /\ x["bytelen"] = Keyed["bytelen"] /\ x["state"] = Keyed["state"]
      /\ x["datalen"] = Keyed["datalen"] /\ x["hmac"] = Keyed["hmac"]
  BY DEF Field
<1>2. x = [bytelen |-> x.bytelen, state |-> x.state, datalen |-> x.datalen, hmac |-> x.hmac]
  BY DEF Context
<1>3. /\ Keyed.bytelen = BlockLen /\ Keyed.state = "keyed"
      /\ Keyed.datalen = 0 /\ Keyed.hmac = "opad"
  BY DEF Keyed
<1>4. QED
  BY <1>1, <1>2, <1>3 DEF Keyed

LEMMA GuardedInit == Init => Guarded
BY KeyedType DEF Init, Guarded, TypeOK, OneWriter, Filling, Places, Field

LEMMA GuardedNext == Guarded /\ [Next]_vars => Guarded'
<1> SUFFICES ASSUME Guarded, [Next]_vars PROVE Guarded'
  OBVIOUS
<1> USE DEF Filling, Goto
<1>1. CASE UNCHANGED vars
  BY <1>1 DEF vars, Guarded, TypeOK, OneWriter
<1>2. ASSUME NEW t \in Thread, Extract(t) PROVE Guarded'
  BY <1>2, KeyedType DEF Extract, Guarded, TypeOK, OneWriter, Places
<1>3. ASSUME NEW t \in Thread, Test(t) PROVE Guarded'
  <2>1. got[t] = {}
    BY <1>3 DEF Test, Guarded
  <2>2. QED
    BY <1>3, <2>1 DEF Test, Guarded, TypeOK, OneWriter, Places
<1>4. ASSUME NEW t \in Thread, PrivateInit(t) PROVE Guarded'
  BY <1>4, KeyedType DEF PrivateInit, Guarded, TypeOK, OneWriter, Places
<1>5. ASSUME NEW t \in Thread, Claim(t) PROVE Guarded'
  BY <1>5 DEF Claim, Guarded, TypeOK, OneWriter, Places
<1>6. ASSUME NEW t \in Thread, FillHead(t) PROVE Guarded'
  <2>1. cache \in Context
    BY DEF Guarded, TypeOK
  <2>2. cache' \in Context
    BY <1>6, <2>1, EmptyKeyAssumption DEF FillHead, Context
  <2>3. QED
    BY <1>6, <2>2 DEF FillHead, Guarded, TypeOK, OneWriter, Places
<1>7. ASSUME NEW t \in Thread, FillInnerPad(t) PROVE Guarded'
  BY <1>7, EmptyKeyAssumption DEF FillInnerPad, Guarded, TypeOK, OneWriter, Places, Context
<1>8. ASSUME NEW t \in Thread, FillState(t) PROVE Guarded'
  <2>1. cache \in Context
    BY DEF Guarded, TypeOK
  <2>2. cache' \in Context
    BY <1>8, <2>1, EmptyKeyAssumption DEF FillState, Context
  <2>3. QED
    BY <1>8, <2>2 DEF FillState, Guarded, TypeOK, OneWriter, Places
<1>9. ASSUME NEW t \in Thread, FillOuterPad(t) PROVE Guarded'
  BY <1>9, EmptyKeyAssumption DEF FillOuterPad, Guarded, TypeOK, OneWriter, Places, Context
<1>10. ASSUME NEW t \in Thread, FillClone(t) PROVE Guarded'
  BY <1>10 DEF FillClone, Guarded, TypeOK, OneWriter, Places
<1>11. ASSUME NEW t \in Thread, Publish(t) PROVE Guarded'
  BY <1>11 DEF Publish, Guarded, TypeOK, OneWriter, Places
<1>12. ASSUME NEW t \in Thread, NEW f \in Field, Read(t, f) PROVE Guarded'
  BY <1>12, SameFields DEF Read, Guarded, TypeOK, OneWriter, Places, Context, Field
<1>13. ASSUME NEW t \in Thread, Use(t) PROVE Guarded'
  BY <1>13 DEF Use, Guarded, TypeOK, OneWriter, Places
<1>14. ASSUME NEW t \in Thread, Die(t) PROVE Guarded'
  BY <1>14 DEF Die, Guarded, TypeOK, OneWriter, Places
<1>15. QED
  BY <1>1, <1>2, <1>3, <1>4, <1>5, <1>6, <1>7, <1>8, <1>9, <1>10, <1>11, <1>12,
     <1>13, <1>14 DEF Next, Step

\* The flag of the cache has one of its three values, and the structures theirs.
THEOREM TypeCorrect == Spec => []TypeOK
<1>1. Guarded => TypeOK
  BY DEF Guarded
<1>2. QED
  BY <1>1, GuardedInit, GuardedNext, PTL DEF Spec

\* Every call of Extract goes on with a context keyed with the empty string,
\* however many threads race to fill the cache and wherever they are cancelled.
THEOREM ExtractIsKeyed == Spec => []KeyedUse
<1>1. Guarded => KeyedUse
  BY DEF Guarded, KeyedUse
<1>2. QED
  BY <1>1, GuardedInit, GuardedNext, PTL DEF Spec

\* No two threads ever fill the cache at once.
THEOREM FillIsExclusive == Spec => []OneWriter
<1>1. Guarded => OneWriter
  BY DEF Guarded
<1>2. QED
  BY <1>1, GuardedInit, GuardedNext, PTL DEF Spec

\* A published cache is complete and stays as it is.
THEOREM CacheIsStable == Spec => PublishedForGood
<1>1. Guarded /\ [Next]_vars => [flag = 0 => cache = Keyed /\ cache' = cache /\ flag' = 0]_vars
  <2> SUFFICES ASSUME Guarded, Next, flag = 0
               PROVE  cache = Keyed /\ cache' = cache /\ flag' = 0
    OBVIOUS
  <2>1. cache = Keyed /\ \A t \in Thread : pc[t] \notin Filling
    BY DEF Guarded
  <2>2. PICK t \in Thread : Extract(t) \/ Step(t) \/ Die(t)
    BY DEF Next
  <2>3. QED
    BY <2>1, <2>2 DEF Step, Extract, Test, PrivateInit, Claim, FillHead, FillInnerPad,
       FillState, FillOuterPad, FillClone, Publish, Read, Use, Die, Filling
<1>2. QED
  BY <1>1, GuardedInit, GuardedNext, PTL DEF Spec, PublishedForGood
=============================================================================
