-------------------------- MODULE Platform_proofs --------------------------
(***************************************************************************)
(* Proofs about Dispatch, for any number of threads and implementations,   *)
(* and about Platform: the tests param.h names for the implementations     *)
(* keep from every CPU the instructions it lacks, for any set of machines  *)
(* and builds.                                                             *)
(***************************************************************************)
EXTENDS Platform, WellFoundedInduction, TLAPS

-----------------------------------------------------------------------------
\* Dispatch.

\* Register finds an implementation as long as one it may use is enabled.
LEMMA SomeFirst ==
  ASSUME NEW m, NEW i \in Impl, i \in m \cap Usable
  PROVE  \E j \in Impl : First(j, m)
<1> DEFINE T == {j \in Impl : j \in m \cap Usable}
           R == OpToRel(<, Nat)
<1>1. T \subseteq Nat /\ T # {} /\ N \in Nat
  BY DispatchAssumption DEF Impl
<1>2. PICK j \in T : \A k \in T : ~(<<k, j>> \in R)
  <2>1. IsWellFoundedOn(R, Nat)
    BY NatLessThanWellFounded
  <2> HIDE DEF T, R
  <2>2. QED
    BY <1>1, <2>1, WFMin
<1>3. ASSUME NEW k \in 1..(j - 1) PROVE k \notin m \cap Usable
  <2>1. k \in Impl /\ k \in Nat /\ j \in Nat /\ k < j
    BY <1>1 DEF Impl
  <2>2. <<k, j>> \in R
    BY <2>1 DEF OpToRel
  <2>3. QED
    BY <1>2, <2>1, <2>2
<1>4. QED
  BY <1>2, <1>3 DEF First

\* A pointer leaves its default handler once, for a kernel that can run, and a
\* thread only calls through a pointer it knows has left it.
Sound ==
  /\ TypeOK
  /\ transform \in Usable \cup {Default, Invalid}
  /\ native \in Usable \cup {Default, Invalid}
  /\ ran \subseteq Usable \cup {Invalid}
  /\ transform = Invalid \/ native = Invalid \/ Invalid \in ran => Usable = {}
  /\ \A t \in Thread :
       /\ pc[t] = "giveup" => Usable = {}
       /\ pc[t] = "scan" /\ slot[t] # "register" => mask[t] = 1..(N + 1)
       /\ pc[t] = "write" => picked[t] \in Usable
       /\ pc[t] \in {"write", "giveup"} =>
            /\ "transform" \notin left[t] => transform # Default
            /\ "native" \notin left[t] => native # Default
       /\ pc[t] = "again" => transform # Default /\ native # Default

LEMMA SoundInit == Init => Sound
BY DispatchAssumption DEF Init, Sound, TypeOK, Usable, Impl, Default, Invalid

LEMMA SoundNext ==
  ASSUME Sound, [Next]_vars
  PROVE  Sound'
<1> USE DEF Default, Invalid
<1>1. Default \notin Usable /\ Invalid \notin Usable /\ N \in Nat /\ Usable \subseteq Impl /\ Impl \subseteq 1..(N + 1)
  BY DispatchAssumption DEF Sound, TypeOK, Usable, Impl
<1>2. CASE UNCHANGED vars
  BY <1>2 DEF vars, Sound, TypeOK, Usable
<1>3. ASSUME NEW t \in Thread, NEW s \in Pointers, Call(t, s)
      PROVE  Sound'
  <2>1. 1..(N + 1) \in SUBSET (1..(N + 1))
    OBVIOUS
  <2>2. /\ Pointer(s) # Default => Pointer(s) \in Usable \cup {Invalid}
        /\ Pointer(s) = Invalid => Usable = {}
    BY DEF Sound, Pointer
  <2>3. TypeOK'
    <3>1. CASE Pointer(s) = Default
      <4>1. mask' = [mask EXCEPT ![t] = 1..(N + 1)] /\ pc' = [pc EXCEPT ![t] = "scan"]
        BY <1>3, <3>1 DEF Call
      <4>2. mask' \in [Thread -> SUBSET (1..(N + 1))]
        BY <2>1, <4>1 DEF Sound, TypeOK
      <4>3. /\ pc' \in [Thread -> {"idle", "scan", "write", "giveup", "again"}]
            /\ slot' \in [Thread -> Pointers \cup {"register"}]
        BY <1>3, <4>1 DEF Call, Sound, TypeOK
      <4>4. UNCHANGED <<built, capable, transform, native, picked, left, result, ran>>
        BY <1>3, <3>1 DEF Call, machine
      <4>5. QED
        BY <4>2, <4>3, <4>4 DEF Sound, TypeOK
    <3>2. CASE Pointer(s) # Default
      <4>1. ran' \subseteq Impl \cup {Default, Invalid}
        BY <1>1, <1>3, <2>2, <3>2 DEF Call, Sound, TypeOK
      <4>2. QED
        BY <1>3, <3>2, <4>1 DEF Call, Sound, TypeOK, machine
    <3>3. QED
      BY <3>1, <3>2
  <2>4. QED
    BY <1>3, <2>2, <2>3 DEF Call, Sound, TypeOK, Usable, machine
<1>4. ASSUME NEW t \in Thread, NEW m \in Masks, Register(t, m)
      PROVE  Sound'
  <2>1. TypeOK'
    BY <1>4, DispatchAssumption DEF Register, Sound, TypeOK, machine
  <2>2. QED
    BY <1>4, <2>1 DEF Register, Sound, TypeOK, Usable, machine
<1>5. ASSUME NEW t \in Thread, Found(t)
      PROVE  Sound'
  <2>1. PICK i \in Impl : First(i, mask[t]) /\ picked' = [picked EXCEPT ![t] = i]
    BY <1>5 DEF Found
  <2>2. i \in Usable
    BY <2>1 DEF First
  <2>3. TypeOK'
    BY <1>5, <2>1 DEF Found, Sound, TypeOK, machine
  <2>4. QED
    BY <1>5, <2>1, <2>2, <2>3 DEF Found, Sound, TypeOK, Usable, machine, Pointers
<1>6. ASSUME NEW t \in Thread, NotFound(t)
      PROVE  Sound'
  <2>1. ASSUME slot[t] # "register" PROVE Usable = {}
    <3> SUFFICES ASSUME NEW i \in Usable PROVE FALSE
      OBVIOUS
    <3>1. mask[t] = 1..(N + 1)
      BY <1>6, <2>1 DEF NotFound, Sound
    <3>2. i \in Impl /\ i \in mask[t] \cap Usable
      BY <1>1, <3>1
    <3>3. \E j \in Impl : First(j, mask[t])
      BY <3>2, SomeFirst
    <3>4. QED
      BY <1>6, <3>3 DEF NotFound
  <2>2. Refusal(mask[t]) \in -4..N
    BY <1>1 DEF Refusal, NOENABLE
  <2>3. CASE slot[t] = "register"
    <3>1. TypeOK'
      BY <1>6, <2>2, <2>3 DEF NotFound, Sound, TypeOK, machine
    <3>2. QED
      BY <1>6, <2>3, <3>1 DEF NotFound, Sound, TypeOK, Usable, machine
  <2>4. CASE slot[t] # "register"
    <3>1. /\ pc' = [pc EXCEPT ![t] = "giveup"]
          /\ left' = [left EXCEPT ![t] = Pointers]
          /\ result' = [result EXCEPT ![t] = Refusal(mask[t])]
          /\ UNCHANGED <<built, capable, transform, native, slot, mask, picked, ran>>
      BY <1>6, <2>4 DEF NotFound, machine
    <3>2. /\ pc' \in [Thread -> {"idle", "scan", "write", "giveup", "again"}]
          /\ result' \in [Thread -> -4..N]
      BY <2>2, <3>1 DEF Sound, TypeOK
    <3>3. left' \in [Thread -> SUBSET Pointers]
      BY <3>1 DEF Sound, TypeOK
    <3>4. TypeOK'
      BY <3>1, <3>2, <3>3 DEF Sound, TypeOK
    <3>5. QED
      BY <2>1, <2>4, <3>1, <3>4 DEF Sound, TypeOK, Usable, Pointers
  <2>5. QED
    BY <2>3, <2>4
<1>7. ASSUME NEW t \in Thread, PutTransform(t)
      PROVE  Sound'
  <2>1. picked[t] \in Usable /\ picked[t] \in 1..N
    BY <1>1, <1>7 DEF PutTransform, Sound, Impl
  <2>2. /\ transform' = picked[t] /\ transform' # Default
        /\ UNCHANGED <<machine, native, slot, mask, picked, ran>>
    BY <1>1, <1>7, <2>1 DEF PutTransform
  <2>3. /\ pc[t] = "write"
        /\ \A u \in Thread \ {t} : pc'[u] = pc[u] /\ left'[u] = left[u]
        /\ left'[t] = left[t] \ {"transform"}
        /\ pc'[t] = "write" \/ (left[t] = {"transform"} /\ pc'[t] \in {"idle", "again"})
    BY <1>7 DEF PutTransform, Stored, Sound, TypeOK
  <2>4. TypeOK'
    <3>1. /\ pc' \in [Thread -> {"idle", "scan", "write", "giveup", "again"}]
          /\ left' \in [Thread -> SUBSET Pointers]
      BY <1>7 DEF PutTransform, Stored, Sound, TypeOK
    <3>2. result' \in [Thread -> -4..N]
      BY <1>1, <1>7, <2>1 DEF PutTransform, Sound, TypeOK
    <3>3. QED
      BY <1>1, <2>1, <2>2, <3>1, <3>2 DEF Sound, TypeOK, machine
  <2>5. QED
    BY <1>1, <2>1, <2>2, <2>3, <2>4 DEF Sound, TypeOK, Usable, machine
<1>8. ASSUME NEW t \in Thread, PutNative(t)
      PROVE  Sound'
  <2>1. picked[t] \in Usable /\ picked[t] \in 1..N
    BY <1>1, <1>8 DEF PutNative, Sound, Impl
  <2>2. /\ native' = picked[t] /\ native' # Default
        /\ UNCHANGED <<machine, transform, slot, mask, picked, ran>>
    BY <1>1, <1>8, <2>1 DEF PutNative
  <2>3. /\ pc[t] = "write"
        /\ \A u \in Thread \ {t} : pc'[u] = pc[u] /\ left'[u] = left[u]
        /\ left'[t] = left[t] \ {"native"}
        /\ pc'[t] = "write" \/ (left[t] = {"native"} /\ pc'[t] \in {"idle", "again"})
    BY <1>8 DEF PutNative, Stored, Sound, TypeOK
  <2>4. TypeOK'
    <3>1. /\ pc' \in [Thread -> {"idle", "scan", "write", "giveup", "again"}]
          /\ left' \in [Thread -> SUBSET Pointers]
      BY <1>8 DEF PutNative, Stored, Sound, TypeOK
    <3>2. result' \in [Thread -> -4..N]
      BY <1>1, <1>8, <2>1 DEF PutNative, Sound, TypeOK
    <3>3. QED
      BY <1>1, <2>1, <2>2, <3>1, <3>2 DEF Sound, TypeOK, machine
  <2>5. QED
    BY <1>1, <2>1, <2>2, <2>3, <2>4 DEF Sound, TypeOK, Usable, machine
<1>9. ASSUME NEW t \in Thread, GiveUp(t)
      PROVE  Sound'
  <2>1. Usable = {} /\ Usable' = {} /\ UNCHANGED <<slot, mask, picked, result, ran, built, capable>>
    BY <1>9 DEF GiveUp, Sound, Usable, machine
  <2>2. PICK s \in Pointers :
          /\ Stored(t, s)
          /\ s = "transform" => transform' = Invalid /\ UNCHANGED native
          /\ s = "native" => native' = Invalid /\ UNCHANGED transform
    BY <1>9 DEF GiveUp, Pointers
  <2>3. /\ pc[t] = "giveup"
        /\ \A u \in Thread \ {t} : pc'[u] = pc[u] /\ left'[u] = left[u]
        /\ left'[t] = left[t] \ {s}
        /\ pc'[t] = "giveup" \/ (left[t] = {s} /\ pc'[t] \in {"idle", "again"})
    BY <1>9, <2>2 DEF GiveUp, Stored, Sound, TypeOK
  <2>4. TypeOK'
    <3>1. /\ pc' \in [Thread -> {"idle", "scan", "write", "giveup", "again"}]
          /\ left' \in [Thread -> SUBSET Pointers]
      BY <1>9, <2>2 DEF GiveUp, Stored, Sound, TypeOK
    <3>2. QED
      BY <2>1, <2>2, <3>1 DEF Sound, TypeOK, Pointers
  <2>5. QED
    BY <1>1, <2>1, <2>2, <2>3, <2>4 DEF Sound, Usable, Pointers
<1>10. ASSUME NEW t \in Thread, Again(t)
       PROVE  Sound'
  <2>1. /\ Pointer(Onward(slot[t])) \in Usable \cup {Invalid}
        /\ Pointer(Onward(slot[t])) = Invalid => Usable = {}
    BY <1>10 DEF Again, Sound, Pointer
  <2>2. TypeOK'
    BY <1>1, <1>10, <2>1 DEF Again, Sound, TypeOK, machine
  <2>3. QED
    BY <1>10, <2>1, <2>2 DEF Again, Sound, TypeOK, Usable, machine
<1>11. QED
  BY <1>2, <1>3, <1>4, <1>5, <1>6, <1>7, <1>8, <1>9, <1>10 DEF Next, Step

\* The pointers hold a handler or an implementation, and Register returns a number
\* or an error llhash.h names, in any race.
THEOREM TypeCorrect == Spec => []TypeOK
<1>1. Sound => TypeOK
  BY DEF Sound
<1>2. QED
  BY <1>1, SoundInit, SoundNext, PTL DEF Spec

\* No call ever runs a kernel that is missing or that the CPU lacks, nor gives up
\* while there is another, however first calls and registrations race.
THEOREM CallsAreUsable == Spec => []RunsUsable
<1>1. Sound => RunsUsable
  BY DEF Sound, RunsUsable
<1>2. QED
  BY <1>1, SoundInit, SoundNext, PTL DEF Spec

-----------------------------------------------------------------------------
\* Two usable implementations of highest priority are one.
LEMMA OneBest ==
  ASSUME NEW i \in Impl, NEW j \in Impl, Best(i), Best(j)
  PROVE  i = j
<1>1. N \in Nat /\ i \in Nat /\ j \in Nat /\ i >= 1 /\ j >= 1
  BY DispatchAssumption DEF Impl
<1>2. ~(i < j)
  BY <1>1 DEF Best
<1>3. ~(j < i)
  BY <1>1 DEF Best
<1>4. QED
  BY <1>1, <1>2, <1>3

\* Without registrars every choice is the best one.
Lazy ==
  /\ Sound
  /\ transform \in Impl => Best(transform)
  /\ native \in Impl => Best(native)
  /\ \A t \in Thread :
       /\ pc[t] # "idle" => slot[t] # "register"
       /\ pc[t] = "write" => Best(picked[t])

LEMMA LazyNext ==
  ASSUME Registrar = {}, Lazy, [Next]_vars
  PROVE  Lazy'
<1>1. Sound' /\ Usable \subseteq Impl /\ Impl \subseteq 1..(N + 1)
  BY SoundNext, DispatchAssumption DEF Lazy, Sound, TypeOK, Usable, Impl
<1>2. CASE UNCHANGED vars
  BY <1>1, <1>2 DEF vars, Lazy, Best, Usable
<1>3. ASSUME NEW t \in Thread, NEW s \in Pointers, Call(t, s)
      PROVE  Lazy'
  BY <1>1, <1>3 DEF Call, Lazy, Sound, TypeOK, Best, Usable, machine, Pointers
<1>4. ASSUME NEW t \in Thread, NEW m \in Masks, Register(t, m)
      PROVE  Lazy'
  BY <1>4 DEF Register
<1>5. ASSUME NEW t \in Thread, Found(t)
      PROVE  Lazy'
  <2>1. PICK i \in Impl : First(i, mask[t]) /\ picked' = [picked EXCEPT ![t] = i]
    BY <1>5 DEF Found
  <2>2. mask[t] = 1..(N + 1)
    BY <1>5 DEF Found, Lazy, Sound
  <2>3. Best(i)
    BY <1>1, <2>1, <2>2 DEF First, Best
  <2>4. machine' = machine /\ Usable' = Usable /\ Best(i)'
    BY <1>5, <2>3 DEF Found, machine, Usable, Best
  <2>5. QED
    BY <1>1, <1>5, <2>1, <2>4 DEF Found, Lazy, Sound, TypeOK, Best, Usable, machine
<1>6. ASSUME NEW t \in Thread, NotFound(t)
      PROVE  Lazy'
  BY <1>1, <1>6 DEF NotFound, Lazy, Sound, TypeOK, Best, Usable, machine
<1>7. ASSUME NEW t \in Thread, PutTransform(t)
      PROVE  Lazy'
  BY <1>1, <1>7 DEF PutTransform, Stored, Lazy, Sound, TypeOK, Best, Usable, machine
<1>8. ASSUME NEW t \in Thread, PutNative(t)
      PROVE  Lazy'
  BY <1>1, <1>8 DEF PutNative, Stored, Lazy, Sound, TypeOK, Best, Usable, machine
<1>9. ASSUME NEW t \in Thread, GiveUp(t)
      PROVE  Lazy'
  <2>1. Usable = {} /\ Impl \subseteq Nat
    BY <1>9, DispatchAssumption DEF GiveUp, Lazy, Sound, Impl
  <2>2. Usable' = {} /\ transform' \notin Impl /\ native' \notin Impl
    BY <1>1, <1>9, <2>1 DEF GiveUp, Sound, Usable, machine, Invalid, Default, Impl
  <2>3. /\ UNCHANGED <<slot, picked>>
        /\ \A u \in Thread : pc'[u] # "idle" => pc[u] # "idle"
        /\ \A u \in Thread : pc'[u] = "write" => pc[u] = "write"
    BY <1>9 DEF GiveUp, Stored, Lazy, Sound, TypeOK
  <2>4. QED
    BY <1>1, <1>9, <2>1, <2>2, <2>3 DEF GiveUp, Lazy, Best, Usable, machine
<1>10. ASSUME NEW t \in Thread, Again(t)
       PROVE  Lazy'
  BY <1>1, <1>10 DEF Again, Lazy, Sound, TypeOK, Best, Usable, machine
<1>11. QED
  BY <1>2, <1>3, <1>4, <1>5, <1>6, <1>7, <1>8, <1>9, <1>10 DEF Next, Step

\* First calls need no lock: if callers leave the choice to them, both pointers
\* only ever hold the same, best implementation.
THEOREM LazyCallsAgree ==
  ASSUME Registrar = {} PROVE Spec => []LazyAgrees
<1>1. Init => Lazy
  BY SoundInit, DispatchAssumption DEF Init, Lazy, Default, Impl
<1>2. Lazy => LazyAgrees
  <2> SUFFICES ASSUME Lazy PROVE LazyAgrees
    OBVIOUS
  <2>1. Default \notin Impl
    BY DispatchAssumption DEF Default, Impl
  <2>2. /\ transform \in Impl => Best(transform)
        /\ native \in Impl => Best(native)
    BY <2>1 DEF Lazy
  <2>3. ASSUME NEW t \in Thread, pc[t] = "again"
        PROVE  transform = native /\ native # Default
    <3>1. transform # Default /\ native # Default
      BY <2>3 DEF Lazy, Sound
    <3>2. CASE Usable = {}
      BY <3>1, <3>2 DEF Lazy, Sound
    <3>3. CASE Usable # {}
      <4>1. transform \in Impl /\ native \in Impl
        BY <3>1, <3>3 DEF Lazy, Sound, TypeOK, Usable
      <4>2. QED
        BY <2>2, <3>1, <4>1, OneBest
    <3>4. QED
      BY <3>2, <3>3
  <2>4. QED
    BY <2>2, <2>3 DEF LazyAgrees
<1>3. QED
  BY <1>1, <1>2, LazyNext, PTL DEF Spec

-----------------------------------------------------------------------------
\* What the pointers hold while only one thread has ever picked.
Chosen ==
  /\ Sound
  /\ \A t \in Thread : picked[t] \in Usable \cup {Default}
  /\ \A t \in Thread : picked[t] \in Impl /\ NoOtherPicked(t) =>
       /\ pc[t] # "write" \/ "transform" \notin left[t] => transform = picked[t]
       /\ pc[t] # "write" \/ "native" \notin left[t] => native = picked[t]

LEMMA ChosenNext ==
  ASSUME Chosen, [Next]_vars
  PROVE  Chosen'
<1> USE DEF Default, Invalid
<1>1. /\ Sound /\ Sound' /\ Usable \subseteq Impl /\ Default \notin Impl
      /\ Default \notin Usable /\ Invalid \notin Usable
  BY SoundNext, DispatchAssumption DEF Chosen, Sound, TypeOK, Usable, Impl
<1>2. CASE UNCHANGED vars
  BY <1>1, <1>2 DEF vars, Chosen, NoOtherPicked, Usable
<1>3. ASSUME NEW t \in Thread, NEW s \in Pointers, Call(t, s)
      PROVE  Chosen'
  <2>1. /\ UNCHANGED <<built, capable, transform, native, picked, left>>
        /\ pc' = pc \/ (pc' = [pc EXCEPT ![t] = "scan"] /\ pc[t] = "idle")
    BY <1>3 DEF Call, machine
  <2>2. \A u \in Thread : pc'[u] = "write" <=> pc[u] = "write"
    BY <2>1, <1>1 DEF Sound, TypeOK
  <2>3. QED
    BY <1>1, <2>1, <2>2 DEF Chosen, NoOtherPicked, Usable
<1>4. ASSUME NEW t \in Thread, NEW m \in Masks, Register(t, m)
      PROVE  Chosen'
  <2>1. /\ UNCHANGED <<built, capable, transform, native, picked, left>>
        /\ pc' = [pc EXCEPT ![t] = "scan"] /\ pc[t] = "idle"
    BY <1>4 DEF Register, machine
  <2>2. \A u \in Thread : pc'[u] = "write" <=> pc[u] = "write"
    BY <2>1, <1>1 DEF Sound, TypeOK
  <2>3. QED
    BY <1>1, <2>1, <2>2 DEF Chosen, NoOtherPicked, Usable
<1>5. ASSUME NEW t \in Thread, Found(t)
      PROVE  Chosen'
  <2>1. PICK i \in Impl : First(i, mask[t]) /\ picked' = [picked EXCEPT ![t] = i]
    BY <1>5 DEF Found
  <2>2. /\ UNCHANGED <<built, capable, transform, native>> /\ i \in Usable
        /\ picked'[t] = i /\ pc'[t] = "write" /\ left'[t] = Pointers
        /\ \A u \in Thread \ {t} :
             pc'[u] = pc[u] /\ left'[u] = left[u] /\ picked'[u] = picked[u]
    BY <1>1, <1>5, <2>1 DEF Found, First, machine, Sound, TypeOK
  <2>3. \A u \in Thread \ {t} : ~NoOtherPicked(u)'
    BY <1>1, <2>2 DEF NoOtherPicked
  <2>4. QED
    BY <1>1, <2>2, <2>3 DEF Chosen, Pointers, Usable
<1>6. ASSUME NEW t \in Thread, NotFound(t)
      PROVE  Chosen'
  <2>1. /\ UNCHANGED <<built, capable, transform, native, picked>>
        /\ pc[t] = "scan" /\ pc'[t] # "write"
        /\ \A u \in Thread \ {t} : pc'[u] = pc[u] /\ left'[u] = left[u]
    BY <1>1, <1>6 DEF NotFound, machine, Sound, TypeOK
  <2>2. QED
    BY <1>1, <2>1 DEF Chosen, NoOtherPicked, Usable
<1>7. ASSUME NEW t \in Thread, PutTransform(t)
      PROVE  Chosen'
  <2>1. /\ UNCHANGED <<built, capable, native, picked>>
        /\ transform' = picked[t] /\ pc[t] = "write" /\ picked[t] \in Usable
        /\ left'[t] = left[t] \ {"transform"}
        /\ pc'[t] # "write" => left[t] = {"transform"}
        /\ \A u \in Thread \ {t} : pc'[u] = pc[u] /\ left'[u] = left[u]
    BY <1>1, <1>7 DEF PutTransform, Stored, machine, Sound, TypeOK
  <2>2. \A u \in Thread \ {t} : ~NoOtherPicked(u)'
    BY <1>1, <2>1 DEF NoOtherPicked
  <2>3. QED
    BY <1>1, <2>1, <2>2 DEF Chosen, NoOtherPicked, Usable
<1>8. ASSUME NEW t \in Thread, PutNative(t)
      PROVE  Chosen'
  <2>1. /\ UNCHANGED <<built, capable, transform, picked>>
        /\ native' = picked[t] /\ pc[t] = "write" /\ picked[t] \in Usable
        /\ left'[t] = left[t] \ {"native"}
        /\ pc'[t] # "write" => left[t] = {"native"}
        /\ \A u \in Thread \ {t} : pc'[u] = pc[u] /\ left'[u] = left[u]
    BY <1>1, <1>8 DEF PutNative, Stored, machine, Sound, TypeOK
  <2>2. \A u \in Thread \ {t} : ~NoOtherPicked(u)'
    BY <1>1, <2>1 DEF NoOtherPicked
  <2>3. QED
    BY <1>1, <2>1, <2>2 DEF Chosen, NoOtherPicked, Usable
<1>9. ASSUME NEW t \in Thread, GiveUp(t)
      PROVE  Chosen'
  <2>1. Usable = {} /\ Usable' = {} /\ picked' = picked
    BY <1>1, <1>9 DEF GiveUp, Sound, Usable, machine
  <2>2. \A u \in Thread : picked[u] = Default
    BY <2>1 DEF Chosen
  <2>3. QED
    BY <1>1, <2>1, <2>2 DEF Chosen, Impl
<1>10. ASSUME NEW t \in Thread, Again(t)
       PROVE  Chosen'
  <2>1. /\ UNCHANGED <<built, capable, transform, native, picked, left>>
        /\ pc[t] = "again" /\ pc' = [pc EXCEPT ![t] = "idle"]
    BY <1>10 DEF Again, machine
  <2>2. \A u \in Thread : pc'[u] = "write" <=> pc[u] = "write"
    BY <2>1, <1>1 DEF Sound, TypeOK
  <2>3. QED
    BY <1>1, <2>1, <2>2 DEF Chosen, NoOtherPicked, Usable
<1>11. QED
  BY <1>2, <1>3, <1>4, <1>5, <1>6, <1>7, <1>8, <1>9, <1>10 DEF Next, Step

\* A selection holds in both pointers until another thread picks, whatever calls
\* and failed Registers come between.
THEOREM SelectionHolds == Spec => []Selected
<1>1. Init => Chosen
  BY SoundInit, DispatchAssumption DEF Init, Chosen, Default, Impl
<1>2. Chosen => Selected
  BY DEF Chosen, Selected
<1>3. QED
  BY <1>1, <1>2, ChosenNext, PTL DEF Spec

-----------------------------------------------------------------------------
\* Platform.

\* The implementations a test is named for, in any param.h.
Names(test) ==
  CASE test = "shaext" -> {"cryptogams_shaext", "intel_shaext"}
    [] test = "avx2" -> {"cryptogams_avx2", "intel_avx2", "ryanc_avx2"}
    [] test = "avx" -> {"cryptogams_avx", "intel_avx"}
    [] test = "ssse3" -> {"cryptogams_ssse3", "intel_ssse3"}
    [] test = "xop" -> {"cryptogams_xop"}
    [] test = "x64" -> {"ryanc", "ryanc_alt", "cryptogams_gen"}
    [] test = "native" -> {"native"}
    [] test = "generic" -> {"generic"}

Tests == {"shaext", "avx2", "avx", "ssse3", "xop", "x64", "native", "generic"}

Tabled(prio) == \A i \in 1..Len(prio) : prio[i][2] \in Tests /\ prio[i][1] \in Names(prio[i][2])

\* Every table of param.h names a test for each implementation.
LEMMA AllTabled ==
  ASSUME NEW h \in DOMAIN IMPL_PRIO PROVE Tabled(IMPL_PRIO[h])
<1>1. Tabled(MD4_IMPL_PRIO)
  BY DEF Tabled, MD4_IMPL_PRIO, Tests, Names
<1>2. Tabled(MD5_IMPL_PRIO)
  BY DEF Tabled, MD5_IMPL_PRIO, Tests, Names
<1>3. Tabled(RIPEMD160_IMPL_PRIO)
  BY DEF Tabled, RIPEMD160_IMPL_PRIO, Tests, Names
<1>4. Tabled(SHA1_IMPL_PRIO)
  BY DEF Tabled, SHA1_IMPL_PRIO, Tests, Names
<1>5. Tabled(SHA2_224_IMPL_PRIO)
  BY DEF Tabled, SHA2_224_IMPL_PRIO, Tests, Names
<1>6. Tabled(SHA2_256_IMPL_PRIO)
  BY DEF Tabled, SHA2_256_IMPL_PRIO, Tests, Names
<1>7. Tabled(SHA2_384_IMPL_PRIO)
  BY DEF Tabled, SHA2_384_IMPL_PRIO, Tests, Names
<1>8. Tabled(SHA2_512_IMPL_PRIO)
  BY DEF Tabled, SHA2_512_IMPL_PRIO, Tests, Names
<1>9. QED
  BY <1>1, <1>2, <1>3, <1>4, <1>5, <1>6, <1>7, <1>8 DEF IMPL_PRIO

-----------------------------------------------------------------------------
\* The machine is one the build can be run on.
Machine ==
  /\ hash \in HashNames /\ cpu \in CPUs /\ build \in Builds
  /\ cpu.x86 = build.on.x86

\* What the tables leave to the machines: nothing asks for BMI1 before ryanc hashes
\* RIPEMD160.
Bmi1ForRipemd == "ripemd160" \in HashNames => \A c \in CPUs : "bmi1" \in c.has

LEMMA MachineFacts ==
  ASSUME Machine
  PROVE  /\ cpu.x86 => "ssse3" \in cpu.has
         /\ "avx2" \in cpu.has => "avx" \in cpu.has
         /\ "bmi2" \in cpu.has => "bmi1" \in cpu.has
         /\ "xop" \in cpu.has => "avx" \in cpu.has
         /\ cpuinfo(cpu) = cpuinfo(build.on) => build.on.has \subseteq cpu.has
BY PlatformAssumption DEF Machine

\* A CPU that passes a test has every instruction of the kernels the test is for.
LEMMA TestSuffices ==
  ASSUME Machine, Bmi1ForRipemd, NEW test \in Tests, Can(test), NEW name \in Names(test)
  PROVE  Instructions(name) \subseteq cpu.has
<1>1. CASE test = "shaext"
  <2>1. name = "cryptogams_shaext" \/ name = "intel_shaext"
    BY <1>1 DEF Names
  <2>2. can_shaext
    BY <1>1 DEF Can
  <2>3. "sha" \in cpu.has /\ cpu.x86
    BY <2>2 DEF can_shaext, cpuid
  <2>4. Instructions(name) = {"sha", "ssse3"}
    BY <2>1 DEF Instructions
  <2>5. QED
    BY <2>3, <2>4, MachineFacts
<1>2. CASE test = "avx2"
  <2>1. name = "cryptogams_avx2" \/ name = "intel_avx2" \/ name = "ryanc_avx2"
    BY <1>2 DEF Names
  <2>2. can_avx2
    BY <1>2 DEF Can
  <2>3. "avx2" \in cpu.has /\ "bmi2" \in cpu.has
    BY <2>2 DEF can_avx2, cpuid
  <2>4. Instructions(name) \subseteq {"avx", "avx2", "bmi1", "bmi2"}
    BY <2>1 DEF Instructions
  <2>5. QED
    BY <2>3, <2>4, MachineFacts
<1>3. CASE test = "avx"
  <2>1. name = "cryptogams_avx" \/ name = "intel_avx"
    BY <1>3 DEF Names
  <2>2. can_avx
    BY <1>3 DEF Can
  <2>3. "avx" \in cpu.has
    BY <2>2 DEF can_avx, cpuid
  <2>4. Instructions(name) = {"avx"}
    BY <2>1 DEF Instructions
  <2>5. QED
    BY <2>3, <2>4
<1>4. CASE test = "ssse3"
  <2>1. name = "cryptogams_ssse3" \/ name = "intel_ssse3"
    BY <1>4 DEF Names
  <2>2. can_ssse3
    BY <1>4 DEF Can
  <2>3. "ssse3" \in cpu.has
    BY <2>2 DEF can_ssse3, cpuid
  <2>4. Instructions(name) = {"ssse3"}
    BY <2>1 DEF Instructions
  <2>5. QED
    BY <2>3, <2>4
<1>5. CASE test = "xop"
  <2>1. name = "cryptogams_xop"
    BY <1>5 DEF Names
  <2>2. can_xop
    BY <1>5 DEF Can
  <2>3. "xop" \in cpu.has
    BY <2>2 DEF can_xop, cpuid
  <2>4. Instructions(name) = {"xop", "avx"}
    BY <2>1 DEF Instructions
  <2>5. QED
    BY <2>3, <2>4, MachineFacts
<1>6. CASE test = "x64"
  <2>1. name = "ryanc" \/ name = "ryanc_alt" \/ name = "cryptogams_gen"
    BY <1>6 DEF Names
  <2>2. Instructions(name) \subseteq IF hash = "ripemd160" THEN {"bmi1"} ELSE {}
    BY <2>1 DEF Instructions
  <2>3. hash = "ripemd160" => "bmi1" \in cpu.has
    BY DEF Machine, Bmi1ForRipemd
  <2>4. QED
    BY <2>2, <2>3
<1>7. CASE test = "native"
  <2>1. name = "native"
    BY <1>7 DEF Names
  <2>2. can_native
    BY <1>7 DEF Can
  <2>3. Instructions(name) = build.on.has
    BY <2>1 DEF Instructions
  <2>4. QED
    BY <2>2, <2>3, MachineFacts DEF can_native
<1>8. CASE test = "generic"
  <2>1. name = "generic"
    BY <1>8 DEF Names
  <2>2. Instructions(name) = build.on.has \cap {"ssse3"}
    BY <2>1 DEF Instructions
  <2>3. CASE cpu.x86
    BY <2>2, <2>3, MachineFacts
  <2>4. CASE ~cpu.x86
    <3>1. cpuinfo(cpu) = cpuinfo(build.on)
      BY <2>4 DEF cpuinfo, Machine
    <3>2. QED
      BY <2>2, <3>1, MachineFacts
  <2>5. QED
    BY <2>3, <2>4
<1>9. QED
  BY <1>1, <1>2, <1>3, <1>4, <1>5, <1>6, <1>7, <1>8 DEF Tests

-----------------------------------------------------------------------------
\* What Register goes by is what the tests say of this machine.
PInv ==
  /\ Sound /\ Machine
  /\ capable = {i \in 1..Len(Prio) : Can(Prio[i][2])}

LEMMA PInitInv == PInit => PInv
BY SoundInit DEF PInit, PInv, Machine

LEMMA PNextInv ==
  ASSUME PInv, [Next /\ UNCHANGED platform]_platformVars
  PROVE  PInv'
<1>1. Sound'
  <2>1. [Next]_vars
    BY DEF platformVars
  <2>2. QED
    BY <2>1, SoundNext DEF PInv
<1>2. hash' = hash /\ cpu' = cpu /\ build' = build
  BY DEF platformVars, platform
<1>3. capable' = capable
  BY DEF platformVars, vars, Next, Step, Call, Register, Found, NotFound, PutTransform,
         PutNative, GiveUp, Again, machine
<1>4. QED
  BY <1>1, <1>2, <1>3 DEF PInv, Machine, Prio, Can, can_ssse3, can_avx, can_avx2, can_shaext,
         can_xop, can_x64, can_native, can_generic

LEMMA PInvSupported ==
  ASSUME Bmi1ForRipemd, PInv
  PROVE  RunsSupported
<1> SUFFICES ASSUME NEW i \in ran \cap Impl
             PROVE  Instructions(Prio[i][1]) \subseteq cpu.has
  BY DEF RunsSupported
<1>1. i \in capable
  <2>1. Invalid \notin Impl
    BY DispatchAssumption DEF Invalid, Impl
  <2>2. QED
    BY <2>1 DEF PInv, Sound, Usable
<1>2. i \in 1..Len(Prio) /\ Can(Prio[i][2])
  BY <1>1 DEF PInv
<1>3. Tabled(Prio)
  BY AllTabled, PlatformAssumption DEF PInv, Machine, Prio
<1>4. QED
  BY <1>2, <1>3, TestSuffices DEF Tabled, PInv

\* However first calls and registrations race, on whatever machine and with whatever
\* build, no call runs a kernel that has an instruction the CPU lacks; except that
\* RIPEMD160's first choice has to find BMI1.
THEOREM RunsAreSupported ==
  ASSUME Bmi1ForRipemd PROVE PSpec => []RunsSupported
<1>1. PSpec => PInit /\ [][Next /\ UNCHANGED platform]_platformVars
  BY PTL DEF PSpec
<1>2. QED
  BY <1>1, PInitInv, PNextInv, PInvSupported, PTL

\* A real machine is one of the machines Dispatch is about: whatever the build leaves
\* out and the tests find, its calls do what Dispatch allows.
THEOREM MachinesDispatch == PSpec => Spec
<1>1. PInit => Init
  BY DEF PInit
<1>2. [Next /\ UNCHANGED platform]_platformVars => [Next]_vars
  BY DEF platformVars
<1>3. QED
  BY <1>1, <1>2, PTL DEF PSpec, Spec

\* So where nobody registers, both pointers settle on the first implementation of
\* param.h that is in the build and that the CPU passes the test for.
THEOREM MachinesAgree ==
  ASSUME Registrar = {} PROVE PSpec => []LazyAgrees
BY MachinesDispatch, LazyCallsAgree, PTL
=============================================================================
