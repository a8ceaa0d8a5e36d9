------------------------------ MODULE Dispatch ------------------------------
(***************************************************************************)
(* src/md/register.c.in: the two function pointers of a hash, Transform    *)
(* and Native, which start at handlers that register an implementation on  *)
(* the first call, and Register, which walks the implementations in order  *)
(* of priority and writes both pointers.  Threads call through the         *)
(* pointers and call Register with no lock around any of it.  Definitions  *)
(* marked "slip" are deliberate errors that no action uses.                *)
(***************************************************************************)
EXTENDS Integers

CONSTANTS
  Thread,   \* the threads of the process
  Registrar,\* those that call Register themselves
  N,        \* implementations, 1..N in the order of IMPL_PRIO
  Swapped,  \* whether the hash's byte order differs from the machine's
  Masks     \* the enable masks callers pass to Register, as sets of 1..N + 1

Impl == 1..N

\* Masks name implementations by number; N + 1 is a bit no implementation has.
ASSUME DispatchAssumption ==
  /\ N \in Nat
  /\ Swapped \in BOOLEAN
  /\ Registrar \subseteq Thread
  /\ \A m \in Masks : m \subseteq 1..(N + 1)

\* The handlers behind the pointers before and after a failed registration,
\* and the names llhash.h gives the results of a failed Register.
Default == 0
Invalid == -1

NOENABLE == -4
UNAVAL == -3
NOSUPPORT == -2
NOTBUILT == -1

VARIABLES
  built,     \* implementations compiled in: ..._built() returns 1
  capable,   \* implementations the CPU can run: can_...() returns 1
  transform, \* HASH(Transform)
  native,    \* HASH(Native)
  pc,        \* where each thread is
  slot,      \* the pointer a thread is calling through, or "register"
  mask,      \* the argument of its Register
  picked,    \* the implementation its Register has chosen
  left,      \* the pointers it has yet to write
  result,    \* what its last Register returned
  ran        \* the handlers that have been run to hash data

machine == <<built, capable>>
vars == <<built, capable, transform, native, pc, slot, mask, picked, left, result, ran>>

Usable == built \cap capable

Pointer(s) == IF s = "native" THEN native ELSE transform

\* The pointer the default handler behind pointer s calls through in the end:
\* xform_default serves both where the byte orders agree.
Onward(s) == IF s = "native" /\ Swapped THEN "native" ELSE "transform"

Pointers == {"transform", "native"}

-----------------------------------------------------------------------------
\* slip: the CPU is not asked.
FirstBuilt(i, m) == i \in m \cap built /\ \A j \in 1..(i - 1) : j \notin m \cap built

\* Register tries the enabled implementations in order and stops at the first
\* that is built and that the CPU can run.
First(i, m) == i \in m \cap Usable /\ \A j \in 1..(i - 1) : j \notin m \cap Usable

\* slip: the bits are 1 and 2 rather than 0 and 1.
RefusalShifted(m) ==
  LET tried == m \cap Impl
      bit1 == IF \A i \in tried : i \notin built THEN 2 ELSE 0
      bit2 == IF \A i \in tried : i \notin capable THEN 4 ELSE 0
  IN IF tried = {} THEN NOENABLE ELSE -1 - (bit1 + bit2)

\* err collects ~e of every enabled implementation: bit 0 of e is "not built",
\* bit 1 "not supported by the CPU", and or-ing complements keeps the bits
\* that all of them share.
Refusal(m) ==
  LET tried == m \cap Impl
      bit0 == IF \A i \in tried : i \notin built THEN 1 ELSE 0
      bit1 == IF \A i \in tried : i \notin capable THEN 2 ELSE 0
  IN IF tried = {} THEN NOENABLE ELSE -1 - (bit0 + bit1)

-----------------------------------------------------------------------------
Init ==
  /\ built \in SUBSET Impl
  /\ capable \in SUBSET Impl
  /\ transform = Default /\ native = Default
  /\ pc = [t \in Thread |-> "idle"]
  /\ slot = [t \in Thread |-> "register"]
  /\ mask = [t \in Thread |-> {}]
  /\ picked = [t \in Thread |-> Default]
  /\ left = [t \in Thread |-> {}]
  /\ result = [t \in Thread |-> 0]
  /\ ran = {}

\* A call through a pointer runs what the pointer holds; the default handlers
\* call Register(-1) first.
Call(t, s) ==
  /\ pc[t] = "idle"
  /\ slot' = [slot EXCEPT ![t] = s]
  /\ IF Pointer(s) = Default
     THEN /\ pc' = [pc EXCEPT ![t] = "scan"]
          /\ mask' = [mask EXCEPT ![t] = 1..(N + 1)]
          /\ UNCHANGED ran
     ELSE /\ ran' = ran \cup {Pointer(s)}
          /\ UNCHANGED <<pc, mask>>
  /\ UNCHANGED <<machine, transform, native, picked, left, result>>

Register(t, m) ==
  /\ t \in Registrar
  /\ pc[t] = "idle"
  /\ slot' = [slot EXCEPT ![t] = "register"]
  /\ mask' = [mask EXCEPT ![t] = m]
  /\ pc' = [pc EXCEPT ![t] = "scan"]
  /\ UNCHANGED <<machine, transform, native, picked, left, result, ran>>

\* MAYBE_REGISTER for every implementation in turn.
Found(t) ==
  /\ pc[t] = "scan"
  /\ \E i \in Impl :
       /\ First(i, mask[t])
       /\ picked' = [picked EXCEPT ![t] = i]
  /\ pc' = [pc EXCEPT ![t] = "write"]
  /\ left' = [left EXCEPT ![t] = Pointers]
  /\ UNCHANGED <<machine, transform, native, slot, mask, result, ran>>

NotFound(t) ==
  /\ pc[t] = "scan"
  /\ \A i \in Impl : ~First(i, mask[t])
  /\ result' = [result EXCEPT ![t] = Refusal(mask[t])]
  /\ IF slot[t] = "register"
     THEN pc' = [pc EXCEPT ![t] = "idle"] /\ UNCHANGED left
     ELSE /\ pc' = [pc EXCEPT ![t] = "giveup"]
          /\ left' = [left EXCEPT ![t] = Pointers]
  /\ UNCHANGED <<machine, transform, native, slot, mask, picked, ran>>

\* The pointers are plain variables: a build may store them in either order.
\* After the second store Register returns, and a default handler goes on.
Stored(t, s) ==
  /\ s \in left[t]
  /\ left' = [left EXCEPT ![t] = @ \ {s}]
  /\ IF left[t] = {s}
     THEN pc' = [pc EXCEPT ![t] = IF slot[t] = "register" THEN "idle" ELSE "again"]
     ELSE UNCHANGED pc

\* slip: the write goes to Native.
PutTransformSwapped(t) ==
  /\ pc[t] = "write"
  /\ Stored(t, "transform")
  /\ native' = picked[t]
  /\ result' = [result EXCEPT ![t] = picked[t]]
  /\ UNCHANGED <<machine, transform, slot, mask, picked, ran>>

PutTransform(t) ==
  /\ pc[t] = "write"
  /\ Stored(t, "transform")
  /\ transform' = picked[t]
  /\ result' = [result EXCEPT ![t] = picked[t]]
  /\ UNCHANGED <<machine, native, slot, mask, picked, ran>>

\* slip: a thread that finds Native written waits for its default to come back.
PutNativeOnce(t) ==
  /\ pc[t] = "write"
  /\ native = Default
  /\ Stored(t, "native")
  /\ native' = picked[t]
  /\ result' = [result EXCEPT ![t] = picked[t]]
  /\ UNCHANGED <<machine, transform, slot, mask, picked, ran>>

\* slip: Native is only written the first time.
PutNativeFirst(t) ==
  /\ pc[t] = "write"
  /\ Stored(t, "native")
  /\ native' = IF native = Default THEN picked[t] ELSE native
  /\ result' = [result EXCEPT ![t] = picked[t]]
  /\ UNCHANGED <<machine, transform, slot, mask, picked, ran>>

PutNative(t) ==
  /\ pc[t] = "write"
  /\ Stored(t, "native")
  /\ native' = picked[t]
  /\ result' = [result EXCEPT ![t] = picked[t]]
  /\ UNCHANGED <<machine, transform, slot, mask, picked, ran>>

\* No implementation at all: both pointers go to the handler that raises SIGILL.
GiveUp(t) ==
  /\ pc[t] = "giveup"
  /\ \/ Stored(t, "transform") /\ transform' = Invalid /\ UNCHANGED native
     \/ Stored(t, "native") /\ native' = Invalid /\ UNCHANGED transform
  /\ UNCHANGED <<machine, slot, mask, picked, result, ran>>

\* The default handler calls through the pointer, read again.
Again(t) ==
  /\ pc[t] = "again"
  /\ ran' = ran \cup {Pointer(Onward(slot[t]))}
  /\ pc' = [pc EXCEPT ![t] = "idle"]
  /\ UNCHANGED <<machine, transform, native, slot, mask, picked, left, result>>

Step(t) ==
  \/ Found(t) \/ NotFound(t) \/ PutTransform(t) \/ PutNative(t)
  \/ GiveUp(t) \/ Again(t)

Next ==
  \E t \in Thread :
    \/ \E s \in Pointers : Call(t, s)
    \/ \E m \in Masks : Register(t, m)
    \/ Step(t)

Spec == Init /\ [][Next]_vars

-----------------------------------------------------------------------------
\* Pointers, choices and program counters hold what the code can put there.
TypeOK ==
  /\ built \subseteq Impl /\ capable \subseteq Impl
  /\ transform \in Impl \cup {Default, Invalid}
  /\ native \in Impl \cup {Default, Invalid}
  /\ pc \in [Thread -> {"idle", "scan", "write", "giveup", "again"}]
  /\ slot \in [Thread -> Pointers \cup {"register"}]
  /\ mask \in [Thread -> SUBSET (1..(N + 1))]
  /\ picked \in [Thread -> Impl \cup {Default}]
  /\ left \in [Thread -> SUBSET Pointers]
  /\ result \in [Thread -> -4..N]
  /\ ran \subseteq Impl \cup {Default, Invalid}

\* Whatever registrations race, no call runs a kernel that is missing from the
\* build or that the CPU lacks, nor falls back into a default handler, nor gives
\* up while the machine has something to offer.
RunsUsable ==
  /\ ran \subseteq Usable \cup {Invalid}
  /\ Invalid \in ran => Usable = {}

\* The usable implementation of highest priority.
Best(i) == i \in Usable /\ \A j \in 1..(i - 1) : j \notin Usable

\* If callers never register themselves, racing first calls settle on the best
\* implementation, and a default handler only calls on when both pointers hold
\* it: the two writes of Register need no lock and no order.
LazyAgrees ==
  /\ transform \in Impl => Best(transform)
  /\ native \in Impl => Best(native)
  /\ \A t \in Thread : pc[t] = "again" => transform = native /\ native # Default

\* A call that has begun ends, however many threads register meanwhile.
CallsReturn == \A t \in Thread : pc[t] # "idle" ~> pc[t] = "idle"

\* A thread that has registered finds both pointers at the implementation it was
\* told, whatever hashing and failed Registers came since in any thread, as long
\* as no other thread has picked one, explicitly or through a default handler.
NoOtherPicked(t) == \A u \in Thread \ {t} : picked[u] = Default

Selected ==
  \A t \in Thread :
    pc[t] = "idle" /\ picked[t] \in Impl /\ NoOtherPicked(t)
      => transform = picked[t] /\ native = picked[t]
=============================================================================
