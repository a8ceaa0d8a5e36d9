------------------------------ MODULE EmptyKey ------------------------------
(***************************************************************************)
(* HKDF(Extract) of src/md/ext.c.in without a salt: an HMAC context keyed  *)
(* with the empty string is computed once, cached in the static EmptyKey   *)
(* and cloned by later calls.  Threads call Extract at the same time.      *)
(*                                                                         *)
(* The first byte of the cache is an atomic flag, and also data[0] of the  *)
(* structure cached behind it: 1 nobody has filled the cache, 2 somebody   *)
(* is filling it, 0 it may be read.  Definitions marked "slip" are         *)
(* deliberate errors that no action uses.                                  *)
(***************************************************************************)
EXTENDS Integers, FiniteSets

CONSTANTS
  Thread,   \* the threads of the process
  Mortal,   \* those that may end in the middle of a call
  BlockLen  \* HASH_BLOCK_LENGTH

ASSUME EmptyKeyAssumption == Mortal \subseteq Thread /\ BlockLen \in Nat \ {0}

VARIABLES
  flag,    \* EmptyKey[0]
  cache,   \* the rest of EmptyKey, as an HMAC_CTX
  pc,      \* where each thread is in Extract
  ctx,     \* the HMAC_CTX on each thread's stack
  got      \* the fields a thread has cloned from the cache so far

vars == <<flag, cache, pc, ctx, got>>

Field == {"bytelen", "state", "datalen", "hmac"}

\* The contents of hmac and state while HMAC(Init) works on them.
Context ==
  [bytelen : {0, BlockLen}, state : {"zero", "iv", "keyed"}, datalen : {0},
   hmac : {"zero", "ipad", "opad"}]

\* A zero-initialised structure, and one keyed with the empty string.
Zeroed == [bytelen |-> 0, state |-> "zero", datalen |-> 0, hmac |-> "zero"]
Keyed == [bytelen |-> BlockLen, state |-> "keyed", datalen |-> 0, hmac |-> "opad"]

Filling == {"head", "ipad", "key", "opad", "clone", "publish"}
Places == {"idle", "test", "init", "cas", "read", "use", "dead"} \cup Filling

-----------------------------------------------------------------------------
Init ==
  /\ flag = 1
  /\ cache = Zeroed
  /\ pc = [t \in Thread |-> "idle"]
  /\ ctx = [t \in Thread |-> Zeroed]
  /\ got = [t \in Thread |-> {}]

Goto(t, p) == pc' = [pc EXCEPT ![t] = p]

\* ctx is uninitialised when Extract is entered; it is written before it is read.
Extract(t) ==
  /\ pc[t] = "idle"
  /\ Goto(t, "test")
  /\ ctx' = [ctx EXCEPT ![t] = Zeroed]
  /\ got' = [got EXCEPT ![t] = {}]
  /\ UNCHANGED <<flag, cache>>

\* slip: a cache somebody is filling is taken for a filled one.
TestNotOne(t) ==
  /\ pc[t] = "test"
  /\ Goto(t, IF flag # 1 THEN "read" ELSE "init")
  /\ UNCHANGED <<flag, cache, ctx, got>>

\* slip: wait for whoever is filling the cache.
TestWaiting(t) ==
  /\ pc[t] = "test"
  /\ flag # 2
  /\ Goto(t, IF flag = 0 THEN "read" ELSE "init")
  /\ UNCHANGED <<flag, cache, ctx, got>>

\* if (EmptyKey[0] == 0)
Test(t) ==
  /\ pc[t] = "test"
  /\ Goto(t, IF flag = 0 THEN "read" ELSE "init")
  /\ UNCHANGED <<flag, cache, ctx, got>>

\* HMAC(Init)(&ctx, "", 0)
PrivateInit(t) ==
  /\ pc[t] = "init"
  /\ ctx' = [ctx EXCEPT ![t] = Keyed]
  /\ Goto(t, "cas")
  /\ UNCHANGED <<flag, cache, got>>

\* slip: a store where the code compares and exchanges.
ClaimAlways(t) ==
  /\ pc[t] = "cas"
  /\ flag' = 2 /\ Goto(t, "head")
  /\ UNCHANGED <<cache, ctx, got>>

\* slip: whatever is not being filled may be filled.
ClaimUnlessFilling(t) ==
  /\ pc[t] = "cas"
  /\ IF flag # 2 THEN flag' = 2 /\ Goto(t, "head")
     ELSE UNCHANGED flag /\ Goto(t, "use")
  /\ UNCHANGED <<cache, ctx, got>>

\* atomic_compare_exchange_strong(&EmptyKey[0], 1, 2)
Claim(t) ==
  /\ pc[t] = "cas"
  /\ IF flag = 1 THEN flag' = 2 /\ Goto(t, "head")
     ELSE UNCHANGED flag /\ Goto(t, "use")
  /\ UNCHANGED <<cache, ctx, got>>

\* HMAC(Init)((HMAC(CTX)*)EmptyKey, "", 0), which never writes data.
FillHead(t) ==
  /\ pc[t] = "head"
  /\ cache' = [cache EXCEPT !.bytelen = 0, !.datalen = 0, !.state = "iv"]
  /\ Goto(t, "ipad")
  /\ UNCHANGED <<flag, ctx, got>>

FillInnerPad(t) ==
  /\ pc[t] = "ipad"
  /\ cache' = [cache EXCEPT !.hmac = "ipad"]
  /\ Goto(t, "key")
  /\ UNCHANGED <<flag, ctx, got>>

FillState(t) ==
  /\ pc[t] = "key"
  /\ cache' = [cache EXCEPT !.bytelen = BlockLen, !.state = "keyed"]
  /\ Goto(t, "opad")
  /\ UNCHANGED <<flag, ctx, got>>

FillOuterPad(t) ==
  /\ pc[t] = "opad"
  /\ cache' = [cache EXCEPT !.hmac = "opad"]
  /\ Goto(t, "clone")
  /\ UNCHANGED <<flag, ctx, got>>

\* HMAC(Clone)(EmptyKey, &ctx): datalen is 0, so data and the flag in it stay.
FillClone(t) ==
  /\ pc[t] = "clone"
  /\ cache' = ctx[t]
  /\ Goto(t, "publish")
  /\ UNCHANGED <<flag, ctx, got>>

\* slip: the flag is advanced instead of cleared.
PublishNext(t) ==
  /\ pc[t] = "publish"
  /\ flag' = flag + 1
  /\ Goto(t, "use")
  /\ UNCHANGED <<cache, ctx, got>>

\* slip: the store is forgotten.
PublishNothing(t) ==
  /\ pc[t] = "publish"
  /\ Goto(t, "use")
  /\ UNCHANGED <<flag, cache, ctx, got>>

\* atomic_store(&EmptyKey[0], 0)
Publish(t) ==
  /\ pc[t] = "publish"
  /\ flag' = 0
  /\ Goto(t, "use")
  /\ UNCHANGED <<cache, ctx, got>>

\* HMAC(Clone)(&ctx, EmptyKey), a field at a time in the order memcpy likes.
Read(t, f) ==
  /\ pc[t] = "read"
  /\ f \notin got[t]
  /\ ctx' = [ctx EXCEPT ![t][f] = cache[f]]
  /\ got' = [got EXCEPT ![t] = @ \cup {f}]
  /\ Goto(t, IF got'[t] = Field THEN "use" ELSE "read")
  /\ UNCHANGED <<flag, cache>>

\* HMAC(Update) and HMAC(Final) on ctx: Extract returns.
Use(t) ==
  /\ pc[t] = "use"
  /\ Goto(t, "idle")
  /\ UNCHANGED <<flag, cache, ctx, got>>

\* The thread is cancelled.
Die(t) ==
  /\ t \in Mortal
  /\ pc[t] \notin {"idle", "dead"}
  /\ Goto(t, "dead")
  /\ UNCHANGED <<flag, cache, ctx, got>>

Step(t) ==
  \/ Test(t) \/ PrivateInit(t) \/ Claim(t)
  \/ FillHead(t) \/ FillInnerPad(t) \/ FillState(t) \/ FillOuterPad(t)
  \/ FillClone(t) \/ Publish(t)
  \/ \E f \in Field : Read(t, f)
  \/ Use(t)

Next == \E t \in Thread : Extract(t) \/ Step(t) \/ Die(t)

Spec == Init /\ [][Next]_vars

\* A thread inside Extract is scheduled; no thread has to call it.
FairSpec == Spec /\ \A t \in Thread : WF_vars(Step(t))

-----------------------------------------------------------------------------
\* The flag, the cached structure and the threads' copies have their types.
TypeOK ==
  /\ flag \in 0..2
  /\ cache \in Context
  /\ pc \in [Thread -> Places]
  /\ ctx \in [Thread -> Context]
  /\ got \in [Thread -> SUBSET Field]

\* Every Extract goes on with a context keyed with the empty string, whether it
\* made its own or cloned one that another thread was busy making.
KeyedUse == \A t \in Thread : pc[t] = "use" => ctx[t] = Keyed

\* At most one thread ever fills the cache.
OneWriter ==
  \A s, t \in Thread : pc[s] \in Filling /\ pc[t] \in Filling => s = t

\* Once published, the cache is complete and is never written again.
PublishedForGood ==
  [][flag = 0 => cache = Keyed /\ cache' = cache /\ flag' = 0]_vars

\* Nobody waits for the thread that fills the cache: every Extract returns, even
\* if that thread ends in the middle.
ExtractReturns ==
  \A t \in Thread : pc[t] # "idle" ~> pc[t] \in {"idle", "dead"}

\* Once somebody claimed the cache it is published, unless a thread has ended.
ClaimPublishes ==
  flag = 2 ~> flag = 0 \/ \E t \in Mortal : pc[t] = "dead"
=============================================================================
