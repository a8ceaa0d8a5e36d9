------------------------------ MODULE HashAbs ------------------------------
(***************************************************************************)
(* What the incremental interface promises: a context stands for the bytes *)
(* fed to it since it was started, however the calls cut them up, and      *)
(* Final writes the digest of exactly those bytes.                         *)
(***************************************************************************)
EXTENDS MDBuffers

CONSTANTS
  Ctx,      \* the caller's HASH_CTX structures
  Chunks,   \* the data arrays handed to Update
  NoDigest  \* nothing has been written to hash[] yet

VARIABLES
  phase,    \* what the caller has last done with each context
  stream,   \* the initial value and the bytes each open context stands for
  out       \* the last digest written to hash[]

absVars == <<phase, stream, out>>

Phases == {"raw", "new", "open", "done", "cleared"}
Open(c) == phase[c] \in {"new", "open"}

\* The stream of a context that stands for no bytes.
Nothing == <<>>

-----------------------------------------------------------------------------
AbsInit ==
  /\ phase = [c \in Ctx |-> "raw"]
  /\ stream = [c \in Ctx |-> Nothing]
  /\ out = NoDigest

Start(c, iv) ==
  /\ phase' = [phase EXCEPT ![c] = "new"]
  /\ stream' = [stream EXCEPT ![c] = [iv |-> iv, in |-> <<>>]]
  /\ UNCHANGED out

Feed(c, m) ==
  /\ Open(c)
  /\ phase' = [phase EXCEPT ![c] = "open"]
  /\ stream' = [stream EXCEPT ![c].in = @ \o m]
  /\ UNCHANGED out

\* Continue from the blocks behind a digest.
Resume(c) ==
  /\ out # NoDigest
  /\ phase' = [phase EXCEPT ![c] = "open"]
  /\ stream' = [stream EXCEPT ![c] = out]
  /\ UNCHANGED out

Finish(c) ==
  /\ Open(c)
  /\ out' # NoDigest
  /\ out'.iv = stream[c].iv
  /\ IsPadded(stream[c].in, out'.in)
  /\ phase' = [phase EXCEPT ![c] = "done"]
  /\ stream' = [stream EXCEPT ![c] = Nothing]

Duplicate(dst, src) ==
  /\ phase' = [phase EXCEPT ![dst] = phase[src]]
  /\ stream' = [stream EXCEPT ![dst] = stream[src]]
  /\ UNCHANGED out

Forget(c) ==
  /\ phase' = [phase EXCEPT ![c] = "cleared"]
  /\ stream' = [stream EXCEPT ![c] = Nothing]
  /\ UNCHANGED out

AbsNext ==
  \E c \in Ctx :
    \/ \E iv \in IV : Start(c, iv)
    \/ \E m \in Chunks : Feed(c, m)
    \/ Resume(c)
    \/ Finish(c)
    \/ \E src \in Ctx : Duplicate(c, src)
    \/ Forget(c)

AbsSpec == AbsInit /\ [][AbsNext]_absVars
=============================================================================
