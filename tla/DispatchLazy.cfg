\* Three threads make first calls; nobody registers.  CPUs from Core 2 to Zen and one
\* without CPUID, with and without assembly; N is the length of the longest IMPL_PRIO.
SPECIFICATION PSpec
CONSTANTS
  Thread = {t1, t2, t3}
  Registrar = {}
  N = 11
  Swapped = TRUE
  Masks = {}
  HashNames = {"sha1", "sha2_512"}
  CPUs <- MCCPUs
  Builds <- MCBuilds
INVARIANTS LazyAgrees RunsSupported
PROPERTY CallsReturn
