\* The first call of a hash in little-endian order on the same machines.
SPECIFICATION PSpec
CONSTANTS
  Thread = {t1, t2}
  Registrar = {}
  N = 4
  Swapped = FALSE
  Masks = {}
  HashNames = {"md4", "md5", "ripemd160"}
  CPUs <- MCCPUs
  Builds <- MCBuilds
INVARIANT RunsSupported
