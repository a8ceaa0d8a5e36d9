\* Two threads register and call at will.
SPECIFICATION Spec
CONSTANTS
  Thread = {t1, t2}
  Registrar = {t1, t2}
  N = 3
  Swapped = TRUE
  Masks <- MCMasks
SYMMETRY ThreadSymmetry
INVARIANTS TypeOK RunsUsable Selected
