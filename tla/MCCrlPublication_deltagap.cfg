SPECIFICATION Spec
CONSTANTS
  Certs = {x}
  Revocations = {v1}
  Jobs = {j1, j2}
  MaxTime = 3
  MaxSkew = 0
SYMMETRY JobSymmetry
INVARIANT DeltaComplete
CHECK_DEADLOCK FALSE
