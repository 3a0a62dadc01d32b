SPECIFICATION Spec
CONSTANTS
  Certs = {x}
  Revocations = {v1}
  Jobs = {j1, j2}
  MaxTime = 2
  MaxSkew = 0
SYMMETRY JobSymmetry
INVARIANT RevokedStaysListed
CHECK_DEADLOCK FALSE
