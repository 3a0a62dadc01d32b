SPECIFICATION CaSpec
CONSTANTS
  alice = alice
  bob = bob
  carol = carol
  Users <- MCUsers
  Approvers <- MCUsers
  r1 = r1
  r2 = r2
  Requests = {r1, r2}
  RequestTypes <- MCAllTypes
  Handlers = {h1, h2}
  NoCert = NoCert
  Archives <- MCArchives
  NoRequest = NoRequest
  Certs = {x}
  Revocations = {h1, h2}
  Jobs = {j1, j2, j3}
  MaxTime = 2
  MaxSkew = 1
SYMMETRY CaSymmetry
INVARIANTS CertificateApproved StatusBacked JobHonest DeltaOnlyChanges RevocationTruthful
PROPERTIES NumbersInOrder ApprovalImplementsPolicy
CHECK_DEADLOCK FALSE
