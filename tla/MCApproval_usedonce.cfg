SPECIFICATION ApprovalSpec
CONSTANTS
  alice = alice
  bob = bob
  carol = carol
  Users <- MCUsers
  Approvers <- MCUsers
  Requests = {r1}
  RequestTypes <- MCIssuance
  Handlers = {h1, h2, h3}
  NoCert = NoCert
SYMMETRY HandlerSymmetry
INVARIANT ApprovalUsedOnce
CHECK_DEADLOCK FALSE
