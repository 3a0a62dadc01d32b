SPECIFICATION BackgroundSpec
CONSTANTS
  Calls = {c1, c2, c3}
  Times <- MCTimes
  CallerTimes <- MCCallerTimes
  SignerConfigs <- MCSigned
  Kinds <- MCBothKinds
  OcspKeys = {k1, k2}
  OcspHandlers = {h1, h2}
  CacheSize = 1
  Validity = 2
  NoKey = NoKey
  NotifyCerts = {n1}
  subj = subj
  Subjects <- MCSubjects
  Subject <- MCSubject
  Periods = {p1}
  Replicas = {r1, r2}
  MaxDeliver = 2
  MaxQueue = 2
  MaxFaults = 1
  HsmOps = {r1, r2}
  HsmKeys = {key}
  Kek = kek
  NoHsmKey = NoHsmKey
  ScmsHandlers = {r1, r2}
  MaxPin = 3
  KeyLabels = {key}
  KraAgents = {1, 128, 255}
  NumShares = 255
  KekBytes <- MCKekBytes
  Coefficients <- MCCoefficients
  MaxThreshold = 3
  NoEscrow = NoEscrow
SYMMETRY BackgroundSymmetry
INVARIANTS ChainIntact OriginalTimeKept ReplyTruthful DeletionDetected NoticeOnce OcspSound
  HsmTruthful PinLockout QuorumRecovers
PROPERTIES AppendOnly ImplementsLog
CHECK_DEADLOCK FALSE
