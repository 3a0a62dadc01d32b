SPECIFICATION PartsSpec
CONSTANTS
  Calls = {c1, c2}
  Times <- MCTimes
  CallerTimes <- MCNoCaller
  SignerConfigs <- MCSigned
  Kinds <- MCRecordOnly
  OcspKeys = {k1, k2}
  OcspHandlers = {h1, h2}
  CacheSize = 1
  Validity = 2
  NoKey = NoKey
  NotifyCerts = {n1}
  subj = subj
  Subjects <- MCSubjects
  Subject <- MCSubject
  Periods = {p1}
  Replicas = {r1}
  MaxDeliver = 1
  MaxQueue = 2
  MaxFaults = 2
  GrpcCalls = {g1, g2}
  Threshold = 2
  GrpcRetries = 3
  CoolTicks = 2
  k1 = k1
  k2 = k2
  k3 = k3
  s1 = s1
  s2 = s2
  Conns = {k1, k2, k3}
  Sources = {s1, s2}
  SourceOf <- MCSourceOf
  Entitled = {k1, k2}
  Limits <- MCLimits
  Domains = {d1, d2}
  Life = 3
  RenewBefore = 1
  MaxPortalFaults = 3
INVARIANTS FailuresAccounted NothingLeftBehind
PROPERTIES LockReleased CallReturns OcspForgets CallsReturn NoticeDelivered SlotsFreed SummaryReported PortalRenews
CHECK_DEADLOCK FALSE
