CONSTANTS
  s1 = s1
  s2 = s2
  k1 = k1
  Svr = {s1, s2}
  Kind = {k1}
  Host = {s1, s2}
  KindOf <- OneKind
  HostOf <- OwnHost
  ReqMin = 1
  ReqMax = 3
  RateUnit = 10
  ErrMin = 1
  ExtendRate = 5
  DownErrReq = 2
  DownErrRate = 5
  ProbeTimes = 1
  Loads = {1, 2}
  DelayLoads = {1}
  AvgErrRates = {0}
  ProbeResults = {"bad", "nopri", "ok"}
  RebuildTm = 1
  DefaultRebuildTm = 1
  ProbeBegin = 1
  DownTime = 3
  DownReq = 1
  MaxPre = 1
  MaxReports = 1
  ReqCap = 1
SPECIFICATION Spec
SYMMETRY SvrSymmetry
INVARIANTS
  TypeOK
  OrderedByLoad
  Partition
  NoEmptyTable
  DownAtMinimum
PROPERTIES
  OnlyFailingGoDown
  RecoveryIsProbed
  RejectOnlyIfAllFail
