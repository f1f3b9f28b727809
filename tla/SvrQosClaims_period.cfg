CONSTANTS
  s1 = s1
  k1 = k1
  Svr = {s1}
  Kind = {k1}
  Host = {s1}
  KindOf <- OneKind
  HostOf <- OwnHost
  ReqMin = 1
  ReqMax = 3
  RateUnit = 10
  ErrMin = 1
  ExtendRate = 5
  DownErrReq = 2
  DownErrRate = 5
  ProbeTimes = 1
  Loads = {1}
  DelayLoads = {1}
  AvgErrRates = {0}
  ProbeResults = {"bad", "ok"}
  RebuildTm = 2
  DefaultRebuildTm = 1
  ProbeBegin = 1
  DownTime = 2
  DownReq = 1
  MaxPre = 2
  MaxReports = 1
  ReqCap = 1
SPECIFICATION Spec
INVARIANT PeriodIsConfigured
