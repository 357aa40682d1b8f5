SPECIFICATION Spec
CONSTANTS
  Replica = {r1, r2}
  NoReplica = none
  LeaseDuration = 15
  RenewDeadline = 10
  RetryPeriod = 2
  Latency = 2
  DrainTime = 10
  PollPeriod = 5
  Propagation = 10
  Interval = 5
  MaxReportBackoff = 60
  CallTimeout = 20
  BindingTTL = 30
  FailoverAllowance = 90
  MaxLosses = 1
INVARIANTS OneServes NeverNotFound
