SPECIFICATION LeadershipSpec
CONSTANTS
  Replica = {r1, r2}
  NoReplica = none
  LeaseDuration = 15
  RenewDeadline = 10
  RetryPeriod = 2
  Latency = 2
  DrainTime = 10
INVARIANT NoOverlap
