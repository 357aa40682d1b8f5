CONSTANTS
  Volume = {v1, v2, v3}
  Deletion = {d1, d2}
  NoVolume = NoVolume
  MaxClaimAttempts = 2
SPECIFICATION Spec
INVARIANTS NameKept MissingIsStale
CHECK_DEADLOCK FALSE
