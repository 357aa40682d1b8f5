CONSTANTS
  n1 = n1
  n2 = n2
  a = a
  b = b
  c = c
  x = x
  y = y
  Node = {n1, n2}
  Sandbox = {a, b, c}
  Volume = {x, y}
  NoOwner = NoOwner
  Scenarios = {{a, b}, {b, c}}
  Host <- MCHost
  Mounts <- MCMounts
  Order <- Reversed
  Paused = {a, c}
  Snapshotted = {c}
  Discarded = {x}
  Recreated = {a}
  MaxWrites = 1
  MaxMishaps = 1
  Excused = {}
SPECIFICATION Spec
INVARIANTS NoStaleMount
