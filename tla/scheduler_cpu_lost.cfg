SPECIFICATION Spec
CONSTANTS
  Node = {n1, n2}
  Sandbox = {s1}
  NoNode = none
  NoReport = noreport
  Pulled = {}
  MaxInFlight = 2
  MaxMishaps = 1
INVARIANT SentIsDelivered
