SPECIFICATION Spec
CONSTANTS
  Node = {n1}
  Sandbox = {s1}
  NoNode = none
  NoReport = noreport
  Pulled = {n1}
  MaxInFlight = 2
  MaxMishaps = 2
INVARIANT HeartbeatWins
