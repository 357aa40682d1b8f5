CONSTANTS
  r1 = r1  r2 = r2  r3 = r3
  vm = vm  image = image
  NoRequest = NoRequest
  Request <- MCRequest
  Key <- MCKey
  KeyOf <- MCKeyOf
  Size <- MCSize
  MaxSize = 2
  TargetSize = 1
  CancelPoints = {"exists", "inflight", "wait", "fetch", "stat"}
SPECIFICATION Spec
CHECK_DEADLOCK FALSE
INVARIANTS OneFetch NoPinLeak SizeCounted
PROPERTIES RequestsEnd
