\* One request, two calls at a time, and one fault of any kind.
SPECIFICATION Spec
CONSTANTS
  A = A
  B = B
  r1 = r1
  r2 = r2
  Party = {A, B}
  Request = {r1}
  Recurring = {}
  Expires <- FirstExpires
  Payee <- BothByA
  Caller = {c1, c2}
  Strays <- SomeStrays
  MaxClock = 1
  MaxQueue = 2
  MaxFault = 1
SYMMETRY CallerSymmetry
INVARIANTS
  NoSilentDisagreement
  
  CallTakesEffect
  NeedsResponseIsListed
