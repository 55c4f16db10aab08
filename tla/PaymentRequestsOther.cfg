\* Two requests, calls one at a time, a sound link, no expiry.
SPECIFICATION Spec
CONSTANTS
  A = A
  B = B
  r1 = r1
  r2 = r2
  Party = {A, B}
  Request = {r1, r2}
  Recurring = {}
  Expires <- NoneExpires
  Payee <- BothByA
  Caller = {c1}
  Strays = {}
  MaxClock = 1
  MaxQueue = 3
  MaxFault = 0
INVARIANTS
  CanceledAfterAcceptance
