\* One user with one Noise key, and two calls.
SPECIFICATION IdentitySpec
CONSTANTS
  User = {u1}
  NoiseKey = {n1}
  Worker = {w1, w2}
  None = None
  MaxGeneration = 2
  MaxLeaseId = 2
INVARIANT SignOutLasts
