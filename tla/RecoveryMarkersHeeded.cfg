\* Two parties whose clocks agree, one of which may lose the link.
SPECIFICATION RecoverySpec
CONSTANTS
  Party = {alice, bob}
  Failing = {alice}
  TicksPerSecond = 2
  Window = 1
  Skews = {0}
  MaxTick = 3
  MaxRecovery = 2
  MaxHandshake = 3
INVARIANT NewMarkerIsHeeded
