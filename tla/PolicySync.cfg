SPECIFICATION FairSpec
CONSTANTS
  Rule = {a, b}
  MaxVersion = 2
  BufSize = 1
  ReconcileEvery = 2
  RedisCap = 1
  WireCap = 1
  MaxFaults = 1
INVARIANTS
  SettledEngine
  BetweenVersions
  MisledBriefly
PROPERTIES
  NeverBackwards
  Converges
