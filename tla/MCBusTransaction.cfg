SPECIFICATION FairSpec
CONSTANTS
  m1 = m1
  m2 = m2
  f = f
  r1 = r1
  r2 = r2
  r3 = r3
  a = a
  b = b
  c = c
  bus = bus
  single = single
  Net <- MCNet
  Resource <- MCResource
  Route <- MCRoute
  Occupies <- MCOccupies
  Target <- MCTarget
  Bus = bus
  Nets <- MCNets
  Rank <- MCRank
  MaxPasses = 3
  MaxStagnant = 1
  MaxWork = 1
  MaxWorkPerTarget = 1
  Stray <- MCStray
  Standing <- MCStanding
INVARIANTS
  TypeOK
  LedgersIndexed
  RoutesHoldTheirClaims
  BusesAreWhole
PROPERTIES
  RetainedFits
  AcceptedAsChecked
  CallsAreAtomic
  CallsEnd
CHECK_DEADLOCK FALSE
