SPECIFICATION BoardSpec
CONSTANTS
  g1 = g1  g2 = g2  g3 = g3  w1 = w1  c1 = c1  c2 = c2  f1 = f1  f2 = f2  r1 = r1  r2 = r2
  Generation <- Three
  Worker <- Everybody
  Builder <- Builders
  File <- Files
  Kind <- Kinds
  Candidate <- Routes
  NoPointer = NoPointer  Torn = Torn  Nobody = Nobody  NoCandidate = NoCandidate
SYMMETRY Symmetry
INVARIANTS BoardTypeOK VerifiedBeforeNamed CurrentResolves RolledBackIsNotCurrent PublishersTakeTurns RecordsAreTrue ReportsAreTrue
PROPERTIES PublishedImmutable EachSucceedsItsSource SuccessorIsAuthorized
CHECK_DEADLOCK FALSE
