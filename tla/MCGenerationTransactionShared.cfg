SPECIFICATION Spec
CONSTANTS
  g1 = g1  g2 = g2  g3 = g3  w1 = w1  w2 = w2  f1 = f1  f2 = f2
  Generation <- Two
  Worker <- Both
  File <- Files
  Kind <- Kinds
  NoPointer = NoPointer  Torn = Torn  Nobody = Nobody
SYMMETRY Pairs
INVARIANT RolledBackIsNotCurrent
