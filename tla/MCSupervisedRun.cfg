SPECIFICATION Spec
CONSTANTS
  c1 = c1  c2 = c2
  Call <- Both
  Build <- One
CHECK_DEADLOCK FALSE
INVARIANTS TypeOK SettledIsQuiet NoRival VerdictIsFinal
PROPERTIES AttemptsSettle LedgerKept
