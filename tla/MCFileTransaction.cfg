SPECIFICATION FairSpec
CONSTANTS
  board = board
  log = log
  v1 = v1
  v2 = v2
  event = event
  v1event = v1event
  more = more
  File = {board, log}
  Absent = Absent
  NoProc = NoProc
  Proc = {p1, p2}
  Line = {event}
  Content <- MCContent
  Extended <- MCExtended
  Edits <- MCEdits
  Initial <- MCInitial
  Foreign <- MCForeign
  ExternalWhileLocked = FALSE
INVARIANTS
  IInv
PROPERTIES
  EditsAreAtomic
  NoForeignOverwrite
  CommittedEditKept
  InterruptedEditsSettle
