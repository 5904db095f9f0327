SPECIFICATION RSpec
CONSTANTS
  board = board
  ledger = ledger
  v1 = v1
  v2 = v2
  v2filled = v2filled
  v3 = v3
  entry = entry
  other = other
  one = one
  two = two
  more = more
  File = {board, ledger}
  Absent = Absent
  NoProc = NoProc
  Proc = {p1, p2}
  Reviser = p2
  Board = board
  Ledger = ledger
  Closure = {board}
  IsLedger <- MCIsLedger
  Entry = entry
  Line = {entry}
  Request <- MCRequest
  NoRequestYet = NoRequestYet
  Revised <- MCRevised
  Refilled <- MCRefilled
  Content <- MCContent
  Extended <- MCExtended
  Edits <- EditRequest
  Competing <- MCCompeting
  Initial <- MCInitial
  Foreign <- MCForeign
  ExternalWhileLocked = FALSE
  Copies <- MCCopies
INVARIANTS
  RTypeOK
  CopyIsOneProject
  ReceiptIsTrue
  ResumableUnlessTorn
PROPERTIES
  EndIsFinal
  AppliedOnPredecessor
