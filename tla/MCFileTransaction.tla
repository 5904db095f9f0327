--------------------------- MODULE MCFileTransaction ---------------------------
(* A project of two files, one of them absent at first, for TLC. *)
EXTENDS FileTransaction, TLC

CONSTANTS board, log, v1, v2, event, v1event, more

MCContent == {v1, v2, event, v1event, more}

MCExtended(c, line) == CASE c = Absent -> line
                         [] c = v1     -> v1event
                         [] OTHER      -> more

Request(write, append, expect, createOnly) ==
  [write |-> write, append |-> append, expect |-> expect, createOnly |-> createOnly]

\* A board revision against the loaded board (apply_board_revision), a save that
\* also appends to a log, and a creation (create_project).
MCEdits ==
  { Request((board :> v2) @@ (log :> v2), Empty, board :> v1, FALSE),
    Request(board :> v1, log :> event, Empty, FALSE),
    Request(log :> v1, Empty, Empty, TRUE) }

MCInitial == {(board :> v1) @@ (log :> Absent)}

MCForeign == {Absent, v1, more}
================================================================================
