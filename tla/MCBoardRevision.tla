---------------------------- MODULE MCBoardRevision ----------------------------
(* A project of a board and its ledger, a reviser and another editor, for TLC. *)
EXTENDS BoardRevision, TLC

CONSTANTS board, ledger, v1, v2, v2filled, v3, entry, other, one, two, more

MCContent == {v1, v2, v2filled, v3, entry, other, one, two, more}

MCIsLedger(c) == c \in {entry, one, two, more}

\* Ledgers by their length
MCExtended(c, line) ==
  CASE c = Absent -> entry [] c = entry -> one [] c = one -> two [] OTHER -> more

MCRevised(c)  == IF c \in {v1, v3} THEN v2 ELSE c
MCRefilled(c) == IF c = v2 THEN v2filled ELSE c

MCRequest == { [files |-> {board}, refill |-> b] : b \in BOOLEAN }

\* What other applications ask for: a revision of v1, and its inverse
MCCompeting ==
  { [write |-> (board :> v3) @@ (ledger :> entry), append |-> Empty,
     expect |-> (board :> v1) @@ (ledger :> Absent), createOnly |-> FALSE],
    [write |-> (board :> v1) @@ (ledger :> one), append |-> Empty,
     expect |-> (board :> v3) @@ (ledger :> entry), createOnly |-> FALSE] }

MCInitial == { (board :> v1) @@ (ledger :> Absent) }

MCCopies == { [closure |-> {board}, ifExists |-> {ledger}, extra |-> e] : e \in SUBSET {board, ledger} }

\* Another program writes a board of its own, or something over the ledger.
MCForeign == {other}
================================================================================
