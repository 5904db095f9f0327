------------------------------ MODULE AtomicEdit ------------------------------
(***************************************************************************)
(* What operations/file_transaction.py promises of a multi-file edit,      *)
(* without lock, journal or recovery: an edit is validated against the     *)
(* whole project at one instant, and later either takes effect on all its  *)
(* files at one instant or on none; neither happens while a file it names  *)
(* has been changed by somebody else.                                      *)
(***************************************************************************)
EXTENDS ProjectEdit

VARIABLES
  project,   \* the content of every file, as a reader may rely on it
  pending    \* the edit validated and not settled: at most one

avars == << project, pending >>

AInit == project \in Initial /\ pending = {}

Begin(e) ==
  /\ pending = {}
  /\ Admissible(e, project)
  /\ pending' = {[ base |-> [f \in Targets(e) |-> project[f]],
                   new  |-> NewContents(e, project) ]}
  /\ UNCHANGED project

Undisturbed(t) == \A f \in DOMAIN t.base : project[f] = t.base[f]

Commit(t) ==
  /\ Undisturbed(t)
  /\ project' = Overlay(project, t.new)
  /\ pending' = {}

Abort(t) == Undisturbed(t) /\ pending' = {} /\ UNCHANGED project

\* Somebody else (a KiCad editor, version control, a text editor) writes a file.
External(f) ==
  /\ \E c \in Stored : project' = [project EXCEPT ![f] = c]
  /\ UNCHANGED pending

ANext ==
  \/ \E e \in Edits : Begin(e)
  \/ \E t \in pending : Commit(t) \/ Abort(t)
  \/ \E f \in File : External(f)

ASpec == AInit /\ [][ANext]_avars
===============================================================================
