----------------------------- MODULE ProjectEdit -----------------------------
(***************************************************************************)
(* What a caller of commit_project_files asks for, and what the request    *)
(* means for the files of a project.                                       *)
(*                                                                         *)
(* A digest is modelled by the content it identifies: SHA-256 is taken to  *)
(* be collision free.                                                      *)
(***************************************************************************)

CONSTANTS
  File,      \* project-relative paths
  Content,   \* what a file may hold
  Absent,    \* the file does not exist
  Line,      \* what a request may append to a file
  Extended(_, _),  \* a content (or Absent, read as b"") with a line appended
  Edits,     \* requests made of commit_project_files
  Initial    \* project contents before the first request

Stored == Content \cup {Absent}

(***************************************************************************)
(* A request: whole-file replacements, lines to append, the digests the    *)
(* caller loaded (None, here Absent, for "did not exist"), and create_only.*)
(***************************************************************************)
EditRequest ==
  [ write      : UNION { [S -> Content] : S \in SUBSET File },
    append     : UNION { [S -> Line] : S \in SUBSET File },
    expect     : UNION { [S -> Stored] : S \in SUBSET File },
    createOnly : BOOLEAN ]

ASSUME EditAssumption ==
  /\ Absent \notin Content
  /\ \A c \in Stored, line \in Line : Extended(c, line) \in Content
  /\ Edits \subseteq EditRequest
  /\ Initial \subseteq [File -> Stored]

Targets(e) == DOMAIN e.write \cup DOMAIN e.append

\* The contents computed for the targets of e from the files d.
NewContents(e, d) ==
  [f \in Targets(e) |-> IF f \in DOMAIN e.write THEN e.write[f]
                                                ELSE Extended(d[f], e.append[f])]

\* The refusals of commit_project_files that depend on the files d.
Admissible(e, d) ==
  /\ DOMAIN e.write \cap DOMAIN e.append = {}
  /\ Targets(e) # {}
  /\ e.createOnly => \A f \in Targets(e) : d[f] = Absent
  /\ \A f \in DOMAIN e.expect : d[f] = e.expect[f]

\* The files d with those of the partial function new replaced.
Overlay(d, new) == [f \in File |-> IF f \in DOMAIN new THEN new[f] ELSE d[f]]
==============================================================================
