------------------------- MODULE GenerationTransaction -------------------------
(***************************************************************************)
(* How a generation of a board is published (production_workflow.py): its  *)
(* artifacts are written into a staging directory, the directory is moved  *)
(* among the generations, and CURRENT.json is replaced by a pointer to it. *)
(* Nothing is locked. A supervised worker may be killed before any step,   *)
(* and any write may fail, which the code answers by moving the generation *)
(* among the failed ones.                                                  *)
(***************************************************************************)
EXTENDS FiniteSets

CONSTANTS
  Generation,   \* generation identities callers may choose
  Worker,       \* processes that publish below one transaction root
  File,         \* relative paths of a generation's artifacts
  Kind,         \* what a call publishes, a subset of the four below
  NoPointer,    \* there is no CURRENT.json, or no temporary one
  Torn,         \* a pointer file whose writer was killed
  Nobody        \* the owner of a directory that is not there

\* A pointer file names a generation and holds the fingerprint of its manifest,
\* which tells whose publication it is.
Publication == Generation \X Worker
Pointer     == Publication \cup {NoPointer, Torn}

ASSUME PublicationAssumption ==
  /\ Kind \subseteq {"persist", "revise", "inspect", "route"}
  /\ NoPointer \notin Publication /\ Torn \notin Publication /\ NoPointer # Torn
  /\ Nobody \notin Worker \cup Generation

VARIABLES
  current,      \* CURRENT.json
  temporary,    \* .CURRENT.json.tmp
  staging,      \* .staging/<generation>
  generations,  \* generations/<generation>
  failed,       \* failed/<generation>
  pc,           \* where each worker is
  work,         \* what each worker publishes
  published,    \* history: every pointer CURRENT.json has held
  rolledBack    \* history: publications whose result was rolled_back

\* What a worker does between two calls.
NoWork == [gen |-> Nobody, kind |-> "", source |-> NoPointer, previous |-> NoPointer]

disk == << current, temporary, staging, generations, failed >>
vars == << disk, pc, work, published, rolledBack >>

Directory == [owner  : Worker \cup {Nobody},
              files  : SUBSET File,
              status : {"", "committed", "rolled_back"}]   \* of transaction.json

NoDirectory == [owner |-> Nobody, files |-> {}, status |-> ""]

\* commit_generation_transaction's body inside its try, before and after the
\* directory moved among the generations.
Staged   == {"write", "promote"}
Promoted == {"recheck", "point", "swap"}

TypeOK ==
  /\ current \in Pointer
  /\ temporary \in Pointer
  /\ staging \in [Generation -> Directory]
  /\ generations \in [Generation -> Directory]
  /\ failed \in [Generation -> Directory]
  /\ pc \in [Worker -> {"idle", "bind", "check", "compare", "stage",
                        "mark", "mark promoted", "retire", "retire promoted", "discard"}
                       \cup Staged \cup Promoted]
  /\ work \in [Worker -> [gen : Generation, kind : Kind, source : Pointer, previous : Pointer]
                          \cup {NoWork}]
  /\ \A w \in Worker : pc[w] = "idle" <=> work[w] = NoWork
  /\ published \subseteq Publication
  /\ rolledBack \subseteq Publication

Init ==
  /\ current = NoPointer /\ temporary = NoPointer
  /\ staging = [g \in Generation |-> NoDirectory]
  /\ generations = [g \in Generation |-> NoDirectory]
  /\ failed = [g \in Generation |-> NoDirectory]
  /\ pc = [w \in Worker |-> "idle"]
  /\ work = [w \in Worker |-> NoWork]
  /\ published = {} /\ rolledBack = {}

Exists(d) == d # NoDirectory

\* resolve_current_generation returns a manifest, for a pointer p.
Resolves(p) ==
  \E g \in Generation, w \in Worker :
    /\ p = << g, w >>
    /\ generations[g] = [owner |-> w, files |-> File, status |-> "committed"]

Go(w, from, to) == pc[w] = from /\ pc' = [pc EXCEPT ![w] = to]

\* Faulty variant: a revision copies any generation that was published.
BeginAnywhere(w, g, k) ==
  /\ k \in {"revise", "inspect"} => Resolves(current)
  /\ Go(w, "idle", IF k = "route" THEN "check" ELSE "bind")
  /\ \E p \in published \cup {current} :
       work' = [work EXCEPT ![w] = [gen |-> g, kind |-> k, source |-> p, previous |-> current]]
  /\ UNCHANGED << disk, published, rolledBack >>

\* A call begins. A revision reads the generation it starts from and copies its
\* artifacts; an inspection completion was also authorized for that generation
\* alone; a routing candidate reads the pointer before its long computation.
Begin(w, g, k) ==
  /\ k \in {"revise", "inspect"} => Resolves(current)
  /\ Go(w, "idle", IF k = "route" THEN "check" ELSE "bind")
  /\ work' = [work EXCEPT ![w] =
       [gen |-> g, kind |-> k, source |-> current, previous |-> current]]
  /\ UNCHANGED << disk, published, rolledBack >>

\* The other calls read the pointer once the artifacts are ready, and stage the
\* manifest that binds it.
Bind(w) ==
  /\ Go(w, "bind", "check")
  /\ current # Torn
  /\ work' = [work EXCEPT ![w].previous = current]
  /\ UNCHANGED << disk, published, rolledBack >>

\* Faulty variant: a generation that failed may be tried again under its name.
CheckRetrying(w) ==
  /\ Go(w, "check", "compare")
  /\ work[w].kind = "inspect" => current = work[w].source /\ Resolves(current)
  /\ ~ Exists(staging[work[w].gen]) /\ ~ Exists(generations[work[w].gen])
  /\ UNCHANGED << disk, work, published, rolledBack >>

\* The permit's own checks, and no directory of that name yet.
Check(w) ==
  /\ Go(w, "check", "compare")
  /\ work[w].kind = "inspect" => current = work[w].source /\ Resolves(current)
  /\ ~ Exists(staging[work[w].gen])
  /\ ~ Exists(generations[work[w].gen])
  /\ ~ Exists(failed[work[w].gen])
  /\ UNCHANGED << disk, work, published, rolledBack >>

\* The staged manifest binds the current pointer.
Compare(w) ==
  /\ Go(w, "compare", "stage")
  /\ current = work[w].previous /\ current # Torn
  /\ UNCHANGED << disk, work, published, rolledBack >>

\* staging.mkdir refuses a directory that exists.
Stage(w) ==
  /\ Go(w, "stage", "write")
  /\ ~ Exists(staging[work[w].gen])
  /\ staging' = [staging EXCEPT ![work[w].gen] = [NoDirectory EXCEPT !.owner = w]]
  /\ UNCHANGED << current, temporary, generations, failed, work, published, rolledBack >>

Write(w, f) ==
  /\ pc[w] = "write" /\ f \notin staging[work[w].gen].files
  /\ staging' = [staging EXCEPT ![work[w].gen].files = @ \cup {f}]
  /\ UNCHANGED << current, temporary, generations, failed, pc, work, published, rolledBack >>

\* Faulty variant: the manifest is committed before the artifacts were verified.
SealUnverified(w) ==
  /\ Go(w, "write", "promote")
  /\ staging' = [staging EXCEPT ![work[w].gen].status = "committed"]
  /\ UNCHANGED << current, temporary, generations, failed, work, published, rolledBack >>

\* Every artifact was written and verified: the committed manifest is written.
Seal(w) ==
  /\ Go(w, "write", "promote")
  /\ staging[work[w].gen].files = File
  /\ staging' = [staging EXCEPT ![work[w].gen].status = "committed"]
  /\ UNCHANGED << current, temporary, generations, failed, work, published, rolledBack >>

\* os.replace moves a directory only to a place that is free.
Move(g, from, to) ==
  /\ ~ Exists(to[g])
  /\ to' = [to EXCEPT ![g] = from[g]]
  /\ from' = [from EXCEPT ![g] = NoDirectory]
Promote(w) ==
  /\ Go(w, "promote", IF work[w].kind = "inspect" THEN "recheck" ELSE "point")
  /\ Move(work[w].gen, staging, generations)
  /\ UNCHANGED << current, temporary, failed, work, published, rolledBack >>

\* An inspection completion checks its predecessor once more.
Recheck(w) ==
  /\ Go(w, "recheck", "point")
  /\ current = work[w].source /\ Resolves(current)
  /\ UNCHANGED << disk, work, published, rolledBack >>

\* Faulty variant: a temporary pointer that is already there is used as it is.
PointReusing(w) ==
  /\ Go(w, "point", "swap")
  /\ temporary' = IF temporary = NoPointer THEN << work[w].gen, w >> ELSE temporary
  /\ UNCHANGED << current, staging, generations, failed, work, published, rolledBack >>

\* The temporary pointer has the same name for every call.
Point(w) ==
  /\ Go(w, "point", "swap")
  /\ temporary' = << work[w].gen, w >>
  /\ UNCHANGED << current, staging, generations, failed, work, published, rolledBack >>

\* Faulty variant: the next call still finds what this one published.
ReturnStale(w, from) == Go(w, from, "idle") /\ UNCHANGED work

\* The call ends.
Return(w, from) == Go(w, from, "idle") /\ work' = [work EXCEPT ![w] = NoWork]

\* Faulty variant: after the swap the call may still raise inside the try.
SwapInsideTry(w) ==
  /\ pc[w] = "swap" /\ temporary # NoPointer
  /\ current' = temporary /\ temporary' = NoPointer
  /\ published' = published \cup ({temporary} \ {Torn})
  /\ UNCHANGED << staging, generations, failed, pc, work, rolledBack >>

\* CURRENT.json is replaced, and the result is "committed".
Swap(w) ==
  /\ Return(w, "swap")
  /\ temporary # NoPointer
  /\ current' = temporary /\ temporary' = NoPointer
  /\ published' = published \cup ({temporary} \ {Torn})
  /\ UNCHANGED << staging, generations, failed, rolledBack >>

\* A temporary pointer that is being written may stay half-written.
Tear(w) == temporary' \in IF pc[w] = "point" THEN {temporary, Torn} ELSE {temporary}

\* A write, a move or a check inside the try raised.
Fail(w) ==
  /\ \/ pc[w] \in Staged   /\ pc' = [pc EXCEPT ![w] = "mark"]
     \/ pc[w] \in Promoted /\ pc' = [pc EXCEPT ![w] = "mark promoted"]
  /\ Tear(w)
  /\ UNCHANGED << current, staging, generations, failed, work, published, rolledBack >>

\* The handler writes a rolled_back manifest where the generation is,
Mark(w) ==
  /\ \/ /\ Go(w, "mark", "retire")
        /\ staging' = [staging EXCEPT ![work[w].gen].status = "rolled_back"]
        /\ UNCHANGED generations
     \/ /\ Go(w, "mark promoted", "retire promoted")
        /\ generations' = [generations EXCEPT ![work[w].gen].status = "rolled_back"]
        /\ UNCHANGED staging
  /\ UNCHANGED << current, temporary, failed, work, published, rolledBack >>

\* moves it among the failed ones,
Retire(w) ==
  /\ \/ Go(w, "retire", "discard") /\ Move(work[w].gen, staging, failed)
        /\ UNCHANGED generations
     \/ Go(w, "retire promoted", "discard") /\ Move(work[w].gen, generations, failed)
        /\ UNCHANGED staging
  /\ UNCHANGED << current, temporary, work, published, rolledBack >>

\* and the temporary pointer with it, if there is one; the result is "rolled_back".
Discard(w) ==
  /\ Return(w, "discard")
  /\ temporary' = NoPointer
  /\ rolledBack' = rolledBack \cup {<< work[w].gen, w >>}
  /\ UNCHANGED << current, staging, generations, failed, published >>

\* The call raises outside the try or in the handler, or its worker is killed.
Leave(w) ==
  /\ pc[w] # "idle" /\ Return(w, pc[w])
  /\ Tear(w)
  /\ UNCHANGED << current, staging, generations, failed, published, rolledBack >>

Step(w) ==
  \/ \E g \in Generation, k \in Kind : Begin(w, g, k)
  \/ Bind(w) \/ Check(w) \/ Compare(w)
  \/ Stage(w) \/ (\E f \in File : Write(w, f)) \/ Seal(w) \/ Promote(w)
  \/ Recheck(w) \/ Point(w) \/ Swap(w)
  \/ Fail(w) \/ Mark(w) \/ Retire(w) \/ Discard(w)
  \/ Leave(w)

Next == \E w \in Worker : Step(w)

Spec == Init /\ [][Next]_vars

-------------------------------------------------------------------------------
(* Properties *)

\* "The previously committed CURRENT.json is never modified until every new artifact
\* and the final manifest have been written and verified"
\* (commit_generation_transaction): whatever CURRENT.json names was complete.
VerifiedBeforeNamed ==
  \A g \in Generation, w \in Worker :
    current = << g, w >> =>
      \E d \in {generations[g], failed[g]} : d.owner = w /\ d.files = File

\* Whenever a call of resolve_current_generation looks, there is no pointer yet or it
\* names a committed generation with all its artifacts, whatever write failed and
\* wherever workers were killed.
CurrentResolves == current # NoPointer => Resolves(current)

\* A generation a reader may have found in CURRENT.json is neither altered nor moved
\* by a later publication, a failed one or a killed one: a reader that is still
\* hashing its artifacts finds them.
PublishedImmutable ==
  [][\A p \in published : generations'[p[1]] = generations[p[1]]]_vars

\* A publication that reported rolled_back is not what CURRENT.json names
\* (test_failed_second_generation_retains_previous_pointer_and_failure).
RolledBackIsNotCurrent == current \notin rolledBack

===============================================================================
