--------------------------- MODULE GenerationProofs ---------------------------
(* Theorems about GenerationTransaction, for any generations, workers and files. *)
EXTENDS GenerationTransaction, TLAPS

HasStaged   == {"write", "promote", "mark", "retire"}
HasPromoted == Promoted \cup {"mark promoted", "retire promoted"}

\* The publication p was complete when it was promoted, and still is, wherever it is.
Complete(p) ==
  \E g \in Generation, w \in Worker :
    /\ p = << g, w >>
    /\ \E d \in {generations[g], failed[g]} : d.owner = w /\ d.files = File

\* The directory a worker works on is its own, and complete once it was sealed.
Own(w) ==
  LET g == work[w].gen IN
  /\ pc[w] \in HasStaged => staging[g].owner = w
  /\ pc[w] = "promote" => staging[g].files = File
  /\ pc[w] \in HasPromoted => generations[g].owner = w /\ generations[g].files = File

\* Pointer files name complete publications only.
PInv ==
  /\ TypeOK
  /\ current \in Publication => Complete(current)
  /\ temporary \in Publication => Complete(temporary)
  /\ \A w \in Worker : Own(w)

-------------------------------------------------------------------------------
(* Type correctness *)

Phase == {"idle", "bind", "check", "compare", "stage",
          "mark", "mark promoted", "retire", "retire promoted", "discard"}
         \cup Staged \cup Promoted

Work == [gen : Generation, kind : Kind, source : Pointer, previous : Pointer]

\* A worker that is not idle publishes some generation.
LEMMA Busy ==
  ASSUME TypeOK, NEW w \in Worker, pc[w] # "idle"
  PROVE  work[w] \in Work /\ work[w].gen \in Generation /\ << work[w].gen, w >> \in Publication
<1>1. work[w] \in Work
  BY DEF TypeOK, Work
<1>2. QED
  BY <1>1 DEF Work, Publication

\* What an idle or a busy worker keeps is told apart by its generation.
LEMMA WorkIsNotNoWork ==
  ASSUME NEW r \in Work
  PROVE  r # NoWork
<1>1. r.gen \in Generation
  BY DEF Work
<1>2. NoWork.gen = Nobody
  BY DEF NoWork
<1>3. QED
  BY <1>1, <1>2, PublicationAssumption

\* A step that changes one worker's place to a busy one and nothing else it has.
LEMMA GoType ==
  ASSUME TypeOK, NEW w \in Worker, NEW from, NEW to, Go(w, from, to),
         from # "idle", to \in Phase \ {"idle"}, UNCHANGED work
  PROVE  /\ pc' \in [Worker -> Phase]
         /\ \A v \in Worker : pc'[v] = "idle" <=> work'[v] = NoWork
         /\ work' \in [Worker -> Work \cup {NoWork}]
<1>1. pc \in [Worker -> Phase] /\ work \in [Worker -> Work \cup {NoWork}]
  BY DEF TypeOK, Phase, Work
<1>2. pc' = [pc EXCEPT ![w] = to] /\ pc[w] = from
  BY DEF Go
<1>3. \A v \in Worker : pc[v] = "idle" <=> work[v] = NoWork
  BY DEF TypeOK
<1>4. QED
  BY <1>1, <1>2, <1>3

\* A step that ends a call.
LEMMA ReturnType ==
  ASSUME TypeOK, NEW w \in Worker, NEW from, Return(w, from)
  PROVE  /\ pc' \in [Worker -> Phase]
         /\ \A v \in Worker : pc'[v] = "idle" <=> work'[v] = NoWork
         /\ work' \in [Worker -> Work \cup {NoWork}]
<1>1. pc \in [Worker -> Phase] /\ work \in [Worker -> Work \cup {NoWork}]
  BY DEF TypeOK, Phase, Work
<1>2. pc' = [pc EXCEPT ![w] = "idle"] /\ work' = [work EXCEPT ![w] = NoWork]
  BY DEF Return, Go
<1>3. \A v \in Worker : pc[v] = "idle" <=> work[v] = NoWork
  BY DEF TypeOK
<1>4. "idle" \in Phase
  BY DEF Phase
<1>5. QED
  BY <1>1, <1>2, <1>3, <1>4

\* The directories and the pointers, in a step of a busy worker.
DiskType ==
  /\ current \in Pointer /\ temporary \in Pointer
  /\ staging \in [Generation -> Directory]
  /\ generations \in [Generation -> Directory]
  /\ failed \in [Generation -> Directory]

LEMMA TypeParts ==
  TypeOK <=> /\ DiskType
             /\ pc \in [Worker -> Phase]
             /\ work \in [Worker -> Work \cup {NoWork}]
             /\ \A w \in Worker : pc[w] = "idle" <=> work[w] = NoWork
             /\ published \subseteq Publication /\ rolledBack \subseteq Publication
BY DEF TypeOK, DiskType, Phase, Work

LEMMA DirectoryType ==
  /\ NoDirectory \in Directory
  /\ \A w \in Worker : [NoDirectory EXCEPT !.owner = w] \in Directory
  /\ \A d \in Directory, f \in File : [d EXCEPT !.files = @ \cup {f}] \in Directory
  /\ \A d \in Directory : /\ [d EXCEPT !.status = "committed"] \in Directory
                          /\ [d EXCEPT !.status = "rolled_back"] \in Directory
BY DEF NoDirectory, Directory

LEMMA InitType == Init => TypeOK
<1> SUFFICES ASSUME Init
             PROVE  TypeOK
  OBVIOUS
<1>1. DiskType
  BY DirectoryType DEF Init, DiskType, Pointer
<1>2. /\ pc \in [Worker -> Phase]
      /\ work \in [Worker -> Work \cup {NoWork}]
      /\ \A w \in Worker : pc[w] = "idle" <=> work[w] = NoWork
  BY DEF Init, Phase
<1>3. published \subseteq Publication /\ rolledBack \subseteq Publication
  BY DEF Init
<1>4. QED
  BY <1>1, <1>2, <1>3, TypeParts

\* TypeOK of the next state, from its parts.
LEMMA TypePartsNext ==
  TypeOK' <=> /\ DiskType'
              /\ pc' \in [Worker -> Phase]
              /\ work' \in [Worker -> Work \cup {NoWork}]
              /\ \A w \in Worker : pc'[w] = "idle" <=> work'[w] = NoWork
              /\ published' \subseteq Publication /\ rolledBack' \subseteq Publication
BY DEF TypeOK, DiskType, Phase, Work

LEMMA StepType ==
  ASSUME TypeOK, NEW w \in Worker, Step(w)
  PROVE  TypeOK'
<1> USE DEF DiskType
<1>0. /\ DiskType
      /\ pc \in [Worker -> Phase] /\ work \in [Worker -> Work \cup {NoWork}]
      /\ \A v \in Worker : pc[v] = "idle" <=> work[v] = NoWork
      /\ published \subseteq Publication /\ rolledBack \subseteq Publication
  BY TypeParts
<1>p. {"bind", "check", "compare", "stage", "write", "promote", "recheck", "point", "swap",
       "mark", "mark promoted", "retire", "retire promoted", "discard"} = Phase \ {"idle"}
  BY DEF Phase, Staged, Promoted
<1>1. ASSUME NEW g \in Generation, NEW k \in Kind, Begin(w, g, k)
      PROVE  TypeOK'
  <2> DEFINE r == [gen |-> g, kind |-> k, source |-> current, previous |-> current]
  <2>1. r \in Work
    BY <1>0 DEF Work
  <2>2. r # NoWork
    BY <2>1, WorkIsNotNoWork
  <2>3. work' = [work EXCEPT ![w] = r]
    BY <1>1 DEF Begin
  <2>4. PICK to \in {"bind", "check"} : pc' = [pc EXCEPT ![w] = to]
    BY <1>1 DEF Begin, Go
  <2> HIDE DEF r
  <2>5. to \in Phase /\ to # "idle"
    BY <1>p
  <2>6. /\ pc' \in [Worker -> Phase] /\ work' \in [Worker -> Work \cup {NoWork}]
        /\ \A v \in Worker : pc'[v] = "idle" <=> work'[v] = NoWork
    BY <1>0, <2>1, <2>2, <2>3, <2>4, <2>5
  <2>7. UNCHANGED << disk, published, rolledBack >>
    BY <1>1 DEF Begin
  <2>8. QED
    BY <1>0, <2>6, <2>7, TypePartsNext DEF disk
<1>2. CASE Bind(w)
  <2>1. Go(w, "bind", "check") /\ work' = [work EXCEPT ![w].previous = current]
    BY <1>2 DEF Bind
  <2>2. work[w] \in Work
    BY <2>1, Busy DEF Go
  <2>3. [work[w] EXCEPT !.previous = current] \in Work
    BY <1>0, <2>2 DEF Work
  <2>4. [work[w] EXCEPT !.previous = current] # NoWork
    BY <2>3, WorkIsNotNoWork
  <2>5. /\ pc' \in [Worker -> Phase] /\ work' \in [Worker -> Work \cup {NoWork}]
        /\ \A v \in Worker : pc'[v] = "idle" <=> work'[v] = NoWork
    BY <1>0, <1>p, <2>1, <2>3, <2>4 DEF Go
  <2>6. UNCHANGED << disk, published, rolledBack >>
    BY <1>2 DEF Bind
  <2>7. QED
    BY <1>0, <2>5, <2>6, TypePartsNext DEF disk
<1>3. ASSUME UNCHANGED << disk, work, published, rolledBack >>,
             NEW from \in Phase \ {"idle"}, NEW to \in Phase \ {"idle"}, Go(w, from, to)
      PROVE  TypeOK'
  BY <1>0, <1>3, GoType, TypePartsNext DEF disk
<1>4. CASE Check(w) \/ Compare(w) \/ Recheck(w)
  <2>1. /\ UNCHANGED << disk, work, published, rolledBack >>
        /\ \/ Go(w, "check", "compare") \/ Go(w, "compare", "stage")
           \/ Go(w, "recheck", "point")
    BY <1>4 DEF Check, Compare, Recheck
  <2>2. QED
    BY <1>3, <1>p, <2>1
<1>5. ASSUME pc[w] # "idle", UNCHANGED << work, published, rolledBack >>, DiskType',
             NEW from \in Phase \ {"idle"}, NEW to \in Phase \ {"idle"}, Go(w, from, to)
      PROVE  TypeOK'
  BY <1>0, <1>5, GoType, TypePartsNext
<1>6. CASE Fail(w)
  <2>1. UNCHANGED << current, staging, generations, failed, work, published, rolledBack >>
    BY <1>6 DEF Fail
  <2>2. PICK from \in Staged \cup Promoted, to \in {"mark", "mark promoted"} : Go(w, from, to)
    BY <1>6 DEF Fail, Go
  <2>3. from \in Phase \ {"idle"} /\ to \in Phase \ {"idle"}
    BY <1>p, <2>2 DEF Staged, Promoted
  <2>4. pc[w] # "idle"
    BY <2>2, <2>3 DEF Go
  <2>5. DiskType'
    BY <1>0, <1>6, <2>1 DEF Fail, Tear, Pointer
  <2>6. QED
    BY <1>5, <2>1, <2>2, <2>3, <2>4, <2>5
<1>7. CASE Stage(w) \/ Seal(w) \/ Promote(w) \/ Point(w) \/ Mark(w) \/ Retire(w)
  <2>1. UNCHANGED << work, published, rolledBack >>
    BY <1>7 DEF Stage, Seal, Promote, Point, Mark, Retire
  <2>2. PICK from \in Phase \ {"idle"}, to \in Phase \ {"idle"} : Go(w, from, to)
    BY <1>7, <1>p DEF Stage, Seal, Promote, Point, Mark, Retire
  <2>3. pc[w] # "idle"
    BY <2>2 DEF Go
  <2>4. work[w].gen \in Generation /\ << work[w].gen, w >> \in Pointer
    BY <2>3, Busy DEF Pointer
  <2>5. DiskType'
    <3>1. CASE Stage(w)
      BY <1>0, <2>4, <3>1, DirectoryType DEF Stage
    <3>2. CASE Seal(w)
      BY <1>0, <2>4, <3>2, DirectoryType DEF Seal
    <3>3. CASE Promote(w)
      BY <1>0, <2>4, <3>3, DirectoryType DEF Promote, Move
    <3>4. CASE Point(w)
      BY <1>0, <2>4, <3>4 DEF Point
    <3>5. CASE Mark(w)
      <4>1. \A d \in [Generation -> Directory] :
              [d EXCEPT ![work[w].gen].status = "rolled_back"] \in [Generation -> Directory]
        BY <2>4, DirectoryType
      <4>2. /\ staging' \in [Generation -> Directory]
            /\ generations' \in [Generation -> Directory]
        BY <1>0, <3>5, <4>1 DEF Mark
      <4>3. UNCHANGED << current, temporary, failed >>
        BY <3>5 DEF Mark
      <4>4. QED
        BY <1>0, <4>2, <4>3
    <3>6. CASE Retire(w)
      BY <1>0, <2>4, <3>6, DirectoryType DEF Retire, Move
    <3>7. QED
      BY <1>7, <3>1, <3>2, <3>3, <3>4, <3>5, <3>6
  <2>6. QED
    BY <1>5, <2>1, <2>2, <2>3, <2>5
<1>8. CASE \E f \in File : Write(w, f)
  <2>1. PICK f \in File : Write(w, f)
    BY <1>8
  <2>2. work[w].gen \in Generation
    BY <2>1, Busy DEF Write
  <2>3. [staging[work[w].gen] EXCEPT !.files = @ \cup {f}] \in Directory
    BY <1>0, <2>2, DirectoryType
  <2>4. DiskType'
    BY <1>0, <2>1, <2>3 DEF Write
  <2>5. QED
    BY <1>0, <2>1, <2>4, TypePartsNext DEF Write
<1>9. CASE Swap(w) \/ Discard(w) \/ Leave(w)
  <2>1. PICK from : Return(w, from) /\ from # "idle"
    BY <1>9 DEF Swap, Discard, Leave
  <2>2. /\ pc' \in [Worker -> Phase] /\ work' \in [Worker -> Work \cup {NoWork}]
        /\ \A v \in Worker : pc'[v] = "idle" <=> work'[v] = NoWork
    BY <2>1, ReturnType
  <2>3. << work[w].gen, w >> \in Publication
    BY <2>1, Busy DEF Return, Go
  <2>4. /\ DiskType' /\ published' \subseteq Publication /\ rolledBack' \subseteq Publication
    <3>1. CASE Swap(w)
      BY <1>0, <3>1 DEF Swap, Pointer
    <3>2. CASE Discard(w)
      BY <1>0, <2>3, <3>2 DEF Discard, Pointer
    <3>3. CASE Leave(w)
      BY <1>0, <3>3 DEF Leave, Tear, Pointer
    <3>4. QED
      BY <1>9, <3>1, <3>2, <3>3
  <2>5. QED
    BY <2>2, <2>4, TypePartsNext
<1>10. QED
  BY <1>1, <1>2, <1>4, <1>6, <1>7, <1>8, <1>9 DEF Step

-------------------------------------------------------------------------------
(* Only complete publications are named *)

\* The moves of a worker, told without its pc function.
LEMMA Moves ==
  ASSUME TypeOK, NEW w \in Worker, Step(w)
  PROVE  \A v \in Worker \ {w} : pc'[v] = pc[v] /\ work'[v] = work[v]
<1>1. pc \in [Worker -> Phase] /\ work \in [Worker -> Work \cup {NoWork}]
  BY TypeParts
<1>2. (\E x : pc' = [pc EXCEPT ![w] = x]) \/ pc' = pc
  BY DEF Step, Begin, Bind, Check, Compare, Stage, Write, Seal, Promote, Recheck, Point, Swap,
         Fail, Mark, Retire, Discard, Leave, Tear, Return, Go
<1>3. (\E x : work' = [work EXCEPT ![w] = x]) \/ work' = work
  BY DEF Step, Begin, Bind, Check, Compare, Stage, Write, Seal, Promote, Recheck, Point, Swap,
         Fail, Mark, Retire, Discard, Leave, Tear, Return
<1>4. QED
  BY <1>1, <1>2, <1>3

\* A directory that is not there belongs to no worker.
LEMMA Unowned == \A w \in Worker : NoDirectory.owner # w
BY PublicationAssumption DEF NoDirectory

\* A publication stays complete when a directory is only marked, or moved to a free place.
LEMMA CompleteStays ==
  ASSUME TypeOK, NEW p \in Publication, Complete(p), NEW w \in Worker, Step(w)
  PROVE  Complete(p)'
<1>0. PICK g \in Generation, v \in Worker :
         /\ p = << g, v >>
         /\ \E d \in {generations[g], failed[g]} : d.owner = v /\ d.files = File
  BY DEF Complete
<1>1. PICK d \in {generations[g], failed[g]} : d.owner = v /\ d.files = File
  BY <1>0
<1>2. d # NoDirectory
  BY <1>1, Unowned
<1>3. SUFFICES \E e \in {generations'[g], failed'[g]} : e.owner = v /\ e.files = File
  BY <1>0 DEF Complete
<1>4. /\ generations \in [Generation -> Directory] /\ failed \in [Generation -> Directory]
      /\ staging \in [Generation -> Directory]
  BY DEF TypeOK
<1>5. pc[w] # "idle" => work[w].gen \in Generation
  BY Busy
<1>6. CASE UNCHANGED << generations, failed >>
  BY <1>1, <1>6
<1>7. CASE Promote(w)
  <2>1. /\ ~ Exists(generations[work[w].gen]) /\ UNCHANGED failed /\ pc[w] # "idle"
        /\ generations' = [generations EXCEPT ![work[w].gen] = staging[work[w].gen]]
    BY <1>7 DEF Promote, Move, Go
  <2>2. CASE g = work[w].gen
    BY <1>1, <1>2, <2>1, <2>2 DEF Exists
  <2>3. CASE g # work[w].gen
    BY <1>1, <1>4, <2>1, <2>3
  <2>4. QED
    BY <2>2, <2>3
<1>8. CASE Mark(w)
  <2>1. /\ UNCHANGED failed
        /\ \/ UNCHANGED generations
           \/ generations' = [generations EXCEPT ![work[w].gen].status = "rolled_back"]
    BY <1>8 DEF Mark
  <2>2. generations'[g].owner = generations[g].owner /\ generations'[g].files = generations[g].files
    <3>1. CASE UNCHANGED generations
      BY <3>1
    <3>2. CASE generations' = [generations EXCEPT ![work[w].gen].status = "rolled_back"]
      <4>1. generations[g] \in Directory
        BY <1>4
      <4>2. \/ generations'[g] = generations[g]
            \/ generations'[g] = [generations[g] EXCEPT !.status = "rolled_back"]
        BY <1>4, <3>2
      <4>3. QED
        BY <4>1, <4>2 DEF Directory
    <3>3. QED
      BY <2>1, <3>1, <3>2
  <2>3. CASE d = failed[g]
    BY <1>1, <2>1, <2>3
  <2>4. CASE d = generations[g]
    BY <1>1, <2>2, <2>4
  <2>5. QED
    BY <2>3, <2>4
<1>9. CASE Retire(w)
  <2>1. /\ ~ Exists(failed[work[w].gen]) /\ pc[w] # "idle"
        /\ \/ /\ failed' = [failed EXCEPT ![work[w].gen] = staging[work[w].gen]]
              /\ UNCHANGED generations
           \/ /\ failed' = [failed EXCEPT ![work[w].gen] = generations[work[w].gen]]
              /\ generations' = [generations EXCEPT ![work[w].gen] = NoDirectory]
    BY <1>9 DEF Retire, Move, Go
  <2>2. CASE g = work[w].gen
    <3>1. d = generations[g]
      BY <1>1, <1>2, <2>1, <2>2 DEF Exists
    <3>2. generations'[g] = d \/ failed'[g] = d
      <4>1. CASE UNCHANGED generations
        BY <3>1, <4>1
      <4>2. CASE failed' = [failed EXCEPT ![work[w].gen] = generations[work[w].gen]]
        BY <1>4, <2>2, <3>1, <4>2
      <4>3. QED
        BY <2>1, <4>1, <4>2
    <3>3. QED
      BY <1>1, <3>2
  <2>3. CASE g # work[w].gen
    <3>1. generations'[g] = generations[g] /\ failed'[g] = failed[g]
      BY <1>4, <2>1, <2>3
    <3>2. QED
      BY <1>1, <3>1
  <2>4. QED
    BY <2>2, <2>3
<1>10. QED
  BY <1>6, <1>7, <1>8, <1>9
     DEF Step, Begin, Bind, Check, Compare, Stage, Write, Seal, Recheck, Point, Swap,
         Fail, Discard, Leave, disk

\* What the pointer files hold after a step was already complete before it.
LEMMA PointersStep ==
  ASSUME PInv, NEW w \in Worker, Step(w)
  PROVE  /\ (current \in Publication => Complete(current))'
         /\ (temporary \in Publication => Complete(temporary))'
<1>1. TypeOK
  BY DEF PInv
<1>2. ASSUME NEW p \in Publication, p = current \/ p = temporary
      PROVE  Complete(p)'
  <2>1. Complete(p)
    BY <1>2 DEF PInv
  <2>2. QED
    BY <1>1, <2>1, CompleteStays
<1>3. CASE Point(w)
  <2>1. pc[w] = "point" /\ pc[w] # "idle"
    BY <1>3 DEF Point, Go
  <2>2. << work[w].gen, w >> \in Publication /\ work[w].gen \in Generation
    BY <1>1, <2>1, Busy
  <2>3. generations[work[w].gen].owner = w /\ generations[work[w].gen].files = File
    BY <2>1 DEF PInv, Own, HasPromoted, Promoted
  <2>4. PICK p \in Publication : p = << work[w].gen, w >>
    BY <2>2
  <2>5. Complete(p)
    BY <2>2, <2>3, <2>4 DEF Complete
  <2>6. Complete(p)'
    BY <1>1, <2>5, CompleteStays
  <2>7. temporary' = p /\ current' = current
    BY <1>3, <2>4 DEF Point
  <2>8. (current \in Publication => Complete(current))'
    BY <1>2, <2>7
  <2>9. QED
    BY <2>6, <2>7, <2>8
<1>4. CASE ~ Point(w)
  <2>1. /\ current' = current \/ current' = temporary
        /\ temporary' \in {temporary, NoPointer, Torn}
    BY <1>4 DEF Step, Begin, Bind, Check, Compare, Stage, Write, Seal, Promote, Recheck, Swap,
         Fail, Mark, Retire, Discard, Leave, Tear, disk
  <2>2. NoPointer \notin Publication /\ Torn \notin Publication
    BY PublicationAssumption
  <2>3. QED
    BY <1>2, <2>1, <2>2
<1>5. QED
  BY <1>3, <1>4

\* A worker changes no directory of another.
LEMMA Untouched ==
  ASSUME PInv, NEW w \in Worker, Step(w), NEW v \in Worker, v # w, NEW h \in Generation
  PROVE  /\ staging[h].owner = v => staging'[h] = staging[h]
         /\ generations[h].owner = v => generations'[h] = generations[h]
<1> DEFINE g == work[w].gen
<1>1. TypeOK /\ Own(w)
  BY DEF PInv
<1>2. staging \in [Generation -> Directory] /\ generations \in [Generation -> Directory]
  BY <1>1, TypeParts DEF DiskType
<1>3. CASE h # g
  <2>1. /\ \/ staging' = staging
           \/ \E d : staging' = [staging EXCEPT ![g] = d]
        /\ \/ generations' = generations
           \/ \E d : generations' = [generations EXCEPT ![g] = d]
    <3>1. CASE Stage(w) \/ (\E f \in File : Write(w, f)) \/ Seal(w)
      BY <3>1 DEF Stage, Write, Seal
    <3>2. CASE Promote(w)
      BY <3>2 DEF Promote, Move
    <3>3. CASE Mark(w)
      BY <3>3 DEF Mark
    <3>4. CASE Retire(w)
      BY <3>4 DEF Retire, Move
    <3>5. CASE UNCHANGED << staging, generations >>
      BY <3>5
    <3>6. QED
      BY <3>1, <3>2, <3>3, <3>4, <3>5
         DEF Step, Begin, Bind, Check, Compare, Recheck, Point, Swap, Fail, Discard, Leave, disk
  <2>2. staging'[h] = staging[h] /\ generations'[h] = generations[h]
    BY <1>2, <1>3, <2>1
  <2>3. QED
    BY <2>1, <2>2
<1>4. CASE h = g
  <2>1. CASE Stage(w)
    BY <1>4, <2>1, Unowned DEF Stage, Exists
  <2>2. CASE (\E f \in File : Write(w, f)) \/ Seal(w)
    <3>1. staging[g].owner = w /\ UNCHANGED generations
      BY <1>1, <2>2 DEF Own, Write, Seal, Go, HasStaged
    <3>2. QED
      BY <1>4, <3>1
  <2>3. CASE Promote(w)
    <3>1. staging[g].owner = w /\ generations[g] = NoDirectory
      BY <1>1, <2>3 DEF Own, Promote, Move, Exists, Go, HasStaged
    <3>2. QED
      BY <1>4, <3>1, Unowned
  <2>4. CASE Mark(w)
    <3>1. \/ staging[g].owner = w /\ UNCHANGED generations
          \/ generations[g].owner = w /\ UNCHANGED staging
      BY <1>1, <2>4 DEF Own, Mark, Go, HasStaged, HasPromoted
    <3>2. QED
      BY <1>4, <3>1
  <2>5. CASE Retire(w)
    <3>1. \/ staging[g].owner = w /\ UNCHANGED generations
          \/ generations[g].owner = w /\ UNCHANGED staging
      BY <1>1, <2>5 DEF Own, Retire, Go, HasStaged, HasPromoted
    <3>2. QED
      BY <1>4, <3>1
  <2>6. CASE UNCHANGED << staging, generations >>
    BY <2>6
  <2>7. QED
    BY <2>1, <2>2, <2>3, <2>4, <2>5, <2>6
       DEF Step, Begin, Bind, Check, Compare, Recheck, Point, Swap, Fail, Discard, Leave, disk
<1>5. QED
  BY <1>3, <1>4

\* What another worker relies on stays.
LEMMA OthersOwn ==
  ASSUME PInv, NEW w \in Worker, Step(w), NEW v \in Worker, v # w
  PROVE  Own(v)'
<1>1. TypeOK /\ Own(v)
  BY DEF PInv
<1>2. pc'[v] = pc[v] /\ work'[v] = work[v]
  BY <1>1, Moves
<1>3. pc[v] # "idle" => work[v].gen \in Generation
  BY <1>1, Busy
<1>4. pc[v] # "idle" =>
        /\ staging[work[v].gen].owner = v => staging'[work[v].gen] = staging[work[v].gen]
        /\ generations[work[v].gen].owner = v =>
             generations'[work[v].gen] = generations[work[v].gen]
  BY <1>3, Untouched
<1>5. "promote" \in HasStaged /\ "idle" \notin HasStaged \cup HasPromoted
  BY DEF HasStaged, HasPromoted, Promoted
<1>6. QED
  BY <1>1, <1>2, <1>4, <1>5 DEF Own

\* What a worker relies on holds after its own step.
LEMMA OwnStep ==
  ASSUME PInv, NEW w \in Worker, Step(w)
  PROVE  Own(w)'
<1> DEFINE g == work[w].gen
<1>1. TypeOK /\ Own(w)
  BY DEF PInv
<1>2. /\ staging \in [Generation -> Directory] /\ generations \in [Generation -> Directory]
      /\ pc \in [Worker -> Phase] /\ work \in [Worker -> Work \cup {NoWork}]
  BY <1>1, TypeParts DEF DiskType
<1>3. pc[w] # "idle" => g \in Generation
  BY <1>1, Busy
<1>4. ASSUME pc'[w] \notin HasStaged \cup HasPromoted
      PROVE  Own(w)'
  BY <1>4 DEF Own, HasStaged
<1>5. CASE \E h \in Generation, k \in Kind : Begin(w, h, k)
  BY <1>2, <1>4, <1>5 DEF Begin, Go, HasStaged, HasPromoted, Promoted
<1>6. CASE Bind(w) \/ Check(w) \/ Compare(w)
  BY <1>2, <1>4, <1>6 DEF Bind, Check, Compare, Go, HasStaged, HasPromoted, Promoted
<1>7. CASE Swap(w) \/ Discard(w) \/ Leave(w)
  BY <1>2, <1>4, <1>7 DEF Swap, Discard, Leave, Tear, Return, Go, HasStaged, HasPromoted, Promoted
<1>8. CASE Stage(w)
  <2>1. pc'[w] = "write" /\ work' = work /\ pc[w] # "idle"
    BY <1>2, <1>8 DEF Stage, Go
  <2>2. staging'[g] = [NoDirectory EXCEPT !.owner = w]
    BY <1>2, <1>3, <1>8, <2>1 DEF Stage
  <2>3. staging'[g].owner = w
    BY <2>2 DEF NoDirectory
  <2>4. QED
    BY <2>1, <2>3 DEF Own, HasStaged, HasPromoted, Promoted
<1>9. CASE \E f \in File : Write(w, f)
  <2>1. PICK f \in File : Write(w, f)
    BY <1>9
  <2>2. pc[w] = "write" /\ pc' = pc /\ work' = work /\ staging[g] \in Directory
    BY <1>2, <1>3, <2>1 DEF Write
  <2>3. staging'[g] = [staging[g] EXCEPT !.files = @ \cup {f}]
    BY <1>2, <1>3, <2>1, <2>2 DEF Write
  <2>4. staging'[g].owner = staging[g].owner
    BY <2>2, <2>3 DEF Directory
  <2>5. QED
    BY <1>1, <2>2, <2>4 DEF Own, HasStaged, HasPromoted, Promoted
<1>10. CASE Seal(w)
  <2>1. /\ pc[w] = "write" /\ pc'[w] = "promote" /\ work' = work /\ staging[g].files = File
        /\ staging[g] \in Directory
    BY <1>2, <1>3, <1>10 DEF Seal, Go
  <2>2. staging'[g] = [staging[g] EXCEPT !.status = "committed"]
    BY <1>2, <1>3, <1>10, <2>1 DEF Seal
  <2>3. staging'[g].owner = staging[g].owner /\ staging'[g].files = File
    BY <2>1, <2>2 DEF Directory
  <2>4. QED
    BY <1>1, <2>1, <2>3 DEF Own, HasStaged, HasPromoted, Promoted
<1>11. CASE Promote(w)
  <2>1. pc[w] = "promote" /\ pc'[w] \in {"recheck", "point"} /\ work' = work
    BY <1>2, <1>11 DEF Promote, Go
  <2>2. generations'[g] = staging[g]
    BY <1>2, <1>3, <1>11, <2>1 DEF Promote, Move
  <2>3. QED
    BY <1>1, <2>1, <2>2 DEF Own, HasStaged, HasPromoted, Promoted
<1>12. CASE Recheck(w) \/ Point(w)
  <2>1. /\ pc[w] \in HasPromoted /\ pc'[w] \in {"point", "swap"} /\ work' = work
        /\ generations' = generations
    BY <1>2, <1>12 DEF Recheck, Point, Go, HasPromoted, Promoted, disk
  <2>2. QED
    BY <1>1, <2>1 DEF Own, HasStaged, HasPromoted, Promoted
<1>13. CASE Fail(w)
  <2>1. /\ work' = work /\ staging' = staging /\ generations' = generations
        /\ \/ pc[w] \in Staged /\ pc'[w] = "mark"
           \/ pc[w] \in Promoted /\ pc'[w] = "mark promoted"
    BY <1>2, <1>13 DEF Fail, disk
  <2>2. QED
    BY <1>1, <2>1 DEF Own, HasStaged, HasPromoted, Staged, Promoted
<1>14. CASE Mark(w)
  <2>1. CASE pc[w] = "mark"
    <3>1. pc'[w] = "retire" /\ work' = work /\ staging[g] \in Directory
      BY <1>2, <1>3, <1>14, <2>1 DEF Mark, Go
    <3>2. staging'[g] = [staging[g] EXCEPT !.status = "rolled_back"]
      BY <1>2, <1>3, <1>14, <2>1 DEF Mark, Go
    <3>3. staging'[g].owner = staging[g].owner
      BY <3>1, <3>2 DEF Directory
    <3>4. QED
      BY <1>1, <2>1, <3>1, <3>3 DEF Own, HasStaged, HasPromoted, Promoted
  <2>2. CASE pc[w] = "mark promoted"
    <3>1. pc'[w] = "retire promoted" /\ work' = work /\ generations[g] \in Directory
      BY <1>2, <1>3, <1>14, <2>2 DEF Mark, Go
    <3>2. generations'[g] = [generations[g] EXCEPT !.status = "rolled_back"]
      BY <1>2, <1>3, <1>14, <2>2 DEF Mark, Go
    <3>3. generations'[g].owner = generations[g].owner /\ generations'[g].files = generations[g].files
      BY <3>1, <3>2 DEF Directory
    <3>4. QED
      BY <1>1, <2>2, <3>1, <3>3 DEF Own, HasStaged, HasPromoted, Promoted
  <2>3. QED
    BY <1>14, <2>1, <2>2 DEF Mark, Go
<1>15. CASE Retire(w)
  BY <1>2, <1>4, <1>15 DEF Retire, Go, HasStaged, HasPromoted, Promoted
<1>16. QED
  BY <1>5, <1>6, <1>7, <1>8, <1>9, <1>10, <1>11, <1>12, <1>13, <1>14, <1>15 DEF Step

LEMMA NextPInv == PInv /\ [Next]_vars => PInv'
<1> SUFFICES ASSUME PInv, [Next]_vars
             PROVE  PInv'
  OBVIOUS
<1>1. ASSUME NEW w \in Worker, Step(w)
      PROVE  PInv'
  <2>1. TypeOK'
    BY <1>1, StepType DEF PInv
  <2>2. \A v \in Worker : Own(v)'
    BY <1>1, OwnStep, OthersOwn
  <2>3. QED
    BY <1>1, <2>1, <2>2, PointersStep DEF PInv
<1>2. CASE UNCHANGED vars
  BY <1>2 DEF vars, disk, PInv, TypeOK, Complete, Own
<1>3. QED
  BY <1>1, <1>2 DEF Next

LEMMA InitPInv == Init => PInv
<1> SUFFICES ASSUME Init
             PROVE  PInv
  OBVIOUS
<1>1. TypeOK
  BY InitType
<1>2. current \notin Publication /\ temporary \notin Publication
  BY PublicationAssumption DEF Init
<1>3. \A w \in Worker : Own(w)
  BY DEF Init, Own, HasStaged, HasPromoted, Promoted
<1>4. QED
  BY <1>1, <1>2, <1>3 DEF PInv

\* Whatever the workers do, files, phases and histories keep their types.
THEOREM TypeCorrect == Spec => []TypeOK
<1>1. PInv => TypeOK
  BY DEF PInv
<1>2. QED
  BY InitPInv, NextPInv, <1>1, PTL DEF Spec

\* CURRENT.json never names a publication some artifact of which was not written and
\* verified, however many workers publish below one root.
THEOREM VerifiedFirst == Spec => []VerifiedBeforeNamed
<1>1. PInv => VerifiedBeforeNamed
  <2> SUFFICES ASSUME PInv, NEW g \in Generation, NEW w \in Worker, current = << g, w >>
               PROVE  \E d \in {generations[g], failed[g]} : d.owner = w /\ d.files = File
    BY DEF VerifiedBeforeNamed
  <2>1. Complete(<< g, w >>)
    BY DEF PInv, Publication
  <2>2. QED
    BY <2>1 DEF Complete
<1>2. QED
  BY InitPInv, NextPInv, <1>1, PTL DEF Spec

-------------------------------------------------------------------------------
(* One worker at a time, as within one board job *)

Whole(w) == [owner |-> w, files |-> File, status |-> "committed"]

\* What CURRENT.json ever named is whole and is not what the worker may still retire.
SInv(w) ==
  LET g == work[w].gen IN
  /\ PInv
  /\ current \in published \cup {NoPointer}
  /\ \A p \in published : generations[p[1]] = Whole(p[2])
  /\ pc[w] = "promote" => staging[g] = Whole(w)
  /\ pc[w] \in Promoted => generations[g] = Whole(w)
  /\ pc[w] \in HasPromoted => \A p \in published : p[1] # g
  /\ pc[w] = "swap" => temporary = << g, w >>

\* No step touches a published generation.
Kept == \A p \in published : generations'[p[1]] = generations[p[1]]

LEMMA WholeIsThere == \A w \in Worker : Whole(w) # NoDirectory
<1> SUFFICES ASSUME NEW w \in Worker
             PROVE  Whole(w) # NoDirectory
  OBVIOUS
<1>1. Whole(w).owner = w
  BY DEF Whole
<1>2. QED
  BY <1>1, Unowned

LEMMA SingleStep ==
  ASSUME NEW w \in Worker, SInv(w), Step(w)
  PROVE  SInv(w)' /\ Kept
<1> DEFINE g == work[w].gen
<1>0. PInv /\ TypeOK /\ Own(w) /\ PInv'
  <2>1. PInv /\ TypeOK /\ Own(w)
    BY DEF SInv, PInv
  <2>2. [Next]_vars
    BY DEF Next
  <2>3. QED
    BY <2>1, <2>2, NextPInv
<1>1. /\ staging \in [Generation -> Directory] /\ generations \in [Generation -> Directory]
      /\ pc \in [Worker -> Phase] /\ work \in [Worker -> Work \cup {NoWork}]
      /\ published \subseteq Publication
  BY <1>0, TypeParts DEF DiskType
<1>2. pc[w] # "idle" => g \in Generation
  BY <1>0, Busy
<1>3. \A p \in published : p[1] \in Generation /\ p[2] \in Worker
  BY <1>1 DEF Publication
<1>4. ASSUME UNCHANGED << current, published >>, Kept,
             pc'[w] = "promote" => staging'[work'[w].gen] = Whole(w),
             pc'[w] \in Promoted => generations'[work'[w].gen] = Whole(w),
             pc'[w] \in HasPromoted => \A p \in published : p[1] # work'[w].gen,
             pc'[w] = "swap" => temporary' = << work'[w].gen, w >>
      PROVE  SInv(w)' /\ Kept
  BY <1>0, <1>4 DEF SInv, Kept
<1>5. ASSUME UNCHANGED << current, published, generations >>,
             pc'[w] \notin HasPromoted \cup {"promote"}
      PROVE  SInv(w)' /\ Kept
  BY <1>4, <1>5 DEF Kept, HasPromoted, Promoted
<1>6. CASE \E h \in Generation, k \in Kind : Begin(w, h, k)
  BY <1>1, <1>5, <1>6 DEF Begin, Go, HasPromoted, Promoted, disk
<1>7. CASE Bind(w) \/ Check(w) \/ Compare(w)
  BY <1>1, <1>5, <1>7 DEF Bind, Check, Compare, Go, HasPromoted, Promoted, disk
<1>8. CASE Stage(w) \/ (\E f \in File : Write(w, f))
  BY <1>1, <1>5, <1>8 DEF Stage, Write, Go, HasPromoted, Promoted
<1>9. CASE Discard(w) \/ Leave(w)
  BY <1>1, <1>5, <1>9 DEF Discard, Leave, Tear, Return, Go, HasPromoted, Promoted
<1>10. CASE Seal(w)
  <2>1. /\ pc[w] = "write" /\ pc'[w] = "promote" /\ work' = work /\ staging[g].files = File
        /\ staging[g] \in Directory /\ UNCHANGED << current, published, generations >>
    BY <1>1, <1>2, <1>10 DEF Seal, Go
  <2>2. staging[g].owner = w
    BY <1>0, <2>1 DEF Own, HasStaged
  <2>3. staging'[g] = [staging[g] EXCEPT !.status = "committed"]
    BY <1>1, <1>2, <1>10, <2>1 DEF Seal
  <2>4. staging'[g] = Whole(w)
    BY <2>1, <2>2, <2>3 DEF Directory, Whole
  <2>5. Kept
    BY <2>1 DEF Kept
  <2>6. QED
    BY <1>4, <2>1, <2>4, <2>5 DEF HasPromoted, Promoted
<1>11. CASE Promote(w)
  <2>1. /\ pc[w] = "promote" /\ pc'[w] \in {"recheck", "point"} /\ work' = work
        /\ UNCHANGED << current, published >> /\ generations[g] = NoDirectory
        /\ generations' = [generations EXCEPT ![g] = staging[g]]
    BY <1>1, <1>11 DEF Promote, Move, Exists, Go
  <2>2. generations'[g] = Whole(w)
    BY <1>1, <1>2, <2>1 DEF SInv
  <2>3. \A p \in published : p[1] # g
    BY <1>3, <2>1, WholeIsThere DEF SInv
  <2>4. Kept
    BY <1>1, <2>1, <2>3 DEF Kept
  <2>5. QED
    BY <1>4, <2>1, <2>2, <2>3, <2>4 DEF HasPromoted, Promoted
<1>12. CASE Recheck(w) \/ Point(w)
  <2>1. /\ pc[w] \in Promoted /\ work' = work
        /\ \/ pc'[w] = "point"
           \/ pc'[w] = "swap" /\ temporary' = << g, w >>
        /\ UNCHANGED << current, published, generations >>
    BY <1>1, <1>12 DEF Recheck, Point, Go, Promoted, disk
  <2>2. Kept
    BY <2>1 DEF Kept
  <2>3. QED
    BY <1>4, <2>1, <2>2 DEF SInv, HasPromoted, Promoted
<1>13. CASE Fail(w)
  <2>1. /\ work' = work /\ UNCHANGED << current, published, generations >>
        /\ \/ pc'[w] = "mark"
           \/ pc[w] \in Promoted /\ pc'[w] = "mark promoted"
    BY <1>1, <1>13 DEF Fail, disk
  <2>2. Kept
    BY <2>1 DEF Kept
  <2>3. QED
    BY <1>4, <2>1, <2>2 DEF SInv, HasPromoted, Promoted
<1>14. CASE Mark(w) \/ Retire(w)
  <2>1. CASE pc[w] \in {"mark", "retire"}
    <3>1. /\ UNCHANGED << current, published, generations >>
          /\ pc'[w] \notin HasPromoted \cup {"promote"}
      BY <1>1, <1>14, <2>1 DEF Mark, Retire, Go, HasPromoted, Promoted
    <3>2. QED
      BY <1>5, <3>1
  <2>2. CASE pc[w] \in {"mark promoted", "retire promoted"}
    <3>1. /\ work' = work /\ UNCHANGED << current, published >>
          /\ \E d : generations' = [generations EXCEPT ![g] = d]
          /\ pc'[w] \in {"retire promoted", "discard"}
      BY <1>1, <1>14, <2>2 DEF Mark, Retire, Move, Go
    <3>2. \A p \in published : p[1] # g
      BY <2>2 DEF SInv, HasPromoted
    <3>3. Kept
      BY <1>1, <1>3, <3>1, <3>2 DEF Kept
    <3>4. QED
      BY <1>4, <3>1, <3>2, <3>3 DEF Promoted
  <2>3. QED
    BY <1>14, <2>1, <2>2 DEF Mark, Retire, Go
<1>15. CASE Swap(w)
  <2>1. /\ pc[w] = "swap" /\ pc'[w] = "idle" /\ generations' = generations
        /\ current' = temporary /\ published' = published \cup ({temporary} \ {Torn})
    BY <1>1, <1>15 DEF Swap, Return, Go
  <2>2. temporary = << g, w >> /\ generations[g] = Whole(w) /\ << g, w >> \in Publication
    BY <1>0, <2>1, Busy DEF SInv, Promoted
  <2>3. published' = published \cup {<< g, w >>} /\ current' = << g, w >>
    BY <2>1, <2>2, PublicationAssumption
  <2>4. \A p \in published' : generations'[p[1]] = Whole(p[2])
    BY <2>1, <2>2, <2>3 DEF SInv
  <2>5. pc'[w] \notin HasPromoted \cup Promoted \cup {"promote", "swap"}
    BY <2>1 DEF HasPromoted, Promoted
  <2>6. QED
    BY <1>0, <2>1, <2>3, <2>4, <2>5 DEF SInv, Kept
<1>16. QED
  BY <1>6, <1>7, <1>8, <1>9, <1>10, <1>11, <1>12, <1>13, <1>14, <1>15 DEF Step

LEMMA SingleNext ==
  ASSUME NEW w, Worker = {w}
  PROVE  SInv(w) /\ [Next]_vars => SInv(w)' /\ (UNCHANGED vars \/ Kept)
<1> SUFFICES ASSUME SInv(w), [Next]_vars
             PROVE  SInv(w)' /\ (UNCHANGED vars \/ Kept)
  OBVIOUS
<1>1. CASE Step(w)
  BY <1>1, SingleStep
<1>2. CASE UNCHANGED vars
  <2>1. PInv'
    BY NextPInv DEF SInv
  <2>2. QED
    BY <1>2, <2>1 DEF SInv, vars, disk
<1>3. QED
  BY <1>1, <1>2 DEF Next

LEMMA SingleInit ==
  ASSUME NEW w \in Worker
  PROVE  Init => SInv(w)
<1> SUFFICES ASSUME Init
             PROVE  SInv(w)
  OBVIOUS
<1>1. pc[w] = "idle" /\ published = {} /\ current = NoPointer
  BY DEF Init
<1>2. QED
  BY <1>1, InitPInv DEF SInv, HasPromoted, Promoted

\* While one worker at a time publishes, CURRENT.json always resolves, whichever write
\* failed and wherever workers were killed.
THEOREM SingleResolves ==
  ASSUME NEW w, Worker = {w}
  PROVE  Spec => []CurrentResolves
<1>1. SInv(w) => CurrentResolves
  <2> SUFFICES ASSUME SInv(w), current # NoPointer
               PROVE  Resolves(current)
    BY DEF CurrentResolves
  <2>1. current \in published /\ published \subseteq Publication
    BY DEF SInv, PInv, TypeOK
  <2>2. PICK h \in Generation, v \in Worker : current = << h, v >>
    BY <2>1 DEF Publication
  <2>3. generations[current[1]] = Whole(current[2])
    BY <2>1 DEF SInv
  <2>4. generations[h] = Whole(v)
    BY <2>2, <2>3
  <2>5. QED
    BY <2>2, <2>4 DEF Resolves, Whole
<1>2. Init => SInv(w)
  BY SingleInit
<1>3. SInv(w) /\ [Next]_vars => SInv(w)'
  BY SingleNext
<1>4. QED
  BY <1>1, <1>2, <1>3, PTL DEF Spec

\* While one worker at a time publishes, what CURRENT.json ever named stays as it was.
THEOREM SinglePreserves ==
  ASSUME NEW w, Worker = {w}
  PROVE  Spec => PublishedImmutable
<1>1. SInv(w) /\ [Next]_vars =>
        [\A p \in published : generations'[p[1]] = generations[p[1]]]_vars
  BY SingleNext DEF Kept
<1>2. Init => SInv(w)
  BY SingleInit
<1>3. SInv(w) /\ [Next]_vars => SInv(w)'
  BY SingleNext
<1>4. QED
  BY <1>1, <1>2, <1>3, PTL DEF Spec, PublishedImmutable

-------------------------------------------------------------------------------
(* What was rolled back is not published *)

\* A worker that found its directories free, and has not yet retired what it wrote.
Unsettled == {"compare", "stage"} \cup HasStaged \cup HasPromoted

\* A failed directory remains of whatever was rolled back, so its identity is refused
\* ever after; and a published one is not rolled back, because it is not retired.
FailedInv ==
  /\ \A p \in rolledBack : Exists(failed[p[1]])
  /\ published \cap rolledBack = {}

\* What the worker publishes is neither among the failed nor among the published ones.
UnsettledInv(w) ==
  LET g == work[w].gen IN
  /\ pc[w] \in Unsettled => ~ Exists(failed[g])
  /\ pc[w] \in Unsettled \cup {"discard"} => \A p \in published : p[1] # g
  /\ pc[w] = "discard" => Exists(failed[g])

LEMMA SingleFailedStep ==
  ASSUME NEW w \in Worker, SInv(w), FailedInv, UnsettledInv(w), Step(w)
  PROVE  FailedInv' /\ UnsettledInv(w)'
<1> DEFINE g == work[w].gen
<1> USE DEF Exists
<1>0. TypeOK /\ Own(w) /\ pc \in [Worker -> Phase] /\ work \in [Worker -> Work \cup {NoWork}]
  <2>1. TypeOK /\ Own(w)
    BY DEF SInv, PInv
  <2>2. QED
    BY <2>1, TypeParts
<1>1. /\ staging \in [Generation -> Directory] /\ generations \in [Generation -> Directory]
      /\ failed \in [Generation -> Directory]
      /\ published \subseteq Publication /\ rolledBack \subseteq Publication
  BY <1>0 DEF TypeOK
<1>2. pc[w] # "idle" => g \in Generation /\ << g, w >> \in Publication
  BY <1>0, Busy
<1>3. /\ \A p \in published : p[1] \in Generation /\ p[2] \in Worker
      /\ \A p \in rolledBack : p[1] \in Generation
  BY <1>1 DEF Publication
<1>4. CASE \E h \in Generation, k \in Kind : Begin(w, h, k)
  <2>1. UNCHANGED << failed, published, rolledBack >> /\ pc'[w] \in {"bind", "check"}
    BY <1>0, <1>4 DEF Begin, Go, disk
  <2>2. QED
    BY <2>1 DEF FailedInv, UnsettledInv, Unsettled, HasStaged, HasPromoted, Promoted
<1>5. CASE Bind(w)
  <2>1. UNCHANGED << failed, published, rolledBack >> /\ pc'[w] = "check"
    BY <1>0, <1>5 DEF Bind, Go, disk
  <2>2. QED
    BY <2>1 DEF FailedInv, UnsettledInv, Unsettled, HasStaged, HasPromoted, Promoted
<1>6. CASE Check(w)
  <2>1. /\ UNCHANGED << failed, published, rolledBack, work >> /\ pc'[w] = "compare"
        /\ failed[g] = NoDirectory /\ generations[g] = NoDirectory
    BY <1>0, <1>6 DEF Check, Go, disk
  <2>2. \A p \in published : p[1] # g
    BY <1>3, <2>1, WholeIsThere DEF SInv
  <2>3. QED
    BY <2>1, <2>2 DEF FailedInv, UnsettledInv
<1>7. ASSUME pc[w] \in Unsettled, pc'[w] \in Unsettled,
             UNCHANGED << failed, published, rolledBack, work >>
      PROVE  FailedInv' /\ UnsettledInv(w)'
  <2>1. pc'[w] # "discard"
    BY <1>7 DEF Unsettled, HasStaged, HasPromoted, Promoted
  <2>2. QED
    BY <1>7, <2>1 DEF FailedInv, UnsettledInv
<1>8. CASE Compare(w) \/ Stage(w) \/ (\E f \in File : Write(w, f)) \/ Seal(w) \/ Promote(w)
  <2>1. /\ pc[w] \in {"compare", "stage", "write", "promote"}
        /\ pc'[w] \in {"stage", "write", "promote", "recheck", "point"}
    BY <1>0, <1>8 DEF Compare, Stage, Write, Seal, Promote, Go
  <2>2. UNCHANGED << failed, published, rolledBack, work >>
    BY <1>8 DEF Compare, Stage, Write, Seal, Promote, disk
  <2>3. QED
    BY <1>7, <2>1, <2>2 DEF Unsettled, HasStaged, HasPromoted, Promoted
<1>9. CASE Recheck(w) \/ Point(w) \/ Fail(w) \/ Mark(w)
  <2>1. /\ pc[w] \in Staged \cup Promoted \cup {"mark", "mark promoted"}
        /\ pc'[w] \in {"point", "swap", "mark", "mark promoted", "retire", "retire promoted"}
    BY <1>0, <1>9 DEF Recheck, Point, Fail, Mark, Go, Promoted
  <2>2. UNCHANGED << failed, published, rolledBack, work >>
    BY <1>9 DEF Recheck, Point, Fail, Mark, disk
  <2>3. QED
    BY <1>7, <2>1, <2>2 DEF Unsettled, HasStaged, HasPromoted, Promoted, Staged
<1>10. CASE Swap(w)
  <2>1. /\ pc[w] = "swap" /\ pc'[w] = "idle" /\ UNCHANGED << failed, rolledBack >>
        /\ published' = published \cup ({temporary} \ {Torn})
    BY <1>0, <1>10 DEF Swap, Return, Go
  <2>2. temporary = << g, w >>
    BY <2>1 DEF SInv
  <2>3. failed[g] = NoDirectory
    BY <2>1 DEF UnsettledInv, Unsettled, HasPromoted, Promoted
  <2>4. << g, w >> \notin rolledBack
    <3> SUFFICES ASSUME << g, w >> \in rolledBack
                 PROVE  FALSE
      OBVIOUS
    <3>1. << g, w >>[1] = g
      OBVIOUS
    <3>2. QED
      BY <2>3, <3>1 DEF FailedInv
  <2>5. FailedInv'
    BY <2>1, <2>2, <2>4 DEF FailedInv
  <2>6. QED
    BY <2>1, <2>5 DEF UnsettledInv, Unsettled, HasStaged, HasPromoted, Promoted
<1>11. CASE Retire(w)
  <2>1. /\ pc[w] \in {"retire", "retire promoted"} /\ pc'[w] = "discard"
        /\ UNCHANGED << published, rolledBack, work >>
        /\ \/ pc[w] = "retire" /\ failed' = [failed EXCEPT ![g] = staging[g]]
           \/ pc[w] = "retire promoted" /\ failed' = [failed EXCEPT ![g] = generations[g]]
    BY <1>0, <1>11 DEF Retire, Move, Go
  <2>2. failed'[g] # NoDirectory
    <3>1. CASE pc[w] = "retire"
      BY <1>0, <1>1, <1>2, <2>1, <3>1, Unowned DEF Own, HasStaged
    <3>2. CASE pc[w] = "retire promoted"
      BY <1>0, <1>1, <1>2, <2>1, <3>2, Unowned DEF Own, HasPromoted
    <3>3. QED
      BY <2>1, <3>1, <3>2
  <2>3. \A h \in Generation \ {g} : failed'[h] = failed[h]
    BY <1>1, <2>1
  <2>4. \A p \in published : p[1] # g
    BY <2>1 DEF UnsettledInv, Unsettled, HasStaged, HasPromoted
  <2>5. FailedInv'
    BY <1>3, <2>1, <2>2, <2>3 DEF FailedInv
  <2>6. QED
    BY <2>1, <2>2, <2>4, <2>5 DEF UnsettledInv, Unsettled, HasStaged, HasPromoted, Promoted
<1>12. CASE Discard(w)
  <2>1. /\ pc[w] = "discard" /\ pc'[w] = "idle" /\ UNCHANGED << failed, published >>
        /\ rolledBack' = rolledBack \cup {<< g, w >>}
    BY <1>0, <1>12 DEF Discard, Return, Go
  <2>2. failed[g] # NoDirectory /\ \A p \in published : p[1] # g
    BY <2>1 DEF UnsettledInv
  <2>3. << g, w >> \notin published
    <3>1. << g, w >>[1] = g
      OBVIOUS
    <3>2. QED
      BY <2>2, <3>1
  <2>4. FailedInv'
    BY <2>1, <2>2, <2>3 DEF FailedInv
  <2>5. QED
    BY <2>1, <2>4 DEF UnsettledInv, Unsettled, HasStaged, HasPromoted, Promoted
<1>13. CASE Leave(w)
  <2>1. pc'[w] = "idle" /\ UNCHANGED << failed, published, rolledBack >>
    BY <1>0, <1>13 DEF Leave, Return, Go
  <2>2. QED
    BY <2>1 DEF FailedInv, UnsettledInv, Unsettled, HasStaged, HasPromoted, Promoted
<1>14. QED
  BY <1>4, <1>5, <1>6, <1>8, <1>9, <1>10, <1>11, <1>12, <1>13 DEF Step

\* Nothing is current that is not published.
LEMMA FailedIsNotCurrent ==
  ASSUME FailedInv, rolledBack \subseteq Publication, current \in published \cup {NoPointer}
  PROVE  RolledBackIsNotCurrent
BY PublicationAssumption DEF FailedInv, RolledBackIsNotCurrent

LEMMA FailedInit == Init => FailedInv /\ \A w \in Worker : UnsettledInv(w)
BY DEF Init, FailedInv, UnsettledInv, Unsettled, HasStaged, HasPromoted, Promoted

\* While one worker at a time publishes, a publication that reported rolled_back is not
\* what CURRENT.json names: that it may be is due to the sharing of a root alone.
THEOREM SingleRolledBack ==
  ASSUME NEW w, Worker = {w}
  PROVE  Spec => []RolledBackIsNotCurrent
<1> DEFINE Inv == SInv(w) /\ FailedInv /\ UnsettledInv(w)
<1>1. Init => Inv
  BY SingleInit, FailedInit
<1>2. Inv /\ [Next]_vars => Inv'
  <2> SUFFICES ASSUME Inv, [Next]_vars
               PROVE  Inv'
    OBVIOUS
  <2>1. SInv(w)'
    BY SingleNext
  <2>2. CASE Step(w)
    BY <2>1, <2>2, SingleFailedStep
  <2>3. CASE UNCHANGED vars
    BY <2>1, <2>3 DEF FailedInv, UnsettledInv, vars, disk
  <2>4. QED
    BY <2>2, <2>3 DEF Next
<1>3. Inv => RolledBackIsNotCurrent
  BY FailedIsNotCurrent DEF SInv, PInv, TypeOK
<1> HIDE DEF Inv
<1>4. QED
  BY <1>1, <1>2, <1>3, PTL DEF Spec

===============================================================================
