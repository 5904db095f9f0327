----------------------------- MODULE BoardJobProofs -----------------------------
(* Proofs about BoardJob, for every job, request, clock and number of attempts. *)
EXTENDS BoardJob, SequenceTheorems, FiniteSetTheorems, TLAPS

\* No scope counts more prior attempts than were made.
ScopesBounded(j) == \A k \in DOMAIN j.scopes : j.scopes[k].first <= Len(j.attempts)

Sound(j) == /\ j \in JobState /\ j.scopes # << >>
            /\ ScopesBounded(j) /\ BuildsHeld(j)

\* The status and the kind of stop agree, and a finished job has no running attempt.
Labelled(j) ==
  /\ j.status = "active" <=> j.stopKind = ""
  /\ j.status = "finished" <=> j.stopKind = "finished"
  /\ j.status = "finished" => Running(j) = {}

JInv == TypeOK /\ Sound(job) /\ Labelled(job)

-------------------------------------------------------------------------------
(* Updates of a ledger *)

LEMMA ScopesType ==
  ASSUME NEW j \in JobState, j.scopes # << >>
  PROVE  /\ Len(j.attempts) \in Nat /\ DOMAIN j.attempts = 1 .. Len(j.attempts)
         /\ Len(j.scopes) \in Nat \ {0} /\ DOMAIN j.scopes = 1 .. Len(j.scopes)
         /\ Len(j.scopes) \in DOMAIN j.scopes
         /\ \A k \in DOMAIN j.scopes : j.scopes[k] \in Scope
         /\ \A i \in DOMAIN j.attempts : j.attempts[i] \in Attempt
         /\ Active(j) \in Scope
<1>1. j.scopes \in Seq(Scope) /\ j.attempts \in Seq(Attempt)
  BY DEF JobState
<1>2. Len(j.scopes) \in Nat \ {0}
  BY <1>1, EmptySeq
<1>3. /\ Len(j.attempts) \in Nat /\ DOMAIN j.attempts = 1 .. Len(j.attempts)
      /\ DOMAIN j.scopes = 1 .. Len(j.scopes)
  BY <1>1, LenProperties
<1>4. /\ \A k \in DOMAIN j.scopes : j.scopes[k] \in Scope
      /\ \A i \in DOMAIN j.attempts : j.attempts[i] \in Attempt
  BY <1>1, <1>3, ElementOfSeq
<1>5. Len(j.scopes) \in DOMAIN j.scopes
  BY <1>2, <1>3
<1>6. QED
  BY <1>2, <1>3, <1>4, <1>5 DEF Active

\* Soundness looks at the scopes, at the number of attempts and at their operations.
LEMMA SameWorkSound ==
  ASSUME NEW j, Sound(j), NEW n \in JobState, n.scopes = j.scopes,
         Len(n.attempts) = Len(j.attempts),
         \A i \in DOMAIN j.attempts : n.attempts[i].op = j.attempts[i].op
  PROVE  Sound(n)
<1>1. DOMAIN n.attempts = DOMAIN j.attempts
  BY ScopesType DEF Sound
<1>2. \A k \in DOMAIN j.scopes, op \in BuildOp : ScopeWork(n, k, op) = ScopeWork(j, k, op)
  BY <1>1 DEF ScopeWork, Previous, End
<1>3. QED
  BY <1>2 DEF Sound, ScopesBounded, BuildsHeld

\* The active scope is replaced by one that begins where it did, and whose
\* checkpoint, if there is one, is no newer than it was or looks back on every attempt.
LEMMA WithActiveSound ==
  ASSUME NEW j, Sound(j), NEW s \in Scope, s.first = Active(j).first,
         \/ s.diagnostic.status = "none"
         \/ s.diagnostic.after = Len(j.attempts)
         \/ /\ Active(j).diagnostic.status # "none"
            /\ s.diagnostic.after = Active(j).diagnostic.after
  PROVE  /\ Sound(WithActive(j, s)) /\ Active(WithActive(j, s)) = s
         /\ WithActive(j, s) = [j EXCEPT !.scopes = WithActive(j, s).scopes]
         /\ Len(WithActive(j, s).scopes) = Len(j.scopes)
<1> DEFINE n == WithActive(j, s)
<1> DEFINE last == Len(j.scopes)
<1>1. j \in JobState /\ j.scopes \in Seq(Scope) /\ last \in 1 .. Len(j.scopes)
  BY ScopesType DEF Sound, JobState
<1>2. n = [j EXCEPT !.scopes = [j.scopes EXCEPT ![last] = s]]
  BY DEF WithActive
<1>3. /\ n.scopes \in Seq(Scope) /\ Len(n.scopes) = Len(j.scopes)
      /\ n.scopes = [j.scopes EXCEPT ![last] = s]
  BY <1>1, <1>2, ExceptSeq DEF JobState
<1>4. n \in JobState /\ n.attempts = j.attempts
  BY <1>1, <1>2, <1>3 DEF JobState
<1>5. /\ n.scopes # << >> /\ DOMAIN n.scopes = DOMAIN j.scopes
      /\ \A k \in DOMAIN j.scopes : n.scopes[k] = IF k = last THEN s ELSE j.scopes[k]
  BY <1>1, <1>3, EmptySeq, LenProperties
<1>6. \A k \in DOMAIN j.scopes : n.scopes[k].first = j.scopes[k].first
  BY <1>5 DEF Active
<1>7. ScopesBounded(n)
  BY <1>4, <1>5, <1>6 DEF ScopesBounded, Sound
<1>8. \A k \in DOMAIN j.scopes, op \in BuildOp : ScopeWork(n, k, op) = ScopeWork(j, k, op)
  <2> SUFFICES ASSUME NEW k \in DOMAIN j.scopes, NEW op \in BuildOp
               PROVE  ScopeWork(n, k, op) = ScopeWork(j, k, op)
    OBVIOUS
  <2>1. Previous(n, op) = Previous(j, op)
    BY <1>4 DEF Previous
  <2>2. End(n, k) = End(j, k)
    BY <1>1, <1>3, <1>4, <1>6, LenProperties DEF End
  <2>3. QED
    BY <1>6, <2>1, <2>2 DEF ScopeWork
<1>9. ASSUME NEW k \in DOMAIN n.scopes, n.scopes[k].diagnostic.status # "none",
             NEW op \in BuildOp, NEW i \in ScopeWork(n, k, op)
      PROVE  i <= n.scopes[k].diagnostic.after
  <2>1. i \in ScopeWork(j, k, op) /\ i \in 1 .. Len(j.attempts)
    BY <1>1, <1>5, <1>8, <1>9, ScopesType DEF ScopeWork, Previous, Sound
  <2>2. CASE k # last
    BY <1>5, <1>9, <2>1, <2>2 DEF Sound, BuildsHeld
  <2>3. CASE k = last /\ s.diagnostic.after = Len(j.attempts)
    BY <1>5, <2>1, <2>3
  <2>4. CASE /\ k = last /\ Active(j).diagnostic.status # "none"
             /\ s.diagnostic.after = Active(j).diagnostic.after
    BY <1>5, <2>1, <2>4 DEF Sound, BuildsHeld, Active
  <2>5. QED
    BY <1>5, <1>9, <2>2, <2>3, <2>4
<1>10. QED
  BY <1>2, <1>3, <1>4, <1>5, <1>7, <1>9 DEF Sound, BuildsHeld, Active

\* What a call does to the ledger besides its own business: the attempts and the
\* number of scopes stay, and so do the labels but for the new ones given.
Touched(j, n) == n.attempts = j.attempts /\ Len(n.scopes) = Len(j.scopes)

LEMMA WithDiagnosticSound ==
  ASSUME NEW j, Sound(j), NEW d \in Diagnostic,
         \/ d.status = "none"
         \/ d.after = Len(j.attempts)
         \/ /\ Active(j).diagnostic.status # "none"
            /\ d.after = Active(j).diagnostic.after
  PROVE  /\ Sound(WithDiagnostic(j, d)) /\ Touched(j, WithDiagnostic(j, d))
         /\ Active(WithDiagnostic(j, d)).diagnostic = d
         /\ WithDiagnostic(j, d).status = j.status
         /\ WithDiagnostic(j, d).stopKind = j.stopKind
<1> DEFINE s == [Active(j) EXCEPT !.diagnostic = d]
<1>1. j \in JobState /\ Active(j) \in Scope
  BY ScopesType DEF Sound
<1>2. s \in Scope /\ s.first = Active(j).first /\ s.diagnostic = d
  BY <1>1 DEF Scope
<1>3. /\ Sound(WithActive(j, s)) /\ Active(WithActive(j, s)) = s
      /\ WithActive(j, s) = [j EXCEPT !.scopes = WithActive(j, s).scopes]
      /\ Len(WithActive(j, s).scopes) = Len(j.scopes)
  BY <1>2, WithActiveSound
<1>4. /\ WithActive(j, s).attempts = j.attempts
      /\ WithActive(j, s).status = j.status /\ WithActive(j, s).stopKind = j.stopKind
  BY <1>1, <1>3 DEF JobState
<1>5. WithDiagnostic(j, d) = WithActive(j, s)
  BY DEF WithDiagnostic
<1>6. QED
  BY <1>2, <1>3, <1>4, <1>5 DEF Touched

LEMMA DiagnosedSound ==
  ASSUME NEW j, Sound(j)
  PROVE  /\ Sound(Diagnosed(j)) /\ Touched(j, Diagnosed(j))
         /\ Diagnosed(j).status = j.status /\ Diagnosed(j).stopKind = j.stopKind
         /\ Active(Diagnosed(j)).diagnostic.status # "none"
<1> DEFINE d == [NoDiagnostic EXCEPT !.status = "pending", !.after = Len(j.attempts)]
<1>1. d \in Diagnostic /\ d.after = Len(j.attempts) /\ d.status = "pending"
  BY ScopesType DEF Sound, Diagnostic, NoDiagnostic
<1>2. /\ Sound(WithDiagnostic(j, d)) /\ Touched(j, WithDiagnostic(j, d))
      /\ Active(WithDiagnostic(j, d)).diagnostic = d
      /\ WithDiagnostic(j, d).status = j.status
      /\ WithDiagnostic(j, d).stopKind = j.stopKind
  <2> HIDE DEF d
  <2>1. QED
    BY <1>1, WithDiagnosticSound
<1>3. CASE Active(j).diagnostic.status # "none"
  BY <1>3 DEF Diagnosed, Touched
<1>4. CASE Active(j).diagnostic.status = "none"
  <2>1. Diagnosed(j) = WithDiagnostic(j, d)
    BY <1>4 DEF Diagnosed
  <2> HIDE DEF d
  <2>2. QED
    BY <1>1, <1>2, <2>1
<1>5. QED
  BY <1>3, <1>4

LEMMA SeenSound ==
  ASSUME NEW j, Sound(j), NEW now \in Nat
  PROVE  /\ Sound(Seen(j, now)) /\ Touched(j, Seen(j, now)) /\ Seen(j, now).scopes = j.scopes
         /\ Seen(j, now).status = j.status /\ Seen(j, now).stopKind = j.stopKind
<1>1. j \in JobState
  BY DEF Sound
<1>2. /\ Seen(j, now) \in JobState /\ Seen(j, now).scopes = j.scopes
      /\ Seen(j, now).attempts = j.attempts
      /\ Seen(j, now).status = j.status /\ Seen(j, now).stopKind = j.stopKind
  BY <1>1 DEF Seen, JobState
<1>3. QED
  BY <1>2, SameWorkSound DEF Touched

LEMMA StoppedSound ==
  ASSUME NEW j, Sound(j), NEW kind \in StopKind
  PROVE  /\ Sound(Stopped(j, kind)) /\ Touched(j, Stopped(j, kind))
         /\ Stopped(j, kind).scopes = j.scopes
         /\ Stopped(j, kind).status = "stopped" /\ Stopped(j, kind).stopKind = kind
         /\ Stopped(j, kind).lastSeen = j.lastSeen
<1>1. j \in JobState
  BY DEF Sound
<1>2. /\ Stopped(j, kind) \in JobState /\ Stopped(j, kind).scopes = j.scopes
      /\ Stopped(j, kind).attempts = j.attempts /\ Stopped(j, kind).lastSeen = j.lastSeen
      /\ Stopped(j, kind).status = "stopped" /\ Stopped(j, kind).stopKind = kind
  BY <1>1 DEF Stopped, JobState
<1>3. QED
  BY <1>2, SameWorkSound DEF Touched

\* A reading of the clock can only stop the job, for good, and keeps its checkpoint.
LEMMA CheckedSound ==
  ASSUME NEW j, Sound(j), NEW now \in Nat, NEW back \in BOOLEAN
  PROVE  LET n == Checked(j, now, back) IN
         /\ Sound(n) /\ Touched(j, n)
         /\ (Active(n).diagnostic.status = "none") <=> (Active(j).diagnostic.status = "none")
         /\ \/ n.status = j.status /\ n.stopKind = j.stopKind
            \/ j.status # "finished" /\ n.status = "stopped" /\ n.stopKind \in {"deadline", "clock"}
<1> DEFINE n == Checked(j, now, back)
<1> DEFINE d == Active(j).diagnostic
<1> DEFINE timed == IF Exhausted(j, now) THEN Stopped(Seen(j, now), "deadline")
                    ELSE IF back THEN Stopped(Seen(j, now), "clock") ELSE Seen(j, now)
<1>1. CASE n = j
  BY <1>1 DEF Touched
<1>2. CASE n # j
  <2>1. /\ j.status # "finished"
        /\ n = IF timed.status = "active" /\ d.status = "reviewing" /\ now >= d.deadline
               THEN WithDiagnostic(timed, [d EXCEPT !.status = "expired"]) ELSE timed
    BY <1>2 DEF Checked
  <2>2. /\ Sound(timed) /\ Touched(j, timed) /\ timed.scopes = j.scopes
        /\ \/ timed.status = j.status /\ timed.stopKind = j.stopKind
           \/ timed.status = "stopped" /\ timed.stopKind \in {"deadline", "clock"}
    <3>1. {"deadline", "clock"} \subseteq StopKind
      BY DEF StopKind
    <3>2. QED
      BY <3>1, SeenSound, StoppedSound DEF Touched
  <2>3. Active(timed) = Active(j)
    BY <2>2 DEF Active
  <2>4. CASE timed.status = "active" /\ d.status = "reviewing" /\ now >= d.deadline
    <3> DEFINE e == [d EXCEPT !.status = "expired"]
    <3>1. d \in Diagnostic
      BY ScopesType DEF Sound, Scope
    <3>2. e \in Diagnostic /\ e.after = d.after /\ e.status = "expired"
      BY <3>1 DEF Diagnostic
    <3>3. d.status # "none"
      BY <2>4
    <3> HIDE DEF e, timed
    <3>4. /\ Sound(WithDiagnostic(timed, e)) /\ Touched(timed, WithDiagnostic(timed, e))
          /\ Active(WithDiagnostic(timed, e)).diagnostic = e
          /\ WithDiagnostic(timed, e).status = timed.status
          /\ WithDiagnostic(timed, e).stopKind = timed.stopKind
      BY <2>2, <2>3, <3>2, <3>3, WithDiagnosticSound
    <3>5. n = WithDiagnostic(timed, e)
      BY <2>1, <2>4 DEF e
    <3> HIDE DEF n
    <3>6. QED
      BY <2>1, <2>2, <3>2, <3>3, <3>4, <3>5 DEF Touched, n
  <2>5. CASE ~(timed.status = "active" /\ d.status = "reviewing" /\ now >= d.deadline)
    <3>1. n = timed
      BY <2>1, <2>5
    <3>2. QED
      BY <2>1, <2>2, <2>3, <3>1
  <2>6. QED
    BY <2>4, <2>5
<1>3. QED
  BY <1>1, <1>2

-------------------------------------------------------------------------------
(* Labels *)

\* A job stopped for good stays so, unless a scope is added.
Hard(j, n) ==
  j.stopKind \in Final /\ Len(n.scopes) = Len(j.scopes)
    => n.stopKind \in Final /\ n.status # "active"

\* What n may be for a ledger j that keeps its labels or is stopped by the clock.
Relabelled(j, n) ==
  \/ n.status = j.status /\ n.stopKind = j.stopKind
  \/ j.status # "finished" /\ n.status = "stopped" /\ n.stopKind \in {"deadline", "clock"}

LEMMA RelabelledLabels ==
  ASSUME NEW j, NEW n, Labelled(j), Relabelled(j, n), n.attempts = j.attempts
  PROVE  Labelled(n) /\ Hard(j, n)
<1>1. Running(n) = Running(j)
  BY DEF Running
<1>2. QED
  BY <1>1 DEF Labelled, Relabelled, Hard, Final

\* _save writes the new ledger or leaves the old one.
LEMMA WriteInv ==
  ASSUME JInv, NEW n, Sound(n), Labelled(n), Hard(job, n), Write(n)
  PROVE  /\ Sound(job') /\ Labelled(job') /\ Hard(job, job')
         /\ halted' \in BOOLEAN /\ UNCHANGED clocks
<1>1. job' = n \/ job' = job
  BY DEF Write
<1>2. Hard(job, job)
  BY DEF JInv, Labelled, Hard, Final
<1>3. halted' \in BOOLEAN
  BY DEF Write, JInv, TypeOK
<1>4. QED
  BY <1>1, <1>2, <1>3 DEF JInv, Write

LEMMA SaveInv ==
  ASSUME JInv, NEW n, Sound(n), Labelled(n), Hard(job, n), Save(n)
  PROVE  JInv' /\ Hard(job, job')
<1>1. /\ Sound(job') /\ Labelled(job') /\ Hard(job, job')
      /\ halted' \in BOOLEAN /\ UNCHANGED clocks
  BY WriteInv DEF Save
<1>2. overdrawn' \subseteq {"call", "local", "annotation"} /\ UNCHANGED << retained, extended >>
  BY DEF Save, Audited, JInv, TypeOK
<1>3. QED
  BY <1>1, <1>2 DEF JInv, TypeOK, Sound, clocks

LEMMA CheckSound ==
  ASSUME JInv, NEW now \in Nat
  PROVE  /\ Sound(Check(now)) /\ Touched(job, Check(now)) /\ Relabelled(job, Check(now))
         /\ Labelled(Check(now)) /\ Hard(job, Check(now))
<1>1. Backwards \in BOOLEAN
  BY DEF Backwards
<1>2. /\ Sound(Check(now)) /\ Touched(job, Check(now)) /\ Relabelled(job, Check(now))
  BY <1>1, CheckedSound DEF Check, JInv, Relabelled
<1>3. QED
  BY <1>2, RelabelledLabels DEF JInv, Touched

\* A ledger made from the checked one with its labels and its number of scopes.
LEMMA SaveChecked ==
  ASSUME JInv, NEW now \in Nat, NEW n, Sound(n), n.attempts = job.attempts,
         n.status = Check(now).status, n.stopKind = Check(now).stopKind, Save(n)
  PROVE  JInv' /\ Hard(job, job')
<1>1. Relabelled(job, n)
  BY CheckSound DEF Relabelled
<1>2. Labelled(n) /\ Hard(job, n)
  BY <1>1, RelabelledLabels DEF JInv
<1>3. QED
  BY <1>2, SaveInv

LEMMA NowType ==
  ASSUME TypeOK, NEW now \in Now
  PROVE  now \in Nat
BY DEF TypeOK, Now

-------------------------------------------------------------------------------
(* The calls *)

LEMMA InspectInv ==
  ASSUME JInv, NEW now \in Nat, Inspect(now)
  PROVE  JInv' /\ Hard(job, job')
BY CheckSound, SaveInv DEF Inspect

\* A build is claimed only when the active scope has no checkpoint.
LEMMA ClaimedSound ==
  ASSUME NEW j, Sound(j), NEW op \in Op, NEW input \in Input, NEW now \in Nat,
         op \in BuildOp => Active(j).diagnostic.status = "none"
  PROVE  LET n == Claimed(j, op, input, now) IN
         Sound(n) /\ n.status = j.status /\ n.stopKind = j.stopKind /\ n.scopes = j.scopes
<1> DEFINE a == [ op |-> op, input |-> input, cycle |-> j.cycle, status |-> "running",
                  signature |-> NoSignature, started |-> now, ended |-> 0 ]
<1> DEFINE n == Claimed(j, op, input, now)
<1>1. /\ j \in JobState /\ j.attempts \in Seq(Attempt) /\ Len(j.attempts) \in Nat
      /\ DOMAIN j.attempts = 1 .. Len(j.attempts) /\ Len(j.scopes) \in Nat \ {0}
      /\ DOMAIN j.scopes = 1 .. Len(j.scopes)
      /\ \A k \in DOMAIN j.scopes : j.scopes[k] \in Scope
  BY ScopesType DEF Sound, JobState
<1>2. a \in Attempt /\ a.op = op
  BY <1>1 DEF Attempt, JobState
<1> HIDE DEF a
<1>3. /\ Append(j.attempts, a) \in Seq(Attempt)
      /\ Len(Append(j.attempts, a)) = Len(j.attempts) + 1
      /\ \A i \in 1 .. Len(j.attempts) : Append(j.attempts, a)[i] = j.attempts[i]
      /\ Append(j.attempts, a)[Len(j.attempts) + 1] = a
  BY <1>1, <1>2, AppendProperties
<1>4. n = [j EXCEPT !.attempts = Append(j.attempts, a)]
  BY DEF Claimed, a
<1>5. /\ n \in JobState /\ n.attempts = Append(j.attempts, a) /\ n.scopes = j.scopes
      /\ n.status = j.status /\ n.stopKind = j.stopKind
  BY <1>1, <1>3, <1>4 DEF JobState
<1>6. DOMAIN n.attempts = 1 .. Len(j.attempts) + 1
  BY <1>3, <1>5, LenProperties
<1> HIDE DEF n
<1>7. ScopesBounded(n)
  <2>1. \A k \in DOMAIN j.scopes : j.scopes[k].first \in Nat
    BY <1>1 DEF Scope
  <2>2. QED
    BY <1>1, <1>3, <1>5, <2>1 DEF ScopesBounded, Sound
<1>8. ASSUME NEW k \in DOMAIN j.scopes, j.scopes[k].diagnostic.status # "none",
             NEW build \in BuildOp, NEW i \in ScopeWork(n, k, build)
      PROVE  i <= j.scopes[k].diagnostic.after
  <2>1. /\ i \in 1 .. Len(j.attempts) + 1 /\ n.attempts[i].op = build
        /\ j.scopes[k].first < i /\ i <= End(n, k)
    BY <1>5, <1>6, <1>8 DEF ScopeWork, Previous
  <2>2. CASE i = Len(j.attempts) + 1
    <3>1. build = op
      BY <1>2, <1>3, <1>5, <2>1, <2>2
    <3>2. k # Len(j.scopes)
      BY <1>8, <3>1 DEF Active
    <3>3. k + 1 \in DOMAIN j.scopes /\ End(n, k) = j.scopes[k + 1].first
      BY <1>1, <1>5, <3>2 DEF End
    <3>4. j.scopes[k + 1].first \in Nat /\ j.scopes[k + 1].first <= Len(j.attempts)
      BY <1>1, <3>3 DEF Sound, ScopesBounded, Scope
    <3>5. QED
      BY <1>1, <2>1, <2>2, <3>3, <3>4
  <2>3. CASE i # Len(j.attempts) + 1
    <3>1. i \in 1 .. Len(j.attempts) /\ j.attempts[i].op = build
      BY <1>1, <1>3, <1>5, <2>1, <2>3
    <3>2. i <= End(j, k)
      BY <1>5, <2>1, <3>1 DEF End
    <3>3. i \in ScopeWork(j, k, build)
      BY <1>1, <2>1, <3>1, <3>2 DEF ScopeWork, Previous
    <3>4. QED
      BY <1>8, <3>3 DEF Sound, BuildsHeld
  <2>4. QED
    BY <2>2, <2>3
<1>9. BuildsHeld(n)
  BY <1>5, <1>8 DEF BuildsHeld
<1>10. QED
  BY <1>5, <1>7, <1>9 DEF Sound, n

LEMMA ClaimInv ==
  ASSUME JInv, NEW now \in Nat, NEW op \in Op, NEW input \in Input, Claim(op, input, now)
  PROVE  JInv' /\ Hard(job, job')
<1> DEFINE j == Check(now)
<1> DEFINE n == Claimed(j, op, input, now)
<1>1. Sound(j) /\ Relabelled(job, j) /\ Labelled(j) /\ Touched(job, j)
  BY CheckSound
<1>2. Allowed(j, now, Phase(op)) /\ Save(n)
  BY DEF Claim, MayClaim
<1>3. j.status = "active" /\ (op \in BuildOp => Active(j).diagnostic.status = "none")
  BY <1>2 DEF Allowed, Phase
<1> HIDE DEF j
<1>4. Sound(n) /\ n.status = j.status /\ n.stopKind = j.stopKind
  BY <1>1, <1>3, ClaimedSound
<1> HIDE DEF n
<1>5. Labelled(n) /\ Hard(job, n)
  <2>1. n.status = "active" /\ n.stopKind = ""
    BY <1>1, <1>3, <1>4 DEF Labelled
  <2>2. job.stopKind = ""
    BY <1>1, <1>3, <2>1, <1>4 DEF Relabelled
  <2>3. QED
    BY <2>1, <2>2 DEF Labelled, Hard, Final
<1>6. QED
  BY <1>2, <1>4, <1>5, SaveInv

LEMMA OverdrawInv ==
  ASSUME JInv, NEW now \in Nat, NEW op \in Op, Overdraw(op, now)
  PROVE  JInv' /\ Hard(job, job')
<1>1. Save(Diagnosed(Check(now)))
  BY DEF Overdraw
<1>2. QED
  BY <1>1, CheckSound, DiagnosedSound, SaveChecked DEF Touched

LEMMA StoppedLabels ==
  ASSUME NEW j, Sound(j), NEW kind \in StopKind \ {"", "finished"}
  PROVE  /\ Sound(Stopped(j, kind)) /\ Labelled(Stopped(j, kind)) /\ Touched(j, Stopped(j, kind))
         /\ Stopped(j, kind).status = "stopped" /\ Stopped(j, kind).stopKind = kind
BY StoppedSound DEF Labelled

\* The end of an attempt changes neither its operation nor any scope.
LEMMA EndedSound ==
  ASSUME JInv, NEW now \in Nat, NEW i \in Running(job), NEW end \in Outcome
  PROVE  LET n == [job EXCEPT !.attempts[i].ended = now, !.attempts[i].status = end[1],
                              !.attempts[i].signature = end[2]]
         IN  /\ Sound(n) /\ n.scopes = job.scopes
             /\ n.status = job.status /\ n.stopKind = job.stopKind /\ job.status # "finished"
<1> DEFINE n == [job EXCEPT !.attempts[i].ended = now, !.attempts[i].status = end[1],
                            !.attempts[i].signature = end[2]]
<1> DEFINE a == [job.attempts[i] EXCEPT !.ended = now, !.status = end[1], !.signature = end[2]]
<1>1. /\ job \in JobState /\ job.attempts \in Seq(Attempt)
      /\ i \in 1 .. Len(job.attempts) /\ DOMAIN job.attempts = 1 .. Len(job.attempts)
      /\ job.attempts[i] \in Attempt
  BY ScopesType DEF JInv, Sound, JobState, Running
<1>2. end[1] \in {"passed", "failed", "stopped"} /\ end[2] \in Signature \cup {NoSignature}
  BY RequestAssumption
<1>3. a \in Attempt /\ a.op = job.attempts[i].op
  BY <1>1, <1>2 DEF Attempt
<1>4. n = [job EXCEPT !.attempts = [job.attempts EXCEPT ![i] = a]]
  BY <1>1 DEF JobState
<1> HIDE DEF a, n
<1>5. /\ [job.attempts EXCEPT ![i] = a] \in Seq(Attempt)
      /\ Len([job.attempts EXCEPT ![i] = a]) = Len(job.attempts)
      /\ \A k \in 1 .. Len(job.attempts) :
           [job.attempts EXCEPT ![i] = a][k].op = job.attempts[k].op
  BY <1>1, <1>3, ExceptSeq
<1>6. /\ n \in JobState /\ n.scopes = job.scopes
      /\ n.attempts = [job.attempts EXCEPT ![i] = a]
      /\ n.status = job.status /\ n.stopKind = job.stopKind
  BY <1>1, <1>4, <1>5 DEF JobState
<1>7. Sound(n)
  BY <1>1, <1>5, <1>6, SameWorkSound DEF JInv
<1>8. job.status # "finished"
  BY DEF JInv, Labelled
<1>9. QED
  BY <1>6, <1>7, <1>8 DEF n

LEMMA FinishAttemptInv ==
  ASSUME JInv, NEW now \in Nat, NEW i \in Running(job), NEW end \in Outcome,
         FinishAttempt(i, end[1], end[2], now)
  PROVE  JInv' /\ Hard(job, job')
<1> DEFINE ended == [job EXCEPT !.attempts[i].ended = now, !.attempts[i].status = end[1],
                                !.attempts[i].signature = end[2]]
<1> DEFINE c == Checked(ended, now, Backwards)
<1> DEFINE j == Settled(c, i, end[1])
<1> DEFINE n == Diagnosed(Stopped(j, "repeated_failure"))
<1>1. /\ Sound(ended) /\ ended.scopes = job.scopes
      /\ ended.status = job.status /\ ended.stopKind = job.stopKind /\ job.status # "finished"
  BY EndedSound
<1>2. Save(n) \/ Save(Diagnosed(j)) \/ Save(j)
  BY DEF FinishAttempt
<1>3. /\ Sound(c) /\ Len(c.scopes) = Len(job.scopes) /\ Relabelled(job, c)
  <2>1. Backwards \in BOOLEAN
    BY DEF Backwards
  <2> HIDE DEF ended
  <2>2. /\ Sound(c) /\ Touched(ended, c)
        /\ \/ c.status = ended.status /\ c.stopKind = ended.stopKind
           \/ /\ ended.status # "finished" /\ c.status = "stopped"
              /\ c.stopKind \in {"deadline", "clock"}
    BY <1>1, <2>1, CheckedSound
  <2> HIDE DEF c
  <2>3. QED
    BY <1>1, <2>2 DEF Relabelled, Touched
<1> HIDE DEF c
<1>4. Labelled(c) /\ c.status # "finished"
  BY <1>1, <1>3 DEF JInv, Labelled, Relabelled
<1>5. /\ Sound(j) /\ Labelled(j) /\ Len(j.scopes) = Len(job.scopes) /\ Hard(job, j)
  <2>1. CASE j = c
    BY <1>3, <1>4, <2>1 DEF JInv, Labelled, Relabelled, Hard, Final
  <2>2. CASE j = Stopped(c, "deadline")
    <3>1. "deadline" \in StopKind \ {"", "finished"}
      BY DEF StopKind
    <3>2. /\ Sound(j) /\ Labelled(j) /\ Touched(c, j)
          /\ j.status = "stopped" /\ j.stopKind = "deadline"
      BY <1>3, <2>2, <3>1, StoppedLabels
    <3> HIDE DEF j
    <3>3. QED
      BY <1>3, <3>2 DEF Touched, Hard, Final
  <2>3. CASE j = Stopped(c, "interrupted") /\ c.status # "stopped"
    <3>1. c.status = job.status /\ c.stopKind = job.stopKind /\ c.status = "active"
      BY <1>3, <1>4, <2>3 DEF Relabelled, Sound, JobState
    <3>2. job.stopKind = ""
      BY <3>1 DEF JInv, Labelled
    <3>3. "interrupted" \in StopKind \ {"", "finished"}
      BY DEF StopKind
    <3>4. Sound(j) /\ Labelled(j) /\ Touched(c, j)
      BY <1>3, <2>3, <3>3, StoppedLabels
    <3> HIDE DEF j
    <3>5. QED
      BY <1>3, <3>2, <3>4 DEF Touched, Hard, Final
  <2>4. QED
    BY <2>1, <2>2, <2>3 DEF Settled
<1> HIDE DEF j
<1>6. CASE Save(j)
  BY <1>5, <1>6, SaveInv
<1>7. CASE Save(Diagnosed(j))
  <2>1. Sound(Diagnosed(j)) /\ Labelled(Diagnosed(j)) /\ Hard(job, Diagnosed(j))
    BY <1>5, DiagnosedSound, RelabelledLabels DEF Relabelled, Touched, Hard
  <2>2. QED
    BY <1>7, <2>1, SaveInv
<1>8. CASE Save(n)
  <2> DEFINE s == Stopped(j, "repeated_failure")
  <2>1. /\ Sound(s) /\ Labelled(s) /\ s.stopKind = "repeated_failure" /\ s.status = "stopped"
    BY <1>5, StoppedLabels DEF StopKind
  <2> HIDE DEF s
  <2>2. /\ Sound(Diagnosed(s)) /\ Labelled(Diagnosed(s)) /\ Hard(job, Diagnosed(s))
    BY <2>1, DiagnosedSound, RelabelledLabels DEF Relabelled, Touched, Hard, Final
  <2>3. n = Diagnosed(s)
    BY DEF s
  <2> HIDE DEF n
  <2>4. QED
    BY <1>8, <2>2, <2>3, SaveInv
<1>9. QED
  BY <1>2, <1>6, <1>7, <1>8

-------------------------------------------------------------------------------

LEMMA CorrectInv ==
  ASSUME JInv, NEW now \in Nat, NEW escalation \in BOOLEAN, Correct(escalation, now)
  PROVE  JInv' /\ Hard(job, job')
<1> DEFINE j == Check(now)
<1> DEFINE n == [j EXCEPT !.cycle = @ + 1, !.escalations = IF escalation THEN @ + 1 ELSE @]
<1>1. Sound(j) /\ Touched(job, j) /\ j \in JobState
  BY CheckSound DEF Sound
<1>2. ~CorrectionSpent(j, escalation) /\ Save(n)
  BY DEF Correct
<1> HIDE DEF j
<1>3. /\ j.cycle \in 0 .. LastCycle /\ j.cycle # LastCycle
      /\ j.escalations \in 0 .. EscalationLimit /\ (escalation => j.escalations # EscalationLimit)
  BY <1>1, <1>2 DEF CorrectionSpent, JobState
<1>4. /\ j.cycle + 1 \in 0 .. LastCycle
      /\ (IF escalation THEN j.escalations + 1 ELSE j.escalations) \in 0 .. EscalationLimit
  BY <1>3 DEF LastCycle, EscalationLimit
<1>5. /\ n \in JobState /\ n.attempts = j.attempts /\ n.scopes = j.scopes
      /\ n.status = j.status /\ n.stopKind = j.stopKind
  BY <1>1, <1>4 DEF JobState
<1> HIDE DEF n
<1>6. Sound(n)
  BY <1>1, <1>5, SameWorkSound
<1>7. QED
  BY <1>1, <1>2, <1>5, <1>6, SaveChecked DEF Touched, j

LEMMA RefuseCorrectionInv ==
  ASSUME JInv, NEW now \in Nat, NEW escalation \in BOOLEAN, RefuseCorrection(escalation, now)
  PROVE  JInv' /\ Hard(job, job')
<1>1. Save(Diagnosed(Check(now)))
  BY DEF RefuseCorrection
<1>2. QED
  BY <1>1, CheckSound, DiagnosedSound, SaveChecked DEF Touched

LEMMA BeginDiagnosticInv ==
  ASSUME JInv, NEW now \in Nat, BeginDiagnostic(now)
  PROVE  JInv' /\ Hard(job, job')
<1> DEFINE j == Diagnosed(job)
<1> DEFINE d == [Active(j).diagnostic EXCEPT !.status = "reviewing", !.deadline = ReviewEnd(now)]
<1> DEFINE n == WithDiagnostic(j, d)
<1>1. /\ Sound(j) /\ Touched(job, j) /\ j.status = job.status /\ j.stopKind = job.stopKind
      /\ Active(j).diagnostic.status # "none"
  BY DiagnosedSound DEF JInv
<1>2. Save(Seen(n, now)) /\ ReviewEnd(now) \in now + 1 .. now + Window
  BY DEF BeginDiagnostic
<1>3. Active(j).diagnostic \in Diagnostic
  BY <1>1, ScopesType DEF Sound, Scope
<1>4. ReviewEnd(now) \in Nat
  BY <1>2, LedgerAssumption
<1>5. d \in Diagnostic /\ d.after = Active(j).diagnostic.after
  BY <1>3, <1>4 DEF Diagnostic
<1> HIDE DEF d, j
<1>6. /\ Sound(n) /\ Touched(j, n) /\ n.status = j.status /\ n.stopKind = j.stopKind
  BY <1>1, <1>5, WithDiagnosticSound
<1> HIDE DEF n
<1>7. /\ Sound(Seen(n, now)) /\ Touched(n, Seen(n, now))
      /\ Seen(n, now).status = n.status /\ Seen(n, now).stopKind = n.stopKind
  BY <1>6, SeenSound
<1>8. Labelled(Seen(n, now)) /\ Hard(job, Seen(n, now))
  BY <1>1, <1>6, <1>7, RelabelledLabels DEF Relabelled, Touched, JInv
<1>9. QED
  BY <1>2, <1>7, <1>8, SaveInv

LEMMA CompleteDiagnosticInv ==
  ASSUME JInv, NEW now \in Nat, NEW action \in Action, CompleteDiagnostic(action, now)
  PROVE  JInv' /\ Hard(job, job')
<1> DEFINE d == Active(job).diagnostic
<1> DEFINE e == [d EXCEPT !.status = "expired"]
<1> DEFINE f == [d EXCEPT !.status = "complete", !.action = action]
<1>1. d \in Diagnostic /\ d.status = "reviewing"
  BY ScopesType DEF JInv, Sound, Scope, CompleteDiagnostic
<1>2. /\ e \in Diagnostic /\ e.after = d.after
      /\ f \in Diagnostic /\ f.after = d.after
  BY <1>1 DEF Diagnostic
<1>3. \/ Save(WithDiagnostic(job, e))
      \/ Save(Seen(WithDiagnostic(job, f), now))
      \/ Save(Seen(job, now))
  BY DEF CompleteDiagnostic
<1> HIDE DEF e, f
<1>4. ASSUME NEW g \in {e, f}
      PROVE  /\ Sound(WithDiagnostic(job, g)) /\ Touched(job, WithDiagnostic(job, g))
             /\ WithDiagnostic(job, g).status = job.status
             /\ WithDiagnostic(job, g).stopKind = job.stopKind
  BY <1>1, <1>2, <1>4, WithDiagnosticSound DEF JInv
<1>5. ASSUME NEW n, Sound(n), Touched(job, n), n.status = job.status, n.stopKind = job.stopKind
      PROVE  /\ Save(n) => JInv' /\ Hard(job, job')
             /\ Save(Seen(n, now)) => JInv' /\ Hard(job, job')
  <2>1. Labelled(n) /\ Hard(job, n)
    BY <1>5, RelabelledLabels DEF Relabelled, Touched, JInv
  <2>2. /\ Sound(Seen(n, now)) /\ Touched(n, Seen(n, now))
        /\ Seen(n, now).status = n.status /\ Seen(n, now).stopKind = n.stopKind
    BY <1>5, SeenSound
  <2>3. Labelled(Seen(n, now)) /\ Hard(job, Seen(n, now))
    BY <1>5, <2>2, RelabelledLabels DEF Relabelled, Touched, JInv
  <2>4. QED
    BY <1>5, <2>1, <2>2, <2>3, SaveInv
<1>6. CASE Save(WithDiagnostic(job, e))
  BY <1>4, <1>5, <1>6
<1>7. CASE Save(Seen(WithDiagnostic(job, f), now))
  BY <1>4, <1>5, <1>7
<1>8. CASE Save(Seen(job, now))
  BY <1>5, <1>8 DEF Touched, JInv
<1>9. QED
  BY <1>3, <1>6, <1>7, <1>8

LEMMA CancelInv ==
  ASSUME JInv, Cancel
  PROVE  JInv' /\ Hard(job, job')
<1>1. "cancelled" \in StopKind \ {"", "finished"}
  BY DEF StopKind
<1>2. Sound(Stopped(job, "cancelled")) /\ Labelled(Stopped(job, "cancelled"))
  BY <1>1, StoppedLabels DEF JInv
<1>3. Hard(job, Stopped(job, "cancelled"))
  BY DEF Cancel, JInv, Labelled, Hard, Final
<1>4. QED
  BY <1>2, <1>3, SaveInv DEF Cancel

LEMMA FinishInv ==
  ASSUME JInv, NEW now \in Nat, Finish(now)
  PROVE  JInv' /\ Hard(job, job')
<1> DEFINE j == Check(now)
<1> DEFINE n == [j EXCEPT !.status = "finished", !.stopKind = "finished"]
<1>1. Sound(j) /\ Touched(job, j) /\ j \in JobState
  BY CheckSound DEF Sound
<1>2. Save(n) /\ Running(j) = {} /\ job.status = "active"
  BY DEF Finish
<1> HIDE DEF j
<1>3. /\ n \in JobState /\ n.attempts = j.attempts /\ n.scopes = j.scopes
      /\ n.status = "finished" /\ n.stopKind = "finished"
  BY <1>1 DEF JobState, StopKind
<1> HIDE DEF n
<1>4. Sound(n)
  BY <1>1, <1>3, SameWorkSound
<1>5. Labelled(n) /\ Hard(job, n)
  BY <1>2, <1>3 DEF JInv, Labelled, Running, Hard, Final
<1>6. QED
  BY <1>2, <1>4, <1>5, SaveInv

LEMMA ResumeInv ==
  ASSUME JInv, NEW now \in Nat, Resume(now)
  PROVE  JInv' /\ Hard(job, job')
<1> DEFINE a == [job EXCEPT !.status = "active"]
<1> DEFINE j == Checked(a, now, Backwards)
<1> DEFINE n == [j EXCEPT !.stopKind = ""]
<1>1. /\ a \in JobState /\ a.attempts = job.attempts /\ a.scopes = job.scopes
      /\ a.status = "active" /\ a.stopKind = job.stopKind
  BY DEF JInv, TypeOK, JobState
<1>2. job.stopKind \in {"cancelled", "interrupted"} /\ Save(IF j.status = "active" THEN n ELSE j)
  BY DEF Resume
<1> HIDE DEF a
<1>3. Sound(a)
  BY <1>1, SameWorkSound DEF JInv
<1>4. /\ Sound(j) /\ Touched(a, j)
      /\ \/ j.status = "active"
         \/ j.status = "stopped" /\ j.stopKind \in {"deadline", "clock"}
  <2>1. Backwards \in BOOLEAN
    BY DEF Backwards
  <2>2. QED
    BY <1>1, <1>3, <2>1, CheckedSound
<1> HIDE DEF j
<1>5. CASE j.status = "active"
  <2>1. /\ n \in JobState /\ n.attempts = j.attempts /\ n.scopes = j.scopes
        /\ n.status = "active" /\ n.stopKind = ""
    BY <1>4, <1>5 DEF Sound, JobState, StopKind
  <2> HIDE DEF n
  <2>2. Sound(n) /\ Labelled(n) /\ Hard(job, n)
    BY <1>2, <1>4, <2>1, SameWorkSound DEF Labelled, Hard, Final
  <2>3. QED
    BY <1>2, <1>5, <2>2, SaveInv
<1>6. CASE j.status # "active"
  <2>1. Labelled(j) /\ Hard(job, j)
    BY <1>2, <1>4, <1>6 DEF Labelled, Hard, Final
  <2>2. QED
    BY <1>2, <1>4, <1>6, <2>1, SaveInv
<1>7. QED
  BY <1>5, <1>6

-------------------------------------------------------------------------------

LEMMA ExtendInv ==
  ASSUME JInv, NEW n, Sound(n), Labelled(n), Hard(job, n),
         NEW kind \in {"local", "annotation"}, Extend(kind, n)
  PROVE  JInv' /\ Hard(job, job')
<1>1. /\ Write(n) \/ UNCHANGED << job, clocks, halted >>
      /\ retained' = retained /\ extended' = extended \cup {kind}
      /\ overdrawn' \subseteq {"call", "local", "annotation"}
  BY DEF Extend, Audited, JInv, TypeOK
<1>2. Hard(job, job)
  BY DEF JInv, Labelled, Hard, Final
<1>3. CASE Write(n)
  <2>1. /\ Sound(job') /\ Labelled(job') /\ Hard(job, job')
        /\ halted' \in BOOLEAN /\ UNCHANGED clocks
    BY <1>3, WriteInv
  <2>2. QED
    BY <1>1, <2>1 DEF JInv, TypeOK, Sound, clocks
<1>4. CASE UNCHANGED << job, clocks, halted >>
  <2>1. Sound(job') /\ Labelled(job') /\ Hard(job, job')
    BY <1>2, <1>4 DEF JInv
  <2>2. QED
    BY <1>1, <1>4, <2>1 DEF JInv, TypeOK, clocks
<1>5. QED
  BY <1>1, <1>3, <1>4

LEMMA AddLocalCorrectionInv ==
  ASSUME JInv, NEW now \in Nat, AddLocalCorrection(now)
  PROVE  JInv' /\ Hard(job, job')
<1> DEFINE j == Check(now)
<1> DEFINE s == [Active(j) EXCEPT !.builds = @ \cup LocalOp]
<1> DEFINE n == WithActive(j, s)
<1>1. Sound(j) /\ Touched(job, j) /\ Relabelled(job, j) /\ Active(j) \in Scope
  BY CheckSound, ScopesType DEF Sound
<1>2. s \in Scope /\ s.first = Active(j).first /\ s.diagnostic = Active(j).diagnostic
  BY <1>1, LedgerAssumption DEF Scope
<1>3. Extend("local", n)
  BY DEF AddLocalCorrection, LocalExtension
<1> HIDE DEF s, j
<1>4. /\ Sound(n) /\ n = [j EXCEPT !.scopes = n.scopes] /\ Len(n.scopes) = Len(j.scopes)
  BY <1>1, <1>2, WithActiveSound
<1> HIDE DEF n
<1>5. n.attempts = j.attempts /\ n.status = j.status /\ n.stopKind = j.stopKind
  BY <1>1, <1>4 DEF Sound, JobState
<1>6. Labelled(n) /\ Hard(job, n)
  BY <1>1, <1>5, RelabelledLabels DEF Relabelled, Touched, JInv
<1>7. QED
  BY <1>3, <1>4, <1>6, ExtendInv

LEMMA AddAnnotationInv ==
  ASSUME JInv, NEW now \in Nat, AddAnnotation(now)
  PROVE  JInv' /\ Hard(job, job')
<1> DEFINE j == Check(now)
<1> DEFINE s == [Active(j) EXCEPT !.retry = Previous(j, Edit), !.diagnostic = NoDiagnostic]
<1> DEFINE n == WithActive(j, s)
<1>1. Sound(j) /\ Touched(job, j) /\ Relabelled(job, j) /\ Active(j) \in Scope
  BY CheckSound, ScopesType DEF Sound
<1>2. Previous(j, Edit) \in SUBSET (Nat \ {0})
  BY <1>1, ScopesType DEF Previous, Sound
<1>3. NoDiagnostic \in Diagnostic /\ NoDiagnostic.status = "none"
  BY DEF NoDiagnostic, Diagnostic
<1>4. s \in Scope /\ s.first = Active(j).first /\ s.diagnostic.status = "none"
  BY <1>1, <1>2, <1>3 DEF Scope
<1>5. Extend("annotation", n)
  BY DEF AddAnnotation, AnnotationExtension
<1> HIDE DEF s, j
<1>6. /\ Sound(n) /\ n = [j EXCEPT !.scopes = n.scopes] /\ Len(n.scopes) = Len(j.scopes)
  BY <1>1, <1>4, WithActiveSound
<1> HIDE DEF n
<1>7. n.attempts = j.attempts /\ n.status = j.status /\ n.stopKind = j.stopKind
  BY <1>1, <1>6 DEF Sound, JobState
<1>8. Labelled(n) /\ Hard(job, n)
  BY <1>1, <1>7, RelabelledLabels DEF Relabelled, Touched, JInv
<1>9. QED
  BY <1>5, <1>6, <1>8, ExtendInv

\* A continuation adds a scope that begins after every attempt, without a checkpoint,
\* and leaves the attempts and the other scopes as they are.
LEMMA RenewedShape ==
  ASSUME JInv, NEW now \in Nat, NEW r \in ContinuationRequest
  PROVE  LET n == Renewed(job, r, now)
             last == Len(job.scopes)
         IN
         /\ n \in JobState /\ n.status = "active" /\ n.stopKind = ""
         /\ n.attempts = job.attempts /\ n.cycle = job.cycle
         /\ DOMAIN n.scopes = 1 .. last + 1 /\ Len(n.scopes) = last + 1 /\ n.scopes # << >>
         /\ \A k \in 1 .. last : n.scopes[k] = job.scopes[k] /\ End(n, k) = End(job, k)
         /\ n.scopes[last + 1].first = Len(job.attempts)
         /\ n.scopes[last + 1].diagnostic.status = "none"
         /\ n.scopes[last + 1].retry = UNION {Latest(Previous(job, op)) : op \in r.retry}
         /\ n.scopes[last + 1].resolution = r.resolution
<1> DEFINE retry == UNION {Latest(Previous(job, op)) : op \in r.retry}
<1> DEFINE s == [ builds |-> r.builds, resolution |-> r.resolution, auth |-> r.auth,
                  retry |-> retry, first |-> Len(job.attempts), start |-> now,
                  allowance |-> r.allowance, diagnostic |-> NoDiagnostic ]
<1> DEFINE n == Renewed(job, r, now)
<1>1. /\ job \in JobState /\ job.scopes \in Seq(Scope) /\ Len(job.attempts) \in Nat
      /\ DOMAIN job.attempts = 1 .. Len(job.attempts)
      /\ Len(job.scopes) \in Nat \ {0} /\ DOMAIN job.scopes = 1 .. Len(job.scopes)
  BY ScopesType DEF JInv, Sound, JobState
<1>2. retry \in SUBSET (Nat \ {0})
  BY <1>1 DEF Latest, Previous
<1>3. /\ r.builds \in SUBSET BuildOp /\ r.resolution \in BOOLEAN
      /\ r.auth \in Authorization /\ r.allowance \in Allowance
  BY RequestAssumption
<1>4. NoDiagnostic \in Diagnostic /\ NoDiagnostic.status = "none"
  BY DEF NoDiagnostic, Diagnostic
<1> HIDE DEF retry
<1>5. /\ s \in Scope /\ s.first = Len(job.attempts) /\ s.diagnostic.status = "none"
      /\ s.retry = retry /\ s.resolution = r.resolution
  BY <1>1, <1>2, <1>3, <1>4 DEF Scope
<1>6. n = [job EXCEPT !.status = "active", !.stopKind = "", !.lastSeen = now,
                      !.scopes = Append(job.scopes, s)]
  BY DEF Renewed, retry
<1> HIDE DEF s, n
<1>7. /\ Append(job.scopes, s) \in Seq(Scope) /\ Append(job.scopes, s) # << >>
      /\ Len(Append(job.scopes, s)) = Len(job.scopes) + 1
      /\ \A k \in 1 .. Len(job.scopes) : Append(job.scopes, s)[k] = job.scopes[k]
      /\ Append(job.scopes, s)[Len(job.scopes) + 1] = s
  BY <1>1, <1>5, AppendProperties
<1>8. /\ n \in JobState /\ n.attempts = job.attempts /\ n.scopes = Append(job.scopes, s)
      /\ n.status = "active" /\ n.stopKind = "" /\ n.cycle = job.cycle
  BY <1>1, <1>6, <1>7 DEF JobState, StopKind
<1>9. /\ DOMAIN n.scopes = 1 .. Len(job.scopes) + 1 /\ Len(n.scopes) = Len(job.scopes) + 1
      /\ \A k \in 1 .. Len(job.scopes) : n.scopes[k] = job.scopes[k]
      /\ n.scopes[Len(job.scopes) + 1] = s /\ n.scopes # << >>
  BY <1>7, <1>8, LenProperties
<1>10. ASSUME NEW k \in 1 .. Len(job.scopes)
       PROVE  End(n, k) = End(job, k)
  <2>1. CASE k = Len(job.scopes)
    <3>1. k + 1 = Len(job.scopes) + 1 /\ k # Len(n.scopes)
      BY <1>1, <1>9, <2>1
    <3>2. QED
      BY <1>5, <1>9, <2>1, <3>1 DEF End
  <2>2. CASE k # Len(job.scopes)
    <3>1. k + 1 \in 1 .. Len(job.scopes) /\ k # Len(n.scopes)
      BY <1>1, <1>9, <1>10, <2>2
    <3>2. QED
      BY <1>9, <2>2, <3>1 DEF End
  <2>3. QED
    BY <2>1, <2>2
<1>11. QED
  BY <1>5, <1>8, <1>9, <1>10 DEF n, retry

LEMMA RenewedSound ==
  ASSUME JInv, NEW now \in Nat, NEW r \in ContinuationRequest
  PROVE  LET n == Renewed(job, r, now) IN
         /\ Sound(n) /\ n.status = "active" /\ n.stopKind = "" /\ n.attempts = job.attempts
         /\ Len(n.scopes) = Len(job.scopes) + 1
<1> DEFINE n == Renewed(job, r, now)
<1>1. /\ Len(job.attempts) \in Nat /\ Len(job.scopes) \in Nat \ {0}
      /\ DOMAIN job.scopes = 1 .. Len(job.scopes)
  BY ScopesType DEF JInv, Sound
<1>2. /\ n \in JobState /\ n.status = "active" /\ n.stopKind = ""
      /\ n.attempts = job.attempts /\ n.scopes # << >>
      /\ DOMAIN n.scopes = 1 .. Len(job.scopes) + 1 /\ Len(n.scopes) = Len(job.scopes) + 1
      /\ \A k \in 1 .. Len(job.scopes) : n.scopes[k] = job.scopes[k] /\ End(n, k) = End(job, k)
      /\ n.scopes[Len(job.scopes) + 1].first = Len(job.attempts)
      /\ n.scopes[Len(job.scopes) + 1].diagnostic.status = "none"
  BY RenewedShape
<1> HIDE DEF n
<1>3. ScopesBounded(n)
  <2>1. ASSUME NEW k \in 1 .. Len(job.scopes) + 1
        PROVE  n.scopes[k].first <= Len(job.attempts)
    <3>1. CASE k = Len(job.scopes) + 1
      <4>1. n.scopes[k].first = Len(job.attempts)
        BY <1>2, <3>1
      <4>2. QED
        BY <1>1, <4>1
    <3>2. CASE k # Len(job.scopes) + 1
      <4>1. k \in 1 .. Len(job.scopes)
        BY <1>1, <2>1, <3>2
      <4>2. QED
        BY <1>1, <1>2, <4>1 DEF ScopesBounded, JInv, Sound
    <3>3. QED
      BY <3>1, <3>2
  <2>2. QED
    BY <1>2, <2>1 DEF ScopesBounded
<1>4. ASSUME NEW k \in DOMAIN n.scopes, n.scopes[k].diagnostic.status # "none",
             NEW op \in BuildOp, NEW i \in ScopeWork(n, k, op)
      PROVE  i <= n.scopes[k].diagnostic.after
  <2>1. k \in 1 .. Len(job.scopes)
    <3>1. k \in 1 .. Len(job.scopes) + 1 /\ k # Len(job.scopes) + 1
      BY <1>2, <1>4
    <3>2. QED
      BY <1>1, <3>1
  <2>2. n.scopes[k] = job.scopes[k] /\ End(n, k) = End(job, k)
    BY <1>2, <2>1
  <2>3. i \in ScopeWork(job, k, op)
    BY <1>2, <1>4, <2>2 DEF ScopeWork, Previous
  <2>4. QED
    BY <1>1, <1>4, <2>1, <2>2, <2>3 DEF JInv, Sound, BuildsHeld
<1>5. QED
  BY <1>2, <1>3, <1>4 DEF Sound, BuildsHeld, n

LEMMA ContinueInv ==
  ASSUME JInv, NEW now \in Nat, NEW r \in ContinuationRequest, Continue(r, now)
  PROVE  JInv' /\ Hard(job, job')
<1> DEFINE n == Renewed(job, r, now)
<1>1. /\ Sound(n) /\ n.status = "active" /\ n.stopKind = "" /\ n.attempts = job.attempts
      /\ Len(n.scopes) = Len(job.scopes) + 1
  BY RenewedSound
<1>2. /\ \/ Write(n) /\ retained' = NoLedger
         \/ retained' = job /\ UNCHANGED << job, clocks, halted >>
      /\ extended' = extended /\ overdrawn' \subseteq {"call", "local", "annotation"}
  BY DEF Continue, Audited, JInv, TypeOK
<1> HIDE DEF n
<1>3. Labelled(n) /\ Hard(job, n)
  <2>1. Len(job.scopes) \in Nat
    BY ScopesType DEF JInv, Sound
  <2>2. \A x \in Nat : x + 1 # x
    OBVIOUS
  <2>3. Len(n.scopes) # Len(job.scopes)
    BY <1>1, <2>1, <2>2, Zenon
  <2>4. QED
    BY <1>1, <2>3 DEF Labelled, Hard
<1>4. CASE Write(n) /\ retained' = NoLedger
  <2>1. /\ Sound(job') /\ Labelled(job') /\ Hard(job, job')
        /\ halted' \in BOOLEAN /\ UNCHANGED clocks
    BY <1>1, <1>3, <1>4, WriteInv
  <2>2. QED
    BY <1>2, <1>4, <2>1 DEF JInv, TypeOK, Sound, clocks
<1>5. CASE retained' = job /\ UNCHANGED << job, clocks, halted >>
  <2>1. Sound(job') /\ Labelled(job') /\ Hard(job, job')
    BY <1>5 DEF JInv, Labelled, Hard, Final
  <2>2. QED
    BY <1>2, <1>5, <2>1 DEF JInv, TypeOK, clocks
<1>6. QED
  BY <1>2, <1>4, <1>5

\* The clocks move, the ledger does not.
LEMMA ClockInv ==
  ASSUME JInv,
         \/ \E t \in Tick : PassTime(t)
         \/ \E t \in SetBack : SetClockBack(t)
         \/ CorrectClock
  PROVE  JInv' /\ Hard(job, job')
<1>1. /\ wall' \in Nat /\ elapsed' \in Nat /\ wall' <= elapsed'
      /\ UNCHANGED << job, retained, extended, halted, overdrawn >>
  <2>1. Tick \cup SetBack \subseteq Nat /\ wall \in Nat /\ elapsed \in Nat /\ wall <= elapsed
    BY RequestAssumption DEF JInv, TypeOK
  <2>2. QED
    BY <2>1 DEF PassTime, SetClockBack, CorrectClock
<1>2. Sound(job') /\ Labelled(job') /\ Hard(job, job')
  BY <1>1 DEF JInv, Labelled, Hard, Final
<1>3. QED
  BY <1>1, <1>2 DEF JInv, TypeOK

-------------------------------------------------------------------------------
(* Budgets. WithinBudget is what a save audits; the calls never need the audit *)
(* because a scope grants retries of known attempts, at most one for each      *)
(* operation, and none without a blocker resolution.                           *)

RetriesSound(j) ==
  \A k \in DOMAIN j.scopes :
    /\ j.scopes[k].retry \subseteq DOMAIN j.attempts
    /\ j.scopes[k].retry # {} => j.scopes[k].resolution
    /\ \A i1, i2 \in j.scopes[k].retry : j.attempts[i1].op = j.attempts[i2].op => i1 = i2

BudgetSound(j) == WithinBudget(j) /\ RetriesSound(j)

\* Some scope has spent a retry that is not the edit's. A ledger that has stays so:
\* only an annotation completion takes retries away, and there is one per job.
Excused(j) == \E k \in DOMAIN j.scopes : RetrySpent(j, k)

BInv ==
  /\ BudgetSound(job) /\ BudgetsHold
  /\ "annotation" \in overdrawn => "annotation" \in extended

\* Scopes that grant the same, or more operations, and attempts that at most end.
SameBudgets(j, n) ==
  /\ n \in JobState /\ n.scopes # << >>
  /\ Len(n.scopes) = Len(j.scopes) /\ Len(n.attempts) = Len(j.attempts)
  /\ j.cycle <= n.cycle
  /\ \A k \in DOMAIN j.scopes :
       /\ n.scopes[k].first = j.scopes[k].first
       /\ j.scopes[k].builds \subseteq n.scopes[k].builds
       /\ n.scopes[k].retry = j.scopes[k].retry
       /\ n.scopes[k].resolution = j.scopes[k].resolution
  /\ \A i \in DOMAIN j.attempts :
       /\ n.attempts[i].op = j.attempts[i].op /\ n.attempts[i].cycle = j.attempts[i].cycle
       /\ \/ n.attempts[i].status = j.attempts[i].status
          \/ j.attempts[i].status = "running" /\ n.attempts[i].status # "running"

LEMMA RunningFinite ==
  ASSUME NEW j \in JobState, j.scopes # << >>
  PROVE  IsFiniteSet(Running(j)) /\ \A op : IsFiniteSet(Previous(j, op))
<1>1. DOMAIN j.attempts = 1 .. Len(j.attempts) /\ Len(j.attempts) \in Nat
  BY ScopesType
<1>2. IsFiniteSet(DOMAIN j.attempts)
  BY <1>1, FS_Interval
<1>3. Running(j) \subseteq DOMAIN j.attempts /\ \A op : Previous(j, op) \subseteq DOMAIN j.attempts
  BY DEF Running, Previous
<1>4. QED
  BY <1>2, <1>3, FS_Subset

LEMMA SameBudgetsSound ==
  ASSUME NEW j \in JobState, j.scopes # << >>, BudgetSound(j), NEW n, SameBudgets(j, n)
  PROVE  BudgetSound(n)
<1>1. /\ DOMAIN j.attempts = 1 .. Len(j.attempts) /\ DOMAIN j.scopes = 1 .. Len(j.scopes)
      /\ Len(j.attempts) \in Nat /\ Len(j.scopes) \in Nat \ {0}
      /\ j.cycle \in Nat /\ \A i \in DOMAIN j.attempts : j.attempts[i].cycle \in Nat
  <2>1. j.cycle \in Nat
    BY DEF JobState, LastCycle
  <2>2. \A i \in DOMAIN j.attempts : j.attempts[i] \in Attempt
    BY ScopesType
  <2>3. \A i \in DOMAIN j.attempts : j.attempts[i].cycle \in Nat
    BY <2>2 DEF Attempt, LastCycle
  <2>4. QED
    BY <2>1, <2>3, ScopesType
<1>2. /\ DOMAIN n.attempts = DOMAIN j.attempts /\ DOMAIN n.scopes = DOMAIN j.scopes
      /\ Len(n.attempts) = Len(j.attempts) /\ Len(n.scopes) = Len(j.scopes)
      /\ n.cycle \in Nat /\ j.cycle <= n.cycle
  <2>1. n \in JobState /\ n.scopes # << >> /\ Len(n.attempts) = Len(j.attempts)
        /\ Len(n.scopes) = Len(j.scopes) /\ j.cycle <= n.cycle
    BY DEF SameBudgets
  <2>2. n.cycle \in Nat
    BY <2>1 DEF JobState, LastCycle
  <2>3. QED
    BY <1>1, <2>1, <2>2, ScopesType
<1>3. /\ \A k \in DOMAIN j.scopes :
           /\ n.scopes[k].first = j.scopes[k].first
           /\ j.scopes[k].builds \subseteq n.scopes[k].builds
           /\ n.scopes[k].retry = j.scopes[k].retry
           /\ n.scopes[k].resolution = j.scopes[k].resolution
      /\ \A i \in DOMAIN j.attempts :
           /\ n.attempts[i].op = j.attempts[i].op /\ n.attempts[i].cycle = j.attempts[i].cycle
           /\ j.attempts[i].status # "running" => n.attempts[i].status = j.attempts[i].status
           /\ n.attempts[i].status = "running" => j.attempts[i].status = "running"
  BY DEF SameBudgets
<1>4. \A k \in DOMAIN j.scopes : End(n, k) = End(j, k)
  BY <1>1, <1>2, <1>3 DEF End
<1>5. \A op : Previous(n, op) = Previous(j, op)
  BY <1>2, <1>3 DEF Previous
<1>6. \A k \in DOMAIN j.scopes : \A op : ScopeWork(n, k, op) = ScopeWork(j, k, op)
  BY <1>3, <1>4, <1>5 DEF ScopeWork
<1>7. ScopesOrdered(n) /\ CyclesCounted(n) /\ LifetimeBudget(n)
  <2>1. ScopesOrdered(n)
    BY <1>2, <1>3, <1>4 DEF BudgetSound, WithinBudget, ScopesOrdered
  <2>2. CyclesCounted(n)
    BY <1>1, <1>2, <1>3 DEF BudgetSound, WithinBudget, CyclesCounted
  <2>3. LifetimeBudget(n)
    BY <1>5 DEF BudgetSound, WithinBudget, LifetimeBudget
  <2>4. QED
    BY <2>1, <2>2, <2>3
<1>8. OneAttempt(n)
  <2>1. Running(n) \subseteq Running(j)
    BY <1>2, <1>3 DEF Running
  <2>2. /\ Cardinality(Running(n)) <= Cardinality(Running(j))
        /\ Cardinality(Running(j)) \in Nat /\ Cardinality(Running(n)) \in Nat
    BY <2>1, RunningFinite, FS_Subset, FS_CardinalityType
  <2>3. QED
    BY <2>2 DEF OneAttempt, BudgetSound, WithinBudget
<1>9. CycleBudget(n)
  <2> SUFFICES ASSUME NEW op \in BuildOp, NEW i1 \in Previous(n, op), NEW i2 \in Previous(n, op),
                      i1 < i2, n.attempts[i1].cycle = n.attempts[i2].cycle,
                      \A i \in Previous(n, op) : i <= i1 \/ i2 <= i
               PROVE  /\ n.attempts[i1].status = "failed"
                      /\ \E k \in 2 .. Len(n.scopes) :
                           /\ n.scopes[k].first < i2 /\ i2 <= End(n, k)
                           /\ i1 \in n.scopes[k].retry /\ n.scopes[k].resolution
    BY DEF CycleBudget
  <2>1. i1 \in DOMAIN j.attempts /\ i2 \in DOMAIN j.attempts
    BY <1>2 DEF Previous
  <2>2. /\ j.attempts[i1].status = "failed"
        /\ \E k \in 2 .. Len(j.scopes) :
             /\ j.scopes[k].first < i2 /\ i2 <= End(j, k)
             /\ i1 \in j.scopes[k].retry /\ j.scopes[k].resolution
    BY <1>3, <1>5, <2>1 DEF BudgetSound, WithinBudget, CycleBudget
  <2>3. 2 .. Len(j.scopes) \subseteq DOMAIN j.scopes
    BY <1>1
  <2>4. QED
    BY <1>2, <1>3, <1>4, <2>1, <2>2, <2>3
<1>10. ScopeBudget(n)
  <2> SUFFICES ASSUME NEW k \in 2 .. Len(n.scopes), NEW op \in BuildOp
               PROVE  /\ ScopeWork(n, k, op) # {} => op \in n.scopes[k].builds
                      /\ \A i1, i2 \in ScopeWork(n, k, op) : i1 < i2 =>
                           /\ ScopeWork(n, k, op) = {i1, i2}
                           /\ n.attempts[i1].status = "failed" /\ i1 \in n.scopes[k].retry
    BY DEF ScopeBudget
  <2>1. k \in DOMAIN j.scopes /\ k \in 2 .. Len(j.scopes)
    BY <1>1, <1>2
  <2>2. /\ ScopeWork(j, k, op) # {} => op \in j.scopes[k].builds
        /\ \A i1, i2 \in ScopeWork(j, k, op) : i1 < i2 =>
             /\ ScopeWork(j, k, op) = {i1, i2}
             /\ j.attempts[i1].status = "failed" /\ i1 \in j.scopes[k].retry
    BY <2>1 DEF BudgetSound, WithinBudget, ScopeBudget
  <2>3. ScopeWork(j, k, op) \subseteq DOMAIN j.attempts
    BY DEF ScopeWork, Previous
  <2>4. QED
    BY <1>3, <1>6, <2>1, <2>2, <2>3
<1>11. RetriesSound(n)
  <2> SUFFICES ASSUME NEW k \in DOMAIN n.scopes
               PROVE  /\ n.scopes[k].retry \subseteq DOMAIN n.attempts
                      /\ n.scopes[k].retry # {} => n.scopes[k].resolution
                      /\ \A i1, i2 \in n.scopes[k].retry :
                           n.attempts[i1].op = n.attempts[i2].op => i1 = i2
    BY DEF RetriesSound
  <2>1. /\ j.scopes[k].retry \subseteq DOMAIN j.attempts
        /\ j.scopes[k].retry # {} => j.scopes[k].resolution
        /\ \A i1, i2 \in j.scopes[k].retry : j.attempts[i1].op = j.attempts[i2].op => i1 = i2
    BY <1>2 DEF BudgetSound, RetriesSound
  <2>2. QED
    BY <1>2, <1>3, <2>1
<1>12. QED
  BY <1>7, <1>8, <1>9, <1>10, <1>11 DEF BudgetSound, WithinBudget

LEMMA SameBudgetsTwice ==
  ASSUME NEW j \in JobState, j.scopes # << >>, NEW m, NEW n, SameBudgets(j, m), SameBudgets(m, n)
  PROVE  SameBudgets(j, n)
<1>1. /\ m \in JobState /\ m.scopes # << >>
      /\ Len(m.scopes) = Len(j.scopes) /\ Len(m.attempts) = Len(j.attempts)
  BY DEF SameBudgets
<1>2. DOMAIN m.scopes = DOMAIN j.scopes /\ DOMAIN m.attempts = DOMAIN j.attempts
  BY <1>1, ScopesType
<1>3. j.cycle <= n.cycle
  <2>1. j.cycle \in Int /\ m.cycle \in Int /\ n.cycle \in Int
    BY DEF SameBudgets, JobState, LastCycle
  <2>2. QED
    BY <2>1 DEF SameBudgets
<1>4. QED
  BY <1>1, <1>2, <1>3 DEF SameBudgets

\* n has the scopes and attempts of j, which may have been added to.
Longer(j, n) ==
  /\ DOMAIN j.scopes \subseteq DOMAIN n.scopes
  /\ \A i \in DOMAIN j.attempts :
       i \in DOMAIN n.attempts /\ n.attempts[i].op = j.attempts[i].op
  /\ \A k \in DOMAIN j.scopes :
       /\ n.scopes[k].retry = j.scopes[k].retry
       /\ \A op : ScopeWork(j, k, op) \subseteq ScopeWork(n, k, op)

LEMMA LongerExcused ==
  ASSUME NEW j, RetriesSound(j), NEW n, Longer(j, n)
  PROVE  Excused(j) => Excused(n)
<1> SUFFICES ASSUME Excused(j)
             PROVE  Excused(n)
  OBVIOUS
<1>1. PICK k \in DOMAIN j.scopes : RetrySpent(j, k)
  BY DEF Excused
<1>2. PICK i \in j.scopes[k].retry :
        /\ j.attempts[i].op # Edit
        /\ \E i2 \in ScopeWork(j, k, j.attempts[i].op) : i < i2
  BY <1>1 DEF RetrySpent
<1>3. i \in DOMAIN j.attempts
  BY <1>1, <1>2 DEF RetriesSound
<1>4. /\ k \in DOMAIN n.scopes /\ i \in n.scopes[k].retry
      /\ n.attempts[i].op = j.attempts[i].op
      /\ ScopeWork(j, k, j.attempts[i].op) \subseteq ScopeWork(n, k, j.attempts[i].op)
  BY <1>1, <1>2, <1>3 DEF Longer
<1>5. RetrySpent(n, k)
  BY <1>2, <1>4 DEF RetrySpent
<1>6. QED
  BY <1>4, <1>5 DEF Excused

LEMMA SameBudgetsExcused ==
  ASSUME NEW j \in JobState, j.scopes # << >>, RetriesSound(j), NEW n, SameBudgets(j, n),
         RetriesSound(n)
  PROVE  Excused(j) <=> Excused(n)
<1>1. /\ Len(n.scopes) = Len(j.scopes) /\ Len(n.attempts) = Len(j.attempts)
      /\ DOMAIN n.scopes = DOMAIN j.scopes /\ DOMAIN n.attempts = DOMAIN j.attempts
      /\ DOMAIN j.scopes = 1 .. Len(j.scopes) /\ Len(j.scopes) \in Nat \ {0}
  BY ScopesType DEF SameBudgets
<1>2. /\ \A k \in DOMAIN j.scopes : /\ n.scopes[k].first = j.scopes[k].first
                                    /\ n.scopes[k].retry = j.scopes[k].retry
      /\ \A i \in DOMAIN j.attempts : n.attempts[i].op = j.attempts[i].op
  BY DEF SameBudgets
<1>3. \A k \in DOMAIN j.scopes : End(n, k) = End(j, k)
  BY <1>1, <1>2 DEF End
<1>4. \A op : Previous(n, op) = Previous(j, op)
  BY <1>1, <1>2 DEF Previous
<1>5. \A k \in DOMAIN j.scopes : \A op : ScopeWork(n, k, op) = ScopeWork(j, k, op)
  BY <1>2, <1>3, <1>4 DEF ScopeWork
<1>6. Longer(j, n) /\ Longer(n, j)
  BY <1>1, <1>2, <1>5 DEF Longer
<1>7. QED
  BY <1>6, LongerExcused

\* A ledger with the attempts and the scopes of another.
LEMMA SameWorkBudgets ==
  ASSUME NEW j \in JobState, j.scopes # << >>, NEW n \in JobState,
         n.attempts = j.attempts, n.scopes = j.scopes, j.cycle <= n.cycle
  PROVE  SameBudgets(j, n)
BY DEF SameBudgets

LEMMA WithDiagnosticBudgets ==
  ASSUME NEW j \in JobState, j.scopes # << >>, NEW d \in Diagnostic
  PROVE  SameBudgets(j, WithDiagnostic(j, d))
<1> DEFINE s == [Active(j) EXCEPT !.diagnostic = d]
<1> DEFINE last == Len(j.scopes)
<1>1. /\ j.scopes \in Seq(Scope) /\ last \in 1 .. Len(j.scopes) /\ Active(j) \in Scope
      /\ DOMAIN j.scopes = 1 .. Len(j.scopes) /\ j.cycle \in Int
  BY ScopesType DEF JobState, LastCycle
<1>2. /\ s \in Scope /\ s.first = Active(j).first /\ s.builds = Active(j).builds
      /\ s.retry = Active(j).retry /\ s.resolution = Active(j).resolution
  BY <1>1 DEF Scope
<1> HIDE DEF s
<1>3. WithDiagnostic(j, d) = [j EXCEPT !.scopes = [j.scopes EXCEPT ![last] = s]]
  BY DEF WithDiagnostic, WithActive, s
<1> DEFINE n == WithDiagnostic(j, d)
<1>4. /\ [j.scopes EXCEPT ![last] = s] \in Seq(Scope)
      /\ Len([j.scopes EXCEPT ![last] = s]) = Len(j.scopes)
  BY <1>1, <1>2, ExceptSeq
<1>5. /\ n \in JobState /\ n.attempts = j.attempts /\ n.cycle = j.cycle
      /\ n.scopes = [j.scopes EXCEPT ![last] = s]
  BY <1>1, <1>3, <1>4 DEF JobState
<1> HIDE DEF n
<1>6. n.scopes # << >> /\ Len(n.scopes) = Len(j.scopes)
  BY <1>1, <1>4, <1>5, EmptySeq
<1>7. \A k \in DOMAIN j.scopes : n.scopes[k] = IF k = last THEN s ELSE j.scopes[k]
  BY <1>1, <1>5
<1>8. \A k \in DOMAIN j.scopes :
        /\ n.scopes[k].first = j.scopes[k].first /\ n.scopes[k].builds = j.scopes[k].builds
        /\ n.scopes[k].retry = j.scopes[k].retry
        /\ n.scopes[k].resolution = j.scopes[k].resolution
  BY <1>2, <1>7 DEF Active
<1>9. QED
  BY <1>1, <1>5, <1>6, <1>8 DEF SameBudgets, n

LEMMA DiagnosedBudgets ==
  ASSUME NEW j, Sound(j)
  PROVE  SameBudgets(j, Diagnosed(j))
<1> DEFINE d == [NoDiagnostic EXCEPT !.status = "pending", !.after = Len(j.attempts)]
<1>1. j \in JobState /\ j.scopes # << >> /\ d \in Diagnostic
  BY ScopesType DEF Sound, Diagnostic, NoDiagnostic
<1>2. SameBudgets(j, j)
  <2>1. j.cycle <= j.cycle
    BY <1>1 DEF JobState, LastCycle
  <2>2. QED
    BY <1>1, <2>1, SameWorkBudgets
<1>3. Diagnosed(j) = j \/ Diagnosed(j) = WithDiagnostic(j, d)
  BY DEF Diagnosed
<1> HIDE DEF d
<1>4. QED
  BY <1>1, <1>2, <1>3, WithDiagnosticBudgets

\* What updates the label and the time of a ledger.
LEMMA RelabelBudgets ==
  ASSUME NEW j \in JobState, j.scopes # << >>
  PROVE  /\ SameBudgets(j, j)
         /\ \A now \in Nat : SameBudgets(j, Seen(j, now))
         /\ \A kind \in StopKind : SameBudgets(j, Stopped(j, kind))
<1>1. j.cycle <= j.cycle
  BY DEF JobState, LastCycle
<1>2. SameBudgets(j, j)
  BY <1>1, SameWorkBudgets
<1>3. ASSUME NEW now \in Nat
      PROVE  SameBudgets(j, Seen(j, now))
  <2>1. /\ Seen(j, now) \in JobState /\ Seen(j, now).cycle = j.cycle
        /\ Seen(j, now).attempts = j.attempts /\ Seen(j, now).scopes = j.scopes
    BY DEF JobState, Seen
  <2>2. QED
    BY <1>1, <2>1, SameWorkBudgets
<1>4. ASSUME NEW kind \in StopKind
      PROVE  SameBudgets(j, Stopped(j, kind))
  <2>1. /\ Stopped(j, kind) \in JobState /\ Stopped(j, kind).cycle = j.cycle
        /\ Stopped(j, kind).attempts = j.attempts /\ Stopped(j, kind).scopes = j.scopes
    BY DEF JobState, Stopped
  <2>2. QED
    BY <1>1, <2>1, SameWorkBudgets
<1>5. QED
  BY <1>2, <1>3, <1>4

LEMMA CheckedBudgets ==
  ASSUME NEW j, Sound(j), NEW now \in Nat, NEW back \in BOOLEAN
  PROVE  SameBudgets(j, Checked(j, now, back))
<1> DEFINE seen == Seen(j, now)
<1> DEFINE timed == IF Exhausted(j, now) THEN Stopped(seen, "deadline")
                    ELSE IF back THEN Stopped(seen, "clock") ELSE seen
<1> DEFINE e == [Active(j).diagnostic EXCEPT !.status = "expired"]
<1>1. j \in JobState /\ j.scopes # << >> /\ e \in Diagnostic
  <2>1. Active(j).diagnostic \in Diagnostic
    BY ScopesType DEF Sound, Scope
  <2>2. QED
    BY <2>1 DEF Sound, Diagnostic
<1>2. SameBudgets(j, j) /\ SameBudgets(j, seen)
  BY <1>1, RelabelBudgets
<1>3. seen \in JobState /\ seen.scopes # << >>
  BY <1>2 DEF SameBudgets
<1>4. Checked(j, now, back) \in {j, timed, WithDiagnostic(timed, e)}
  BY DEF Checked
<1>5. {"deadline", "clock"} \subseteq StopKind
  BY DEF StopKind
<1> HIDE DEF seen, e
<1>6. SameBudgets(j, timed)
  <2>1. timed \in {seen, Stopped(seen, "deadline"), Stopped(seen, "clock")}
    OBVIOUS
  <2>2. SameBudgets(seen, timed)
    BY <1>3, <1>5, <2>1, RelabelBudgets
  <2> HIDE DEF timed
  <2>3. QED
    BY <1>1, <1>2, <2>2, SameBudgetsTwice
<1> HIDE DEF timed
<1>7. timed \in JobState /\ timed.scopes # << >>
  BY <1>6 DEF SameBudgets
<1>8. SameBudgets(timed, WithDiagnostic(timed, e))
  BY <1>1, <1>7, WithDiagnosticBudgets
<1>9. SameBudgets(j, WithDiagnostic(timed, e))
  BY <1>1, <1>6, <1>8, SameBudgetsTwice
<1>10. QED
  BY <1>2, <1>4, <1>6, <1>9

\* A save audits what it writes; one that need not leaves the history alone.
LEMMA SaveBudgets ==
  ASSUME JInv, BInv, NEW n, BudgetSound(n), Excused(job) => Excused(n), Save(n)
  PROVE  BInv'
<1>1. job' = n \/ job' = job
  BY DEF Save, Write
<1>2. BudgetSound(job')
  BY <1>1 DEF BInv
<1>3. overdrawn' = overdrawn /\ extended' = extended
  BY DEF Save, Audited, BudgetSound
<1>4. Excused(job) => Excused(job')
  BY <1>1
<1>5. QED
  BY <1>2, <1>3, <1>4 DEF BInv, BudgetsHold, Excused

LEMMA SaveSameBudgets ==
  ASSUME JInv, BInv, NEW n, SameBudgets(job, n), Save(n)
  PROVE  BInv'
<1>1. BudgetSound(n)
  BY SameBudgetsSound DEF JInv, Sound, BInv
<1>2. Excused(job) => Excused(n)
  BY <1>1, SameBudgetsExcused DEF JInv, Sound, BInv, BudgetSound
<1>3. QED
  BY <1>1, <1>2, SaveBudgets

\* What Sound and a chain of two updates give.
LEMMA BudgetsThen ==
  ASSUME NEW j, Sound(j), NEW m, NEW n, SameBudgets(j, m), SameBudgets(m, n)
  PROVE  SameBudgets(j, n)
BY SameBudgetsTwice DEF Sound

LEMMA CheckBudgets ==
  ASSUME JInv, BInv, NEW now \in Nat
  PROVE  /\ SameBudgets(job, Check(now)) /\ Sound(Check(now))
         /\ BudgetSound(Check(now)) /\ Touched(job, Check(now))
         /\ Excused(job) <=> Excused(Check(now))
<1>1. Backwards \in BOOLEAN
  BY DEF Backwards
<1>2. SameBudgets(job, Check(now))
  BY <1>1, CheckedBudgets DEF Check, JInv
<1>3. BudgetSound(Check(now))
  BY <1>2, SameBudgetsSound DEF JInv, Sound, BInv
<1>4. Excused(job) <=> Excused(Check(now))
  BY <1>2, <1>3, SameBudgetsExcused DEF JInv, Sound, BInv, BudgetSound
<1>5. QED
  BY <1>2, <1>3, <1>4, CheckSound

LEMMA DiagnosedCheckBudgets ==
  ASSUME JInv, BInv, NEW now \in Nat, Save(Diagnosed(Check(now)))
  PROVE  BInv'
<1>1. SameBudgets(Check(now), Diagnosed(Check(now)))
  BY CheckSound, DiagnosedBudgets
<1>2. SameBudgets(job, Diagnosed(Check(now)))
  BY <1>1, CheckBudgets, BudgetsThen DEF JInv
<1>3. QED
  BY <1>2, SaveSameBudgets

LEMMA FinishAttemptBudgets ==
  ASSUME JInv, BInv, NEW now \in Nat, NEW i \in Running(job), NEW end \in Outcome,
         FinishAttempt(i, end[1], end[2], now)
  PROVE  BInv'
<1> DEFINE ended == [job EXCEPT !.attempts[i].ended = now, !.attempts[i].status = end[1],
                                !.attempts[i].signature = end[2]]
<1> DEFINE c == Checked(ended, now, Backwards)
<1> DEFINE j == Settled(c, i, end[1])
<1> DEFINE s == Stopped(j, "repeated_failure")
<1>1. Save(Diagnosed(s)) \/ Save(Diagnosed(j)) \/ Save(j)
  BY DEF FinishAttempt
<1>2. SameBudgets(job, ended) /\ Sound(ended)
  <2> DEFINE a == [job.attempts[i] EXCEPT !.ended = now, !.status = end[1], !.signature = end[2]]
  <2>1. /\ job \in JobState /\ job.attempts \in Seq(Attempt)
        /\ i \in 1 .. Len(job.attempts) /\ DOMAIN job.attempts = 1 .. Len(job.attempts)
        /\ job.attempts[i] \in Attempt /\ job.attempts[i].status = "running"
    BY ScopesType DEF JInv, Sound, JobState, Running
  <2>2. /\ a.op = job.attempts[i].op /\ a.cycle = job.attempts[i].cycle /\ a.status = end[1]
        /\ end[1] # "running"
    <3>1. end[1] \in {"passed", "failed", "stopped"}
      BY RequestAssumption
    <3>2. /\ a.op = job.attempts[i].op /\ a.cycle = job.attempts[i].cycle
          /\ a.status = end[1]
      BY <2>1 DEF Attempt
    <3>3. QED
      BY <3>1, <3>2
  <2>3. ended = [job EXCEPT !.attempts = [job.attempts EXCEPT ![i] = a]]
    BY <2>1 DEF JobState
  <2>4. /\ Sound(ended) /\ ended.scopes = job.scopes
    BY EndedSound
  <2> HIDE DEF a
  <2>5. ended.attempts = [job.attempts EXCEPT ![i] = a] /\ ended.cycle = job.cycle
    BY <2>1, <2>3 DEF JobState
  <2> HIDE DEF ended
  <2>6. /\ DOMAIN ended.attempts = DOMAIN job.attempts
        /\ \A k \in DOMAIN job.attempts :
             ended.attempts[k] = IF k = i THEN a ELSE job.attempts[k]
    BY <2>1, <2>5
  <2>7. Len(ended.attempts) = Len(job.attempts)
    BY <2>1, <2>4, <2>6, ScopesType DEF Sound
  <2>8. job.cycle <= ended.cycle
    BY <2>1, <2>5 DEF JobState, LastCycle
  <2>9. QED
    BY <2>1, <2>2, <2>4, <2>6, <2>7, <2>8 DEF SameBudgets, Sound
<1> HIDE DEF ended
<1>3. SameBudgets(job, c) /\ Sound(c)
  <2>1. Backwards \in BOOLEAN
    BY DEF Backwards
  <2>2. SameBudgets(ended, c) /\ Sound(c)
    BY <1>2, <2>1, CheckedBudgets, CheckedSound
  <2> HIDE DEF c
  <2>3. QED
    BY <1>2, <2>2, BudgetsThen DEF JInv
<1> HIDE DEF c
<1>4. {"deadline", "interrupted", "repeated_failure"} \subseteq StopKind
  BY DEF StopKind
<1>5. SameBudgets(job, j) /\ Sound(j)
  <2>1. j \in {c, Stopped(c, "deadline"), Stopped(c, "interrupted")}
    BY DEF Settled
  <2>2. SameBudgets(c, j) /\ Sound(j)
    BY <1>3, <1>4, <2>1, RelabelBudgets, StoppedSound DEF Sound
  <2> HIDE DEF j
  <2>3. QED
    BY <1>3, <2>2, BudgetsThen DEF JInv
<1> HIDE DEF j
<1>6. SameBudgets(job, s) /\ Sound(s)
  <2>1. SameBudgets(j, s) /\ Sound(s)
    BY <1>4, <1>5, RelabelBudgets, StoppedSound DEF Sound
  <2> HIDE DEF s
  <2>2. QED
    BY <1>5, <2>1, BudgetsThen DEF JInv
<1> HIDE DEF s
<1>7. SameBudgets(job, Diagnosed(j)) /\ SameBudgets(job, Diagnosed(s))
  BY <1>5, <1>6, DiagnosedBudgets, BudgetsThen DEF JInv
<1>8. QED
  BY <1>1, <1>5, <1>7, SaveSameBudgets

\* The new attempt of a claim is the first of its operation in its cycle and in its
\* scope, or the retry of the one before, which failed.
LEMMA ClaimedBudgets ==
  ASSUME NEW j, Sound(j), BudgetSound(j), NEW op \in Op, NEW input \in Input, NEW now \in Nat,
         Running(j) = {}, ~OutOfScope(j, op), ~Overdrawn(j, op), Fresh(j, op, input)
  PROVE  BudgetSound(Claimed(j, op, input, now)) /\ Longer(j, Claimed(j, op, input, now))
<1> DEFINE a == [ op |-> op, input |-> input, cycle |-> j.cycle, status |-> "running",
                  signature |-> NoSignature, started |-> now, ended |-> 0 ]
<1> DEFINE n == Claimed(j, op, input, now)
<1> DEFINE made == Len(j.attempts)
<1> DEFINE last == Len(j.scopes)
<1>1. /\ j \in JobState /\ j.attempts \in Seq(Attempt) /\ made \in Nat
      /\ DOMAIN j.attempts = 1 .. made /\ last \in Nat \ {0}
      /\ DOMAIN j.scopes = 1 .. last /\ j.cycle \in Nat
      /\ \A k \in DOMAIN j.scopes : j.scopes[k].first \in Nat
  <2>1. j \in JobState /\ j.scopes # << >>
    BY DEF Sound
  <2>2. j.attempts \in Seq(Attempt) /\ j.cycle \in Nat
    BY <2>1 DEF JobState, LastCycle
  <2>3. \A k \in DOMAIN j.scopes : j.scopes[k].first \in Nat
    BY <2>1, ScopesType DEF Scope
  <2>4. QED
    BY <2>1, <2>2, <2>3, ScopesType
<1>2. a \in Attempt /\ a.op = op /\ a.cycle = j.cycle /\ a.status = "running"
  BY <1>1 DEF Attempt, JobState
<1> HIDE DEF a
<1>3. /\ Append(j.attempts, a) \in Seq(Attempt)
      /\ Len(Append(j.attempts, a)) = made + 1
      /\ \A i \in 1 .. made : Append(j.attempts, a)[i] = j.attempts[i]
      /\ Append(j.attempts, a)[made + 1] = a
  BY <1>1, <1>2, AppendProperties
<1>4. n.attempts = Append(j.attempts, a) /\ n.scopes = j.scopes /\ n.cycle = j.cycle
  <2>1. n = [j EXCEPT !.attempts = Append(j.attempts, a)]
    BY DEF Claimed, a
  <2>2. QED
    BY <1>1, <2>1 DEF JobState
<1>5. /\ DOMAIN n.attempts = 1 .. made + 1 /\ Len(n.attempts) = made + 1
      /\ \A i \in 1 .. made : n.attempts[i] = j.attempts[i]
      /\ n.attempts[made + 1] = a /\ made + 1 \notin 1 .. made
  BY <1>1, <1>3, <1>4, LenProperties
<1> HIDE DEF n
<1>6. \A o : Previous(n, o) = Previous(j, o) \cup (IF o = op THEN {made + 1} ELSE {})
  BY <1>1, <1>2, <1>5 DEF Previous
<1>7. \A k \in 1 .. last : j.scopes[k].first <= End(j, k) /\ End(j, k) <= made
  BY <1>1 DEF BudgetSound, WithinBudget, ScopesOrdered
<1>8. \A k \in 1 .. last : /\ End(n, k) = IF k = last THEN made + 1 ELSE End(j, k)
                           /\ End(j, k) \in Int
                           /\ k = last => End(j, k) = made
  <2> SUFFICES ASSUME NEW k \in 1 .. last
               PROVE  /\ End(n, k) = IF k = last THEN made + 1 ELSE End(j, k)
                      /\ End(j, k) \in Int /\ (k = last => End(j, k) = made)
    OBVIOUS
  <2>1. CASE k = last
    BY <1>1, <1>4, <1>5, <2>1 DEF End
  <2>2. CASE k # last
    <3>1. k + 1 \in DOMAIN j.scopes
      BY <1>1, <2>2
    <3>2. QED
      BY <1>1, <1>4, <2>2, <3>1 DEF End
  <2>3. QED
    BY <2>1, <2>2
<1>9. \A k \in 1 .. last : \A o :
        ScopeWork(n, k, o) = ScopeWork(j, k, o)
                               \cup (IF k = last /\ o = op THEN {made + 1} ELSE {})
  <2> SUFFICES ASSUME NEW k \in 1 .. last, NEW o, NEW i
               PROVE  i \in ScopeWork(n, k, o) <=>
                        \/ i \in ScopeWork(j, k, o)
                        \/ k = last /\ o = op /\ i = made + 1
    BY Zenon
  <2>1. j.scopes[k].first \in Nat /\ n.scopes[k].first = j.scopes[k].first
    BY <1>1, <1>4
  <2>2. CASE i = made + 1
    <3>1. i \notin ScopeWork(j, k, o)
      BY <1>1, <2>2 DEF ScopeWork, Previous
    <3>2. i \in Previous(n, o) <=> o = op
      BY <1>2, <1>5, <2>2, <1>1 DEF Previous
    <3>3. j.scopes[k].first < i
      BY <1>1, <1>7, <1>8, <2>1, <2>2
    <3>4. i <= End(n, k) <=> k = last
      BY <1>1, <1>7, <1>8, <2>2
    <3>5. QED
      BY <2>1, <2>2, <3>1, <3>2, <3>3, <3>4 DEF ScopeWork
  <2>3. CASE i # made + 1
    <3>1. i \in Previous(n, o) <=> i \in Previous(j, o)
      BY <1>6, <2>3
    <3>2. ASSUME i \in Previous(j, o)
          PROVE  i <= End(n, k) <=> i <= End(j, k)
      <4>1. i \in 1 .. made
        BY <1>1, <3>2 DEF Previous
      <4>2. QED
        BY <1>1, <1>8, <4>1
    <3>3. QED
      BY <2>1, <2>3, <3>1, <3>2 DEF ScopeWork
  <2>4. QED
    BY <2>2, <2>3
<1>10. ScopesOrdered(n)
  <2> SUFFICES ASSUME NEW k \in 1 .. last
               PROVE  n.scopes[k].first <= End(n, k) /\ End(n, k) <= made + 1
    BY <1>1, <1>4, <1>5 DEF ScopesOrdered
  <2>1. j.scopes[k].first \in Nat /\ n.scopes[k].first = j.scopes[k].first
    BY <1>1, <1>4
  <2>2. QED
    BY <1>1, <1>7, <1>8, <2>1
<1>11. OneAttempt(n)
  <2>1. \A i \in 1 .. made : n.attempts[i].status # "running"
    BY <1>1, <1>5 DEF Running
  <2>2. Running(n) = {made + 1}
    BY <1>1, <1>2, <1>5, <2>1 DEF Running
  <2>3. Cardinality({made + 1}) = 1
    BY FS_Singleton
  <2>4. QED
    BY <2>2, <2>3 DEF OneAttempt
<1>12. CyclesCounted(n)
  <2> SUFFICES ASSUME NEW i \in 1 .. made + 1
               PROVE  n.attempts[i].cycle <= j.cycle
    BY <1>4, <1>5 DEF CyclesCounted
  <2>1. CASE i = made + 1
    BY <1>1, <1>2, <1>5, <2>1
  <2>2. CASE i # made + 1
    <3>1. i \in 1 .. made
      BY <1>1, <2>2
    <3>2. QED
      BY <1>1, <1>5, <3>1 DEF BudgetSound, WithinBudget, CyclesCounted
  <2>3. QED
    BY <2>1, <2>2
<1>13. LifetimeBudget(n)
  <2> SUFFICES ASSUME NEW o \in Op
               PROVE  Cardinality(Previous(n, o)) <= Limit(o)
    BY DEF LifetimeBudget
  <2>1. CASE o # op
    BY <1>6, <2>1 DEF BudgetSound, WithinBudget, LifetimeBudget
  <2>2. CASE o = op
    <3>1. IsFiniteSet(Previous(j, op)) /\ made + 1 \notin Previous(j, op)
      <4>1. Previous(j, op) \subseteq 1 .. made
        BY <1>1 DEF Previous
      <4>2. j \in JobState /\ j.scopes # << >>
        BY DEF Sound
      <4>3. IsFiniteSet(Previous(j, op))
        BY <4>2, RunningFinite
      <4>4. QED
        BY <1>5, <4>1, <4>3
    <3>2. Cardinality(Previous(n, op)) = Cardinality(Previous(j, op)) + 1
      BY <1>6, <3>1, FS_AddElement
    <3>3. ~(Cardinality(Previous(j, op)) >= Limit(op)) /\ Limit(op) \in Nat
      BY DEF Overdrawn, Limit, RoutingLimit, OperationLimit
    <3>4. Cardinality(Previous(j, op)) \in Nat
      BY <3>1, FS_CardinalityType
    <3>5. QED
      BY <2>2, <3>2, <3>3, <3>4
  <2>3. QED
    BY <2>1, <2>2
<1>14. RetriesSound(j)
  BY DEF BudgetSound
<1>15. CycleBudget(n)
  <2> SUFFICES ASSUME NEW o \in BuildOp, NEW i1 \in Previous(n, o), NEW i2 \in Previous(n, o),
                      i1 < i2, n.attempts[i1].cycle = n.attempts[i2].cycle,
                      \A i \in Previous(n, o) : i <= i1 \/ i2 <= i
               PROVE  /\ n.attempts[i1].status = "failed"
                      /\ \E k \in 2 .. Len(n.scopes) :
                           /\ n.scopes[k].first < i2 /\ i2 <= End(n, k)
                           /\ i1 \in n.scopes[k].retry /\ n.scopes[k].resolution
    BY DEF CycleBudget
  <2>1. i1 \in 1 .. made + 1 /\ i2 \in 1 .. made + 1 /\ i1 \in 1 .. made
    <3>1. i1 \in 1 .. made + 1 /\ i2 \in 1 .. made + 1
      BY <1>5 DEF Previous
    <3>2. QED
      BY <1>1, <3>1
  <2>2. i1 \in Previous(j, o) /\ n.attempts[i1] = j.attempts[i1]
    BY <1>5, <1>6, <2>1
  <2>3. CASE i2 # made + 1
    <3>1. i2 \in 1 .. made /\ i2 \in Previous(j, o) /\ n.attempts[i2] = j.attempts[i2]
      BY <1>1, <1>5, <1>6, <2>1, <2>3
    <3>2. \A i \in Previous(j, o) : i <= i1 \/ i2 <= i
      BY <1>6
    <3>3. CycleBudget(j)
      BY DEF BudgetSound, WithinBudget
    <3>4. /\ j.attempts[i1].status = "failed"
          /\ \E k \in 2 .. Len(j.scopes) :
               /\ j.scopes[k].first < i2 /\ i2 <= End(j, k)
               /\ i1 \in j.scopes[k].retry /\ j.scopes[k].resolution
      BY <2>2, <3>1, <3>2, <3>3 DEF CycleBudget
    <3>5. PICK k \in 2 .. last : /\ j.scopes[k].first < i2 /\ i2 <= End(j, k)
                                 /\ i1 \in j.scopes[k].retry /\ j.scopes[k].resolution
      BY <3>4
    <3>6. k \in 1 .. last
      BY <1>1
    <3>7. i2 <= End(n, k)
      BY <1>1, <1>8, <3>1, <3>5, <3>6
    <3>8. QED
      BY <1>4, <2>2, <3>4, <3>5, <3>7
  <2>4. CASE i2 = made + 1
    <3>1. o = op /\ n.attempts[i2].cycle = j.cycle
      BY <1>1, <1>2, <1>5, <1>6, <2>4 DEF Previous
    <3>2. i1 \in Latest(Previous(j, op))
      <4>1. ASSUME NEW i \in Previous(j, op)
            PROVE  i <= i1
        <5>1. i \in 1 .. made
          BY <1>1 DEF Previous
        <5>2. i <= i1 \/ i2 <= i
          BY <1>6, <3>1
        <5>3. QED
          BY <1>1, <2>4, <5>1, <5>2
      <4>2. QED
        BY <2>2, <3>1, <4>1 DEF Latest
    <3>3. Continued(j) /\ Retried(j, i1)
      BY <2>2, <3>1, <3>2 DEF Fresh
    <3>4. /\ j.attempts[i1].status = "failed" /\ i1 \in j.scopes[last].retry
          /\ last \in 2 .. last
      BY <1>1, <3>3 DEF Continued, Retried, Active
    <3>5. j.scopes[last].resolution
      BY <1>1, <1>14, <3>4 DEF RetriesSound
    <3>6. j.scopes[last].first < i2 /\ i2 <= End(n, last)
      BY <1>1, <1>7, <1>8, <2>4
    <3>7. QED
      BY <1>4, <2>2, <3>4, <3>5, <3>6
  <2>5. QED
    BY <2>3, <2>4
<1>16. ScopeBudget(n)
  <2> SUFFICES ASSUME NEW k \in 2 .. Len(n.scopes), NEW o \in BuildOp
               PROVE  /\ ScopeWork(n, k, o) # {} => o \in n.scopes[k].builds
                      /\ \A i1, i2 \in ScopeWork(n, k, o) : i1 < i2 =>
                           /\ ScopeWork(n, k, o) = {i1, i2}
                           /\ n.attempts[i1].status = "failed" /\ i1 \in n.scopes[k].retry
    BY DEF ScopeBudget
  <2>0. k \in 2 .. last /\ n.scopes[k] = j.scopes[k]
    BY <1>4
  <2>1. /\ ScopeWork(j, k, o) # {} => o \in j.scopes[k].builds
        /\ \A i1, i2 \in ScopeWork(j, k, o) : i1 < i2 =>
             /\ ScopeWork(j, k, o) = {i1, i2}
             /\ j.attempts[i1].status = "failed" /\ i1 \in j.scopes[k].retry
    BY <2>0 DEF BudgetSound, WithinBudget, ScopeBudget
  <2>2. k \in 1 .. last /\ ScopeWork(j, k, o) \subseteq 1 .. made
    BY <1>1, <2>0 DEF ScopeWork, Previous
  <2>3. CASE ~(k = last /\ o = op)
    <3>1. ScopeWork(n, k, o) = ScopeWork(j, k, o) \cup {}
      BY <1>9, <2>2, <2>3, Zenon
    <3>2. QED
      BY <1>5, <2>0, <2>1, <2>2, <3>1
  <2>4. CASE k = last /\ o = op
    <3>1. Continued(j) /\ Active(j) = j.scopes[k]
      BY <1>1, <2>0, <2>4 DEF Continued, Active
    <3>2. o \in j.scopes[k].builds
      BY <2>4, <3>1 DEF OutOfScope
    <3>3. \A i \in Latest(ScopeWork(j, k, o)) :
            j.attempts[i].status = "failed" /\ i \in j.scopes[k].retry
      BY <2>4, <3>1 DEF Overdrawn, ScopeSpent, Retried
    <3>4. ASSUME NEW i \in ScopeWork(j, k, o)
          PROVE  ScopeWork(j, k, o) = {i}
      <4>1. ASSUME NEW i1 \in ScopeWork(j, k, o), NEW i2 \in ScopeWork(j, k, o), i1 < i2
            PROVE  FALSE
        <5>1. /\ ScopeWork(j, k, o) = {i1, i2} /\ i1 \in j.scopes[k].retry
          BY <2>1, <4>1
        <5>2. i2 \in Latest(ScopeWork(j, k, o))
          BY <2>2, <4>1, <5>1 DEF Latest
        <5>3. i2 \in j.scopes[k].retry /\ j.attempts[i1].op = j.attempts[i2].op
          BY <3>3, <4>1, <5>2 DEF ScopeWork, Previous
        <5>4. i1 = i2
          BY <1>1, <1>14, <2>2, <5>1, <5>3 DEF RetriesSound
        <5>5. QED
          BY <2>2, <4>1, <5>4
      <4>2. \A i2 \in ScopeWork(j, k, o) : i2 = i
        BY <2>2, <4>1
      <4>3. QED
        BY <4>2
    <3>5. ScopeWork(n, k, o) = ScopeWork(j, k, o) \cup {made + 1}
      BY <1>9, <2>2, <2>4
    <3>6. ASSUME NEW i1 \in ScopeWork(n, k, o), NEW i2 \in ScopeWork(n, k, o), i1 < i2
          PROVE  /\ ScopeWork(n, k, o) = {i1, i2}
                 /\ n.attempts[i1].status = "failed" /\ i1 \in j.scopes[k].retry
      <4>1. i1 \in ScopeWork(j, k, o) /\ i1 \in 1 .. made
        BY <1>1, <2>2, <3>5, <3>6
      <4>2. ScopeWork(j, k, o) = {i1}
        BY <3>4, <4>1
      <4>3. i2 = made + 1
        BY <1>1, <3>5, <3>6, <4>1, <4>2
      <4>4. i1 \in Latest(ScopeWork(j, k, o))
        BY <4>1, <4>2 DEF Latest
      <4>5. QED
        BY <1>5, <3>3, <3>5, <4>1, <4>2, <4>3, <4>4
    <3>7. QED
      BY <2>0, <3>2, <3>6
  <2>5. QED
    BY <2>3, <2>4
<1>17. RetriesSound(n)
  <2> SUFFICES ASSUME NEW k \in DOMAIN j.scopes
               PROVE  /\ j.scopes[k].retry \subseteq DOMAIN n.attempts
                      /\ j.scopes[k].retry # {} => j.scopes[k].resolution
                      /\ \A i1, i2 \in j.scopes[k].retry :
                           n.attempts[i1].op = n.attempts[i2].op => i1 = i2
    BY <1>4 DEF RetriesSound
  <2>1. /\ j.scopes[k].retry \subseteq 1 .. made
        /\ j.scopes[k].retry # {} => j.scopes[k].resolution
        /\ \A i1, i2 \in j.scopes[k].retry : j.attempts[i1].op = j.attempts[i2].op => i1 = i2
    BY <1>1, <1>14 DEF RetriesSound
  <2>2. 1 .. made \subseteq 1 .. made + 1
    BY <1>1
  <2>3. QED
    BY <1>5, <2>1, <2>2
<1>18. Longer(j, n)
  <2>1. \A k \in 1 .. last : \A o : ScopeWork(j, k, o) \subseteq ScopeWork(n, k, o)
    BY <1>9
  <2>2. QED
    BY <1>1, <1>4, <1>5, <2>1 DEF Longer
<1>19. QED
  BY <1>10, <1>11, <1>12, <1>13, <1>15, <1>16, <1>17, <1>18 DEF BudgetSound, WithinBudget, n

LEMMA ClaimBudgets ==
  ASSUME JInv, BInv, NEW now \in Nat, NEW op \in Op, NEW input \in Input, Claim(op, input, now)
  PROVE  BInv'
<1> DEFINE j == Check(now)
<1>1. Sound(j) /\ BudgetSound(j) /\ (Excused(job) => Excused(j))
  BY CheckBudgets
<1>2. /\ Running(j) = {} /\ ~OutOfScope(j, op) /\ ~Overdrawn(j, op) /\ Fresh(j, op, input)
      /\ Save(Claimed(j, op, input, now))
  BY DEF Claim, MayClaim
<1> HIDE DEF j
<1>3. BudgetSound(Claimed(j, op, input, now)) /\ Longer(j, Claimed(j, op, input, now))
  BY <1>1, <1>2, ClaimedBudgets
<1>4. Excused(job) => Excused(Claimed(j, op, input, now))
  BY <1>1, <1>3, LongerExcused DEF BudgetSound
<1>5. QED
  BY <1>2, <1>3, <1>4, SaveBudgets

LEMMA CorrectBudgets ==
  ASSUME JInv, BInv, NEW now \in Nat, NEW escalation \in BOOLEAN, Correct(escalation, now)
  PROVE  BInv'
<1> DEFINE j == Check(now)
<1> DEFINE n == [j EXCEPT !.cycle = @ + 1, !.escalations = IF escalation THEN @ + 1 ELSE @]
<1>1. SameBudgets(job, j) /\ j \in JobState /\ j.scopes # << >>
  BY CheckBudgets DEF Sound
<1>2. ~CorrectionSpent(j, escalation) /\ Save(n)
  BY DEF Correct
<1> HIDE DEF j
<1>3. /\ j.cycle \in 0 .. LastCycle /\ j.cycle # LastCycle
      /\ j.escalations \in 0 .. EscalationLimit /\ (escalation => j.escalations # EscalationLimit)
  BY <1>1, <1>2 DEF CorrectionSpent, JobState
<1>4. /\ j.cycle + 1 \in 0 .. LastCycle /\ j.cycle <= j.cycle + 1
      /\ (IF escalation THEN j.escalations + 1 ELSE j.escalations) \in 0 .. EscalationLimit
  BY <1>3 DEF LastCycle, EscalationLimit
<1>5. /\ n \in JobState /\ n.attempts = j.attempts /\ n.scopes = j.scopes
      /\ n.cycle = j.cycle + 1
  BY <1>1, <1>4 DEF JobState
<1> HIDE DEF n
<1>6. SameBudgets(j, n)
  BY <1>1, <1>4, <1>5, SameWorkBudgets
<1>7. SameBudgets(job, n)
  BY <1>1, <1>6, BudgetsThen DEF JInv
<1>8. QED
  BY <1>2, <1>7, SaveSameBudgets

LEMMA BeginDiagnosticBudgets ==
  ASSUME JInv, BInv, NEW now \in Nat, BeginDiagnostic(now)
  PROVE  BInv'
<1> DEFINE j == Diagnosed(job)
<1> DEFINE d == [Active(j).diagnostic EXCEPT !.status = "reviewing", !.deadline = ReviewEnd(now)]
<1> DEFINE n == WithDiagnostic(j, d)
<1>1. Sound(j) /\ SameBudgets(job, j)
  BY DiagnosedSound, DiagnosedBudgets DEF JInv
<1>2. Save(Seen(n, now)) /\ ReviewEnd(now) \in now + 1 .. now + Window
  BY DEF BeginDiagnostic
<1>3. d \in Diagnostic
  <2>1. ReviewEnd(now) \in Nat
    BY <1>2, LedgerAssumption
  <2>2. Active(j).diagnostic \in Diagnostic
    BY <1>1, ScopesType DEF Sound, Scope
  <2>3. QED
    BY <2>1, <2>2 DEF Diagnostic
<1> HIDE DEF d, j
<1>4. SameBudgets(j, n)
  BY <1>1, <1>3, WithDiagnosticBudgets DEF Sound
<1> HIDE DEF n
<1>5. SameBudgets(job, n) /\ SameBudgets(n, Seen(n, now))
  BY <1>1, <1>4, BudgetsThen, RelabelBudgets DEF JInv, SameBudgets
<1>6. SameBudgets(job, Seen(n, now))
  BY <1>5, BudgetsThen DEF JInv
<1>7. QED
  BY <1>2, <1>6, SaveSameBudgets

LEMMA CompleteDiagnosticBudgets ==
  ASSUME JInv, BInv, NEW now \in Nat, NEW action \in Action, CompleteDiagnostic(action, now)
  PROVE  BInv'
<1> DEFINE d == Active(job).diagnostic
<1> DEFINE e == [d EXCEPT !.status = "expired"]
<1> DEFINE f == [d EXCEPT !.status = "complete", !.action = action]
<1>1. e \in Diagnostic /\ f \in Diagnostic
  <2>1. d \in Diagnostic
    BY ScopesType DEF JInv, Sound, Scope
  <2>2. QED
    BY <2>1 DEF Diagnostic
<1>2. \/ Save(WithDiagnostic(job, e))
      \/ Save(Seen(WithDiagnostic(job, f), now))
      \/ Save(Seen(job, now))
  BY DEF CompleteDiagnostic
<1> HIDE DEF e, f
<1>3. /\ SameBudgets(job, job) /\ SameBudgets(job, WithDiagnostic(job, e))
      /\ SameBudgets(job, WithDiagnostic(job, f))
  BY <1>1, RelabelBudgets, WithDiagnosticBudgets DEF JInv, Sound
<1>4. ASSUME NEW n, SameBudgets(job, n)
      PROVE  SameBudgets(job, Seen(n, now))
  <2>1. SameBudgets(n, Seen(n, now))
    BY <1>4, RelabelBudgets DEF SameBudgets
  <2>2. QED
    BY <1>4, <2>1, BudgetsThen DEF JInv
<1>5. QED
  BY <1>2, <1>3, <1>4, SaveSameBudgets

LEMMA FinishBudgets ==
  ASSUME JInv, BInv, NEW now \in Nat, Finish(now)
  PROVE  BInv'
<1> DEFINE j == Check(now)
<1> DEFINE n == [j EXCEPT !.status = "finished", !.stopKind = "finished"]
<1>1. SameBudgets(job, j) /\ j \in JobState /\ j.scopes # << >> /\ Save(n)
  BY CheckBudgets DEF Sound, Finish
<1> HIDE DEF j
<1>2. n \in JobState /\ n.attempts = j.attempts /\ n.scopes = j.scopes /\ n.cycle = j.cycle
  BY <1>1 DEF JobState, StopKind
<1>3. j.cycle <= n.cycle
  BY <1>1, <1>2 DEF JobState, LastCycle
<1> HIDE DEF n
<1>4. SameBudgets(job, n)
  BY <1>1, <1>2, <1>3, SameWorkBudgets, BudgetsThen DEF JInv
<1>5. QED
  BY <1>1, <1>4, SaveSameBudgets

LEMMA CancelBudgets ==
  ASSUME JInv, BInv, Cancel
  PROVE  BInv'
<1>1. SameBudgets(job, Stopped(job, "cancelled"))
  BY RelabelBudgets DEF StopKind, JInv, Sound
<1>2. QED
  BY <1>1, SaveSameBudgets DEF Cancel

LEMMA ResumeBudgets ==
  ASSUME JInv, BInv, NEW now \in Nat, Resume(now)
  PROVE  BInv'
<1> DEFINE a == [job EXCEPT !.status = "active"]
<1> DEFINE j == Checked(a, now, Backwards)
<1> DEFINE n == [j EXCEPT !.stopKind = ""]
<1>1. /\ a \in JobState /\ a.attempts = job.attempts /\ a.scopes = job.scopes
      /\ a.cycle = job.cycle /\ job.cycle <= a.cycle
  BY DEF JInv, TypeOK, JobState, LastCycle
<1>2. Save(IF j.status = "active" THEN n ELSE j)
  BY DEF Resume
<1> HIDE DEF a
<1>3. Sound(a) /\ SameBudgets(job, a)
  BY <1>1, SameWorkSound, SameWorkBudgets DEF JInv, Sound
<1>4. SameBudgets(a, j)
  <2>1. Backwards \in BOOLEAN
    BY DEF Backwards
  <2>2. QED
    BY <1>3, <2>1, CheckedBudgets
<1> HIDE DEF j
<1>5. SameBudgets(job, j)
  BY <1>3, <1>4, BudgetsThen DEF JInv
<1>6. j \in JobState /\ j.scopes # << >>
  BY <1>5 DEF SameBudgets
<1>7. n \in JobState /\ n.attempts = j.attempts /\ n.scopes = j.scopes /\ n.cycle = j.cycle
  BY <1>6 DEF JobState, StopKind
<1> HIDE DEF n
<1>8. j.cycle <= n.cycle
  <2>1. j.cycle \in Int
    BY <1>6 DEF JobState, LastCycle
  <2>2. QED
    BY <1>7, <2>1
<1>9. SameBudgets(job, n)
  BY <1>5, <1>6, <1>7, <1>8, SameWorkBudgets, BudgetsThen DEF JInv
<1>10. QED
  BY <1>2, <1>5, <1>9, SaveSameBudgets

\* A user's extension of the active scope that stays within the budgets.
LEMMA ExtendBudgets ==
  ASSUME JInv, BInv, NEW n, BudgetSound(n), NEW kind, Extend(kind, n),
         "annotation" \in overdrawn /\ Excused(job) => Excused(n)
  PROVE  BInv'
<1>1. job' = job \/ job' = n
  BY DEF Extend, Write
<1>2. BudgetSound(job')
  BY <1>1 DEF BInv
<1>3. overdrawn' = overdrawn /\ extended \subseteq extended'
  BY DEF Extend, Audited, BudgetSound
<1>4. "annotation" \in overdrawn => Excused(job')
  BY <1>1 DEF BInv, BudgetsHold, Excused
<1>5. QED
  BY <1>2, <1>3, <1>4 DEF BInv, BudgetsHold, Excused

\* A local correction adds operations to the active scope and changes nothing else.
LEMMA AddLocalCorrectionBudgets ==
  ASSUME JInv, BInv, NEW now \in Nat, AddLocalCorrection(now)
  PROVE  BInv'
<1> DEFINE j == Check(now)
<1> DEFINE s == [Active(j) EXCEPT !.builds = @ \cup LocalOp]
<1> DEFINE n == WithActive(j, s)
<1> DEFINE last == Len(j.scopes)
<1>1. /\ Sound(j) /\ BudgetSound(j) /\ SameBudgets(job, j) /\ Extend("local", n)
  BY CheckBudgets DEF AddLocalCorrection, LocalExtension
<1> HIDE DEF j
<1>2. /\ j \in JobState /\ j.scopes \in Seq(Scope) /\ last \in 1 .. Len(j.scopes)
      /\ DOMAIN j.scopes = 1 .. Len(j.scopes) /\ Active(j) \in Scope /\ j.cycle \in Int
  BY <1>1, ScopesType DEF Sound, JobState, LastCycle
<1>3. /\ s \in Scope /\ s.first = Active(j).first /\ Active(j).builds \subseteq s.builds
      /\ s.retry = Active(j).retry /\ s.resolution = Active(j).resolution
  BY <1>2, LedgerAssumption DEF Scope
<1> HIDE DEF s
<1>4. /\ [j.scopes EXCEPT ![last] = s] \in Seq(Scope)
      /\ Len([j.scopes EXCEPT ![last] = s]) = Len(j.scopes)
  BY <1>2, <1>3, ExceptSeq
<1>5. /\ n \in JobState /\ n.attempts = j.attempts /\ n.cycle = j.cycle
      /\ n.scopes = [j.scopes EXCEPT ![last] = s]
  BY <1>2, <1>4 DEF JobState, WithActive
<1> HIDE DEF n
<1>6. /\ n.scopes # << >> /\ Len(n.scopes) = Len(j.scopes)
      /\ \A k \in DOMAIN j.scopes : n.scopes[k] = IF k = last THEN s ELSE j.scopes[k]
  BY <1>2, <1>4, <1>5, EmptySeq
<1>7. \A k \in DOMAIN j.scopes :
        /\ n.scopes[k].first = j.scopes[k].first
        /\ j.scopes[k].builds \subseteq n.scopes[k].builds
        /\ n.scopes[k].retry = j.scopes[k].retry
        /\ n.scopes[k].resolution = j.scopes[k].resolution
  BY <1>3, <1>6 DEF Active
<1>8. SameBudgets(j, n)
  BY <1>2, <1>5, <1>6, <1>7 DEF SameBudgets
<1>9. SameBudgets(job, n)
  BY <1>1, <1>8, BudgetsThen DEF JInv
<1>10. BudgetSound(n)
  BY <1>9, SameBudgetsSound DEF JInv, Sound, BInv
<1>11. Excused(job) => Excused(n)
  BY <1>9, <1>10, SameBudgetsExcused DEF JInv, Sound, BInv, BudgetSound
<1>12. QED
  BY <1>1, <1>10, <1>11, ExtendBudgets

\* What an annotation completion makes of the ledger.
LEMMA AnnotationShape ==
  ASSUME NEW j, Sound(j), Active(j).resolution, Cardinality(Previous(j, Edit)) = 1
  PROVE  LET n == AnnotationExtension(j) IN
         /\ n.attempts = j.attempts /\ n.cycle = j.cycle
         /\ Len(n.scopes) = Len(j.scopes) /\ DOMAIN n.scopes = DOMAIN j.scopes
         /\ \A k \in DOMAIN j.scopes :
              /\ n.scopes[k].first = j.scopes[k].first
              /\ n.scopes[k].builds = j.scopes[k].builds
              /\ n.scopes[k].resolution = j.scopes[k].resolution
              /\ k # Len(j.scopes) => n.scopes[k] = j.scopes[k]
              /\ k = Len(j.scopes) => n.scopes[k].retry = Previous(j, Edit) /\ n.scopes[k].resolution
         /\ \E x : Previous(j, Edit) = {x}
<1> DEFINE s == [Active(j) EXCEPT !.retry = Previous(j, Edit), !.diagnostic = NoDiagnostic]
<1> DEFINE last == Len(j.scopes)
<1> DEFINE n == AnnotationExtension(j)
<1>1. /\ j \in JobState /\ j.scopes \in Seq(Scope) /\ last \in DOMAIN j.scopes
      /\ DOMAIN j.scopes = 1 .. last /\ last \in Nat /\ Active(j) \in Scope
  BY ScopesType DEF Sound, JobState
<1>2. /\ s.retry = Previous(j, Edit) /\ s.resolution = Active(j).resolution
      /\ s.first = Active(j).first /\ s.builds = Active(j).builds
  BY <1>1 DEF Scope
<1> HIDE DEF s
<1>3. n = [j EXCEPT !.scopes = [j.scopes EXCEPT ![last] = s]]
  BY DEF AnnotationExtension, WithActive, s
<1>4. n.attempts = j.attempts /\ n.cycle = j.cycle /\ n.scopes = [j.scopes EXCEPT ![last] = s]
  BY <1>1, <1>3 DEF JobState
<1> HIDE DEF n
<1>5. /\ Len(n.scopes) = Len(j.scopes) /\ DOMAIN n.scopes = DOMAIN j.scopes
      /\ \A k \in DOMAIN j.scopes : n.scopes[k] = IF k = last THEN s ELSE j.scopes[k]
  BY <1>1, <1>4
<1>6. \E x : Previous(j, Edit) = {x}
  <2>1. IsFiniteSet(Previous(j, Edit))
    BY <1>1, RunningFinite DEF Sound
  <2>2. QED
    BY <2>1, FS_Singleton
<1>7. QED
  BY <1>2, <1>4, <1>5, <1>6 DEF Active, n

\* It is over the budgets only when the scope has spent another operation's retry.
LEMMA AnnotationBudgets ==
  ASSUME NEW j, Sound(j), BudgetSound(j), Active(j).resolution,
         Cardinality(Previous(j, Edit)) = 1, ~Excused(j)
  PROVE  WithinBudget(AnnotationExtension(j))
<1> DEFINE n == AnnotationExtension(j)
<1> DEFINE last == Len(j.scopes)
<1>1. /\ last \in Nat \ {0} /\ DOMAIN j.scopes = 1 .. last
      /\ DOMAIN j.attempts = 1 .. Len(j.attempts) /\ Len(j.attempts) \in Nat
  BY ScopesType DEF Sound
<1>2. /\ n.attempts = j.attempts /\ n.cycle = j.cycle
      /\ Len(n.scopes) = last /\ DOMAIN n.scopes = DOMAIN j.scopes
      /\ \A k \in DOMAIN j.scopes :
           /\ n.scopes[k].first = j.scopes[k].first
           /\ n.scopes[k].builds = j.scopes[k].builds
           /\ n.scopes[k].resolution = j.scopes[k].resolution
           /\ k # last => n.scopes[k] = j.scopes[k]
      /\ \E x : Previous(j, Edit) = {x}
  BY AnnotationShape
<1> HIDE DEF n
<1>3. \A k \in DOMAIN j.scopes : End(n, k) = End(j, k)
  BY <1>1, <1>2 DEF End
<1>4. \A op : Previous(n, op) = Previous(j, op)
  BY <1>2 DEF Previous
<1>5. \A k \in DOMAIN j.scopes : \A op : ScopeWork(n, k, op) = ScopeWork(j, k, op)
  BY <1>2, <1>3, <1>4 DEF ScopeWork
\* In the active scope no attempt relied on a retry: the one edit did not, and no
\* other retry is spent.
<1>6. ASSUME NEW op, NEW i1 \in Previous(j, op), NEW i2 \in ScopeWork(j, last, op), i1 < i2,
             i1 \in j.scopes[last].retry
      PROVE  FALSE
  <2>1. i2 \in Previous(j, op) /\ j.attempts[i1].op = op /\ i1 \in Nat
    BY <1>1, <1>6 DEF ScopeWork, Previous
  <2>2. CASE op = Edit
    <3>1. i1 = i2
      BY <1>2, <1>6, <2>1, <2>2
    <3>2. QED
      BY <1>6, <2>1, <3>1
  <2>3. CASE op # Edit
    <3>1. RetrySpent(j, last)
      BY <1>6, <2>1, <2>3 DEF RetrySpent
    <3>2. QED
      BY <1>1, <3>1 DEF Excused
  <2>4. QED
    BY <2>2, <2>3
<1>7. /\ ScopesOrdered(j) /\ OneAttempt(j) /\ CyclesCounted(j) /\ LifetimeBudget(j)
      /\ CycleBudget(j) /\ ScopeBudget(j)
  BY DEF BudgetSound, WithinBudget
<1>8. ScopesOrdered(n) /\ OneAttempt(n) /\ CyclesCounted(n) /\ LifetimeBudget(n)
  BY <1>2, <1>3, <1>4, <1>7 DEF ScopesOrdered, OneAttempt, Running, CyclesCounted, LifetimeBudget
<1>9. CycleBudget(n)
  <2> SUFFICES ASSUME NEW op \in BuildOp, NEW i1 \in Previous(n, op), NEW i2 \in Previous(n, op),
                      i1 < i2, n.attempts[i1].cycle = n.attempts[i2].cycle,
                      \A i \in Previous(n, op) : i <= i1 \/ i2 <= i
               PROVE  /\ n.attempts[i1].status = "failed"
                      /\ \E k \in 2 .. Len(n.scopes) :
                           /\ n.scopes[k].first < i2 /\ i2 <= End(n, k)
                           /\ i1 \in n.scopes[k].retry /\ n.scopes[k].resolution
    BY DEF CycleBudget
  <2>1. /\ i1 \in Previous(j, op) /\ i2 \in Previous(j, op)
        /\ j.attempts[i1].cycle = j.attempts[i2].cycle
        /\ \A i \in Previous(j, op) : i <= i1 \/ i2 <= i
    BY <1>2, <1>4
  <2>2. /\ j.attempts[i1].status = "failed"
        /\ \E k \in 2 .. last :
             /\ j.scopes[k].first < i2 /\ i2 <= End(j, k)
             /\ i1 \in j.scopes[k].retry /\ j.scopes[k].resolution
    BY <1>7, <2>1 DEF CycleBudget
  <2>3. PICK k \in 2 .. last :
          /\ j.scopes[k].first < i2 /\ i2 <= End(j, k)
          /\ i1 \in j.scopes[k].retry /\ j.scopes[k].resolution
    BY <2>2
  <2>4. k \in DOMAIN j.scopes /\ k \in 2 .. Len(n.scopes)
    BY <1>1, <1>2
  <2>5. k # last
    <3>1. i2 \in ScopeWork(j, k, op)
      BY <2>1, <2>3 DEF ScopeWork
    <3>2. QED
      BY <1>6, <2>1, <2>3, <3>1
  <2>6. n.scopes[k] = j.scopes[k] /\ End(n, k) = End(j, k)
    BY <1>2, <1>3, <2>4, <2>5
  <2>7. QED
    BY <1>2, <2>2, <2>3, <2>4, <2>6
<1>10. ScopeBudget(n)
  <2> SUFFICES ASSUME NEW k \in 2 .. Len(n.scopes), NEW op \in BuildOp
               PROVE  /\ ScopeWork(n, k, op) # {} => op \in n.scopes[k].builds
                      /\ \A i1, i2 \in ScopeWork(n, k, op) : i1 < i2 =>
                           /\ ScopeWork(n, k, op) = {i1, i2}
                           /\ n.attempts[i1].status = "failed" /\ i1 \in n.scopes[k].retry
    BY DEF ScopeBudget
  <2>1. k \in DOMAIN j.scopes /\ k \in 2 .. last
    BY <1>1, <1>2
  <2>2. /\ ScopeWork(j, k, op) # {} => op \in j.scopes[k].builds
        /\ \A i1, i2 \in ScopeWork(j, k, op) : i1 < i2 =>
             /\ ScopeWork(j, k, op) = {i1, i2}
             /\ j.attempts[i1].status = "failed" /\ i1 \in j.scopes[k].retry
    BY <1>7, <2>1 DEF ScopeBudget
  <2>3. ScopeWork(n, k, op) = ScopeWork(j, k, op) /\ n.scopes[k].builds = j.scopes[k].builds
    BY <1>2, <1>5, <2>1
  <2>4. ASSUME NEW i1 \in ScopeWork(j, k, op), NEW i2 \in ScopeWork(j, k, op), i1 < i2
        PROVE  n.scopes[k] = j.scopes[k]
    <3>1. i1 \in j.scopes[k].retry /\ i1 \in Previous(j, op)
      BY <2>2, <2>4 DEF ScopeWork
    <3>2. k # last
      BY <1>6, <2>4, <3>1
    <3>3. QED
      BY <1>2, <2>1, <3>2
  <2>5. QED
    BY <1>2, <2>2, <2>3, <2>4
<1>11. QED
  BY <1>8, <1>9, <1>10 DEF WithinBudget, n

\* An annotation completion grants one retry, that of the one edit.
LEMMA AddAnnotationBudgets ==
  ASSUME JInv, BInv, NEW now \in Nat, AddAnnotation(now)
  PROVE  BInv'
<1> DEFINE j == Check(now)
<1> DEFINE n == AnnotationExtension(j)
<1>1. /\ Sound(j) /\ BudgetSound(j) /\ Extend("annotation", n)
      /\ Active(j).resolution /\ Cardinality(Previous(j, Edit)) = 1
      /\ Excused(job) <=> Excused(j)
  BY CheckBudgets DEF AddAnnotation, AnnotationAdmitted
<1>2. "annotation" \notin overdrawn /\ "annotation" \in extended' /\ overdrawn = {}
  BY <1>1 DEF Extend, BInv, BudgetsHold
<1> HIDE DEF j
<1>3. RetriesSound(n)
  <2>1. /\ n.attempts = j.attempts /\ DOMAIN n.scopes = DOMAIN j.scopes
        /\ \A k \in DOMAIN j.scopes :
             /\ k # Len(j.scopes) => n.scopes[k] = j.scopes[k]
             /\ k = Len(j.scopes) => n.scopes[k].retry = Previous(j, Edit) /\ n.scopes[k].resolution
        /\ \E x : Previous(j, Edit) = {x}
    BY <1>1, AnnotationShape
  <2> HIDE DEF n
  <2>2. Previous(j, Edit) \subseteq DOMAIN j.attempts
    BY DEF Previous
  <2>3. QED
    BY <1>1, <2>1, <2>2 DEF BudgetSound, RetriesSound
<1>4. CASE WithinBudget(n)
  <2> HIDE DEF n
  <2>1. BudgetSound(n)
    BY <1>3, <1>4 DEF BudgetSound
  <2>2. QED
    BY <1>1, <1>2, <2>1, ExtendBudgets
<1>5. CASE ~WithinBudget(n)
  <2>1. Excused(job)
    BY <1>1, <1>5, AnnotationBudgets
  <2> HIDE DEF n
  <2>2. job' = job /\ overdrawn' \subseteq {"annotation"}
    BY <1>1, <1>2, <1>5 DEF Extend, Write, Consistent, Audited
  <2>3. QED
    BY <1>2, <2>1, <2>2 DEF BInv, BudgetsHold, Excused
<1>6. QED
  BY <1>4, <1>5

\* A continuation spends nothing: it may retry the last attempt of an operation, and
\* only when it resolves the blocker.
LEMMA RenewedBudgets ==
  ASSUME JInv, BInv, NEW now \in Nat, NEW r \in ContinuationRequest
  PROVE  BudgetSound(Renewed(job, r, now)) /\ Longer(job, Renewed(job, r, now))
<1> DEFINE n == Renewed(job, r, now)
<1> DEFINE last == Len(job.scopes)
<1> DEFINE made == Len(job.attempts)
<1>1. /\ made \in Nat /\ last \in Nat \ {0}
      /\ DOMAIN job.attempts = 1 .. made /\ DOMAIN job.scopes = 1 .. last
  BY ScopesType DEF JInv, Sound
<1>2. /\ n.attempts = job.attempts /\ n.cycle = job.cycle
      /\ DOMAIN n.scopes = 1 .. last + 1 /\ Len(n.scopes) = last + 1
      /\ \A k \in 1 .. last : n.scopes[k] = job.scopes[k] /\ End(n, k) = End(job, k)
      /\ n.scopes[last + 1].first = made
      /\ n.scopes[last + 1].retry = UNION {Latest(Previous(job, op)) : op \in r.retry}
      /\ n.scopes[last + 1].resolution = r.resolution
  BY RenewedShape
<1> HIDE DEF n
<1>3. /\ ScopesOrdered(job) /\ OneAttempt(job) /\ CyclesCounted(job) /\ LifetimeBudget(job)
      /\ CycleBudget(job) /\ ScopeBudget(job) /\ RetriesSound(job)
  BY DEF BInv, BudgetSound, WithinBudget
<1>4. \A op : Previous(n, op) = Previous(job, op)
  BY <1>2 DEF Previous
<1>5. OneAttempt(n) /\ CyclesCounted(n) /\ LifetimeBudget(n)
  BY <1>2, <1>3, <1>4 DEF OneAttempt, Running, CyclesCounted, LifetimeBudget
<1>6. \A k \in 1 .. last + 1 : k \in 1 .. last \/ k = last + 1
  BY <1>1
<1>7. ScopesOrdered(n)
  <2> SUFFICES ASSUME NEW k \in 1 .. last + 1
               PROVE  n.scopes[k].first <= End(n, k) /\ End(n, k) <= made
    BY <1>2 DEF ScopesOrdered
  <2>1. CASE k \in 1 .. last
    BY <1>1, <1>2, <1>3, <2>1 DEF ScopesOrdered
  <2>2. CASE k = last + 1
    BY <1>1, <1>2, <2>2 DEF End
  <2>3. QED
    BY <1>6, <2>1, <2>2
<1>8. CycleBudget(n)
  <2> SUFFICES ASSUME NEW op \in BuildOp, NEW i1 \in Previous(n, op), NEW i2 \in Previous(n, op),
                      i1 < i2, n.attempts[i1].cycle = n.attempts[i2].cycle,
                      \A i \in Previous(n, op) : i <= i1 \/ i2 <= i
               PROVE  /\ n.attempts[i1].status = "failed"
                      /\ \E k \in 2 .. Len(n.scopes) :
                           /\ n.scopes[k].first < i2 /\ i2 <= End(n, k)
                           /\ i1 \in n.scopes[k].retry /\ n.scopes[k].resolution
    BY DEF CycleBudget
  <2>1. /\ job.attempts[i1].status = "failed"
        /\ \E k \in 2 .. last :
             /\ job.scopes[k].first < i2 /\ i2 <= End(job, k)
             /\ i1 \in job.scopes[k].retry /\ job.scopes[k].resolution
    <3>1. /\ i1 \in Previous(job, op) /\ i2 \in Previous(job, op)
          /\ job.attempts[i1].cycle = job.attempts[i2].cycle
          /\ \A i \in Previous(job, op) : i <= i1 \/ i2 <= i
      BY <1>2, <1>4
    <3>2. CycleBudget(job)
      BY <1>3
    <3>3. QED
      BY <3>1, <3>2 DEF CycleBudget
  <2>2. 2 .. last \subseteq 1 .. last /\ 2 .. last \subseteq 2 .. last + 1
    BY <1>1
  <2>3. QED
    BY <1>2, <2>1, <2>2
<1>9. ScopeBudget(n)
  <2> SUFFICES ASSUME NEW k \in 2 .. Len(n.scopes), NEW op \in BuildOp
               PROVE  /\ ScopeWork(n, k, op) # {} => op \in n.scopes[k].builds
                      /\ \A i1, i2 \in ScopeWork(n, k, op) : i1 < i2 =>
                           /\ ScopeWork(n, k, op) = {i1, i2}
                           /\ n.attempts[i1].status = "failed" /\ i1 \in n.scopes[k].retry
    BY DEF ScopeBudget
  <2>1. k \in 2 .. last \/ k = last + 1
    BY <1>1, <1>2
  <2>2. CASE k \in 2 .. last
    <3>1. k \in 1 .. last
      BY <1>1, <2>2
    <3>2. n.scopes[k] = job.scopes[k] /\ ScopeWork(n, k, op) = ScopeWork(job, k, op)
      BY <1>2, <1>4, <3>1 DEF ScopeWork
    <3>3. QED
      BY <1>2, <1>3, <2>2, <3>2 DEF ScopeBudget
  <2>3. CASE k = last + 1
    <3>1. End(n, k) = made /\ n.scopes[k].first = made
      BY <1>2, <2>3 DEF End
    <3>2. \A i \in Previous(n, op) : i \in 1 .. made
      BY <1>1, <1>4 DEF Previous
    <3>3. ScopeWork(n, k, op) = {}
      BY <1>1, <3>1, <3>2 DEF ScopeWork
    <3>4. QED
      BY <3>3
  <2>4. QED
    BY <2>1, <2>2, <2>3
<1>10. RetriesSound(n)
  <2> SUFFICES ASSUME NEW k \in 1 .. last + 1
               PROVE  /\ n.scopes[k].retry \subseteq DOMAIN job.attempts
                      /\ n.scopes[k].retry # {} => n.scopes[k].resolution
                      /\ \A i1, i2 \in n.scopes[k].retry :
                           job.attempts[i1].op = job.attempts[i2].op => i1 = i2
    BY <1>2 DEF RetriesSound
  <2>1. CASE k \in 1 .. last
    BY <1>1, <1>2, <1>3, <2>1 DEF RetriesSound
  <2>2. CASE k = last + 1
    <3>1. \A op : Latest(Previous(job, op)) \subseteq 1 .. made
      BY <1>1 DEF Latest, Previous
    <3>2. n.scopes[k].retry \subseteq DOMAIN job.attempts
      BY <1>1, <1>2, <2>2, <3>1
    <3>3. n.scopes[k].retry # {} => n.scopes[k].resolution
      <4>1. r.retry # {} => r.resolution
        BY RequestAssumption DEF RequestBounded
      <4>2. QED
        BY <1>2, <2>2, <4>1
    <3>4. ASSUME NEW i1 \in n.scopes[k].retry, NEW i2 \in n.scopes[k].retry,
                 job.attempts[i1].op = job.attempts[i2].op
          PROVE  i1 = i2
      <4>1. PICK o1 \in r.retry : i1 \in Latest(Previous(job, o1))
        BY <1>2, <2>2
      <4>2. PICK o2 \in r.retry : i2 \in Latest(Previous(job, o2))
        BY <1>2, <2>2
      <4>3. o1 = o2
        BY <3>4, <4>1, <4>2 DEF Latest, Previous
      <4>4. i1 <= i2 /\ i2 <= i1
        BY <4>1, <4>2, <4>3 DEF Latest
      <4>5. i1 \in 1 .. made /\ i2 \in 1 .. made
        BY <3>1, <4>1, <4>2
      <4>6. QED
        BY <1>1, <4>4, <4>5
    <3>5. QED
      BY <3>2, <3>3, <3>4
  <2>3. QED
    BY <1>6, <2>1, <2>2
<1>11. Longer(job, n)
  <2>1. \A k \in 1 .. last : \A op : ScopeWork(n, k, op) = ScopeWork(job, k, op)
    BY <1>2, <1>4 DEF ScopeWork
  <2>2. 1 .. last \subseteq 1 .. last + 1
    BY <1>1
  <2>3. QED
    BY <1>1, <1>2, <2>1, <2>2 DEF Longer
<1>12. QED
  BY <1>5, <1>7, <1>8, <1>9, <1>10, <1>11 DEF BudgetSound, WithinBudget, n

LEMMA ContinueBudgets ==
  ASSUME JInv, BInv, NEW now \in Nat, NEW r \in ContinuationRequest, Continue(r, now)
  PROVE  BInv'
<1> DEFINE n == Renewed(job, r, now)
<1>1. BudgetSound(n) /\ Longer(job, n)
  BY RenewedBudgets
<1>2. job' = n \/ job' = job
  BY DEF Continue, Write
<1>3. Audited("call", n) /\ extended' = extended
  BY DEF Continue
<1> HIDE DEF n
<1>4. overdrawn' = overdrawn
  BY <1>1, <1>3 DEF Audited, BudgetSound
<1>5. BudgetSound(job')
  BY <1>1, <1>2 DEF BInv
<1>6. Excused(job) => Excused(job')
  BY <1>1, <1>2, LongerExcused DEF BInv, BudgetSound
<1>7. QED
  BY <1>3, <1>4, <1>5, <1>6 DEF BInv, BudgetsHold, Excused

-------------------------------------------------------------------------------
(* The promise of AttemptLedger. A call either leaves every attempt as it was  *)
(* and moves the status as the promise allows, or claims or settles one.       *)

Moves(j, n) ==
  /\ n.attempts = j.attempts
  /\ \/ n.status = j.status
     \/ j.status = "active" /\ n.status = "stopped"
     \/ j.status = "active" /\ n.status = "finished" /\ Running(j) = {}
     \/ j.status = "stopped" /\ n.status = "active" /\ Running(j) = {}

LEMMA RunningInLedger == Ledger!Running = Running(job)
BY DEF Ledger!Running, Statuses, Running

LEMMA MovesInLedger ==
  ASSUME NEW n, Moves(job, n), Save(n)
  PROVE  [Ledger!LNext]_(Ledger!lvars)
<1>1. job' = n \/ job' = job
  BY DEF Save, Write
<1>2. Statuses(job') = Statuses(job)
  BY <1>1 DEF Moves, Statuses
<1>3. QED
  BY <1>1, <1>2, RunningInLedger
  DEF Moves, Ledger!LNext, Ledger!lvars, Ledger!Stop, Ledger!Reopen, Ledger!Finish

\* A reading of the clock can only stop an active job.
LEMMA CheckMoves ==
  ASSUME JInv, NEW now \in Nat
  PROVE  Moves(job, Check(now)) /\ Sound(Check(now))
<1>1. job.status \in {"active", "stopped", "finished"}
  BY DEF JInv, TypeOK, JobState
<1>2. /\ Sound(Check(now)) /\ Check(now).attempts = job.attempts
      /\ \/ Check(now).status = job.status
         \/ job.status # "finished" /\ Check(now).status = "stopped"
  BY CheckSound DEF Touched, Relabelled
<1>3. QED
  BY <1>1, <1>2 DEF Moves

LEMMA DiagnosedMoves ==
  ASSUME JInv, NEW now \in Nat, Save(Diagnosed(Check(now)))
  PROVE  [Ledger!LNext]_(Ledger!lvars)
<1>1. Moves(job, Diagnosed(Check(now)))
  BY CheckMoves, DiagnosedSound DEF Moves, Touched
<1>2. QED
  BY <1>1, MovesInLedger

\* A new attempt gets the next number, and the others keep their status.
LEMMA ClaimInLedger ==
  ASSUME JInv, NEW now \in Nat, NEW op \in Op, NEW input \in Input, Claim(op, input, now)
  PROVE  [Ledger!LNext]_(Ledger!lvars)
<1> DEFINE j == Check(now)
<1> DEFINE n == Claimed(j, op, input, now)
<1> DEFINE a == [ op |-> op, input |-> input, cycle |-> j.cycle, status |-> "running",
                  signature |-> NoSignature, started |-> now, ended |-> 0 ]
<1> DEFINE i == Len(job.attempts) + 1
<1>1. /\ j \in JobState /\ Sound(j) /\ j.attempts = job.attempts
      /\ j.status = "active" /\ Running(j) = {} /\ Len(j.attempts) < MaxAttempts
      /\ op \in BuildOp => Active(j).diagnostic.status = "none"
      /\ Save(n)
  BY CheckSound DEF Claim, MayClaim, Allowed, Phase, Touched, Sound
<1>2. job.status = "active"
  BY <1>1, CheckSound DEF Relabelled
<1>3. a \in Attempt /\ a.status = "running" /\ n = [j EXCEPT !.attempts = Append(job.attempts, a)]
  BY <1>1 DEF Attempt, JobState, Claimed
<1> HIDE DEF a, n, j
<1>4. /\ job.attempts \in Seq(Attempt) /\ Len(job.attempts) \in Nat
      /\ DOMAIN job.attempts = 1 .. Len(job.attempts)
  BY ScopesType DEF JInv, Sound, JobState
<1>5. /\ DOMAIN Append(job.attempts, a) = 1 .. i
      /\ \A k \in 1 .. Len(job.attempts) : Append(job.attempts, a)[k] = job.attempts[k]
      /\ Append(job.attempts, a)[i] = a
  BY <1>3, <1>4, AppendProperties, LenProperties
<1>6. n.attempts = Append(job.attempts, a) /\ n.status = "active"
  BY <1>1, <1>3 DEF JobState
<1>7. CASE job' = n
  <2>1. i \in 1 .. MaxAttempts /\ i \notin DOMAIN job.attempts
        /\ 1 .. i = (1 .. Len(job.attempts)) \cup {i}
    BY <1>1, <1>4, RequestAssumption
  <2>2. Statuses(job') = [k \in DOMAIN Statuses(job) \cup {i} |->
                            IF k = i THEN "running" ELSE Statuses(job)[k]]
    BY <1>3, <1>4, <1>5, <1>6, <1>7, <2>1 DEF Statuses
  <2>3. Running(job) = {}
    BY <1>1 DEF Running
  <2>4. Ledger!Claim(i)
    BY <1>2, <1>6, <1>7, <2>1, <2>2, <2>3, RunningInLedger DEF Ledger!Claim, Statuses
  <2>5. QED
    BY <2>1, <2>4 DEF Ledger!LNext
<1>8. CASE job' = job
  BY <1>8 DEF Ledger!lvars, Statuses
<1>9. QED
  BY <1>1, <1>7, <1>8 DEF Save, Write

\* The end of a running attempt is its verdict; the job may stop over it.
LEMMA FinishAttemptInLedger ==
  ASSUME JInv, NEW now \in Nat, NEW i \in Running(job), NEW end \in Outcome,
         FinishAttempt(i, end[1], end[2], now)
  PROVE  [Ledger!LNext]_(Ledger!lvars)
<1> DEFINE ended == [job EXCEPT !.attempts[i].ended = now, !.attempts[i].status = end[1],
                                !.attempts[i].signature = end[2]]
<1> DEFINE c == Checked(ended, now, Backwards)
<1> DEFINE j == Settled(c, i, end[1])
<1> DEFINE n == Diagnosed(Stopped(j, "repeated_failure"))
<1> DEFINE Verdict(m) ==
      /\ Statuses(m) = [Statuses(job) EXCEPT ![i] = end[1]]
      /\ m.status \in {job.status, "stopped"}
<1>1. Save(n) \/ Save(Diagnosed(j)) \/ Save(j)
  BY DEF FinishAttempt
<1>2. /\ Sound(ended) /\ ended.scopes = job.scopes
      /\ ended.status = job.status /\ ended.stopKind = job.stopKind /\ job.status # "finished"
  BY EndedSound
<1>3. Statuses(ended) = [Statuses(job) EXCEPT ![i] = end[1]]
  <2>1. /\ job \in JobState /\ i \in DOMAIN job.attempts
        /\ \A k \in DOMAIN job.attempts : job.attempts[k] \in Attempt
    BY ScopesType DEF JInv, Sound, Running
  <2>2. /\ DOMAIN ended.attempts = DOMAIN job.attempts
        /\ \A k \in DOMAIN job.attempts :
             ended.attempts[k].status = IF k = i THEN end[1] ELSE job.attempts[k].status
    BY <2>1 DEF JobState, Attempt
  <2> HIDE DEF ended
  <2>3. QED
    BY <2>1, <2>2 DEF Statuses
<1> HIDE DEF ended
<1>4. Sound(c) /\ Verdict(c)
  <2>1. Backwards \in BOOLEAN
    BY DEF Backwards
  <2>2. Sound(c) /\ c.attempts = ended.attempts /\ c.status \in {ended.status, "stopped"}
    BY <1>2, <2>1, CheckedSound DEF Touched
  <2>3. QED
    BY <1>2, <1>3, <2>2 DEF Statuses
<1> HIDE DEF c
<1>5. Sound(j) /\ Verdict(j)
  <2>1. ASSUME NEW kind \in StopKind
        PROVE  Sound(Stopped(c, kind)) /\ Verdict(Stopped(c, kind))
    BY <1>4, StoppedSound DEF Touched, Statuses
  <2>2. \/ j = c \/ j = Stopped(c, "deadline") \/ j = Stopped(c, "interrupted")
    BY DEF Settled
  <2>3. QED
    BY <1>4, <2>1, <2>2 DEF StopKind
<1> HIDE DEF j
<1>6. ASSUME NEW m, Sound(m), Verdict(m)
      PROVE  Verdict(Diagnosed(m))
  BY <1>6, DiagnosedSound DEF Touched, Statuses
<1>7. Sound(Stopped(j, "repeated_failure")) /\ Verdict(Stopped(j, "repeated_failure"))
  BY <1>5, StoppedSound DEF StopKind, Touched, Statuses
<1>8. Verdict(job') \/ job' = job
  BY <1>1, <1>5, <1>6, <1>7 DEF Save, Write
<1>9. CASE Verdict(job')
  <2>1. end[1] \in Ledger!Verdict
    BY RequestAssumption DEF Ledger!Verdict
  <2>2. i \in Ledger!Running
    BY RunningInLedger
  <2>3. Ledger!Settle(i, end[1])
    BY <1>2, <1>9, <2>2 DEF Ledger!Settle
  <2>4. QED
    BY <2>1, <2>2, <2>3 DEF Ledger!LNext
<1>10. CASE job' = job
  BY <1>10 DEF Ledger!lvars, Statuses
<1>11. QED
  BY <1>8, <1>9, <1>10

LEMMA ResumeInLedger ==
  ASSUME JInv, NEW now \in Nat, Resume(now)
  PROVE  [Ledger!LNext]_(Ledger!lvars)
<1> DEFINE a == [job EXCEPT !.status = "active"]
<1> DEFINE j == Checked(a, now, Backwards)
<1> DEFINE n == IF j.status = "active" THEN [j EXCEPT !.stopKind = ""] ELSE j
<1>1. /\ a \in JobState /\ a.attempts = job.attempts /\ a.scopes = job.scopes
      /\ a.status = "active"
  BY DEF JInv, TypeOK, JobState
<1>2. Running(job) = {} /\ job.status = "stopped" /\ Save(n)
  BY DEF Resume, JInv, Labelled, TypeOK, JobState
<1> HIDE DEF a
<1>3. Sound(a)
  BY <1>1, SameWorkSound DEF JInv
<1>4. /\ j \in JobState /\ j.attempts = job.attempts /\ j.status \in {"active", "stopped"}
  <2>1. Backwards \in BOOLEAN
    BY DEF Backwards
  <2>2. QED
    BY <1>1, <1>3, <2>1, CheckedSound DEF Touched, Sound
<1> HIDE DEF j
<1>5. n.attempts = j.attempts /\ n.status = j.status
  BY <1>4 DEF JobState
<1> HIDE DEF n
<1>6. Moves(job, n)
  BY <1>2, <1>4, <1>5 DEF Moves
<1>7. QED
  BY <1>2, <1>6, MovesInLedger

\* Reviews and user decisions leave the attempts alone.
LEMMA ReviewInLedger ==
  ASSUME JInv, NEW now \in Nat,
         BeginDiagnostic(now) \/ \E action \in Action : CompleteDiagnostic(action, now)
  PROVE  [Ledger!LNext]_(Ledger!lvars)
<1> DEFINE Same(n) == Sound(n) /\ n.attempts = job.attempts /\ n.status = job.status
<1>1. ASSUME NEW n, Same(n), NEW d \in Diagnostic,
             Active(n).diagnostic.status # "none", d.after = Active(n).diagnostic.after
      PROVE  Same(WithDiagnostic(n, d))
  BY <1>1, WithDiagnosticSound DEF Touched
<1>2. ASSUME NEW n, Same(n)
      PROVE  /\ Same(Seen(n, now)) /\ Active(n).diagnostic \in Diagnostic
             /\ Save(n) => [Ledger!LNext]_(Ledger!lvars)
  <2>1. Same(Seen(n, now)) /\ Active(n).diagnostic \in Diagnostic
    BY <1>2, SeenSound, ScopesType DEF Touched, Sound, Scope
  <2>2. Moves(job, n)
    BY <1>2 DEF Moves
  <2>3. QED
    BY <2>1, <2>2, MovesInLedger
<1>3. Same(job) /\ Same(Diagnosed(job)) /\ Active(Diagnosed(job)).diagnostic.status # "none"
  BY DiagnosedSound DEF JInv, Touched
<1> HIDE DEF Same
<1>4. CASE BeginDiagnostic(now)
  <2> DEFINE j == Diagnosed(job)
  <2> DEFINE d == [Active(j).diagnostic EXCEPT !.status = "reviewing", !.deadline = ReviewEnd(now)]
  <2>1. Save(Seen(WithDiagnostic(j, d), now)) /\ ReviewEnd(now) \in now + 1 .. now + Window
    BY <1>4 DEF BeginDiagnostic
  <2> HIDE DEF j
  <2>2. Active(j).diagnostic \in Diagnostic
    BY <1>2, <1>3 DEF j
  <2>3. d \in Diagnostic /\ d.after = Active(j).diagnostic.after
    <3>1. ReviewEnd(now) \in Nat
      BY <2>1, LedgerAssumption
    <3>2. QED
      BY <2>2, <3>1 DEF Diagnostic
  <2> HIDE DEF d
  <2>4. Same(WithDiagnostic(j, d))
    BY <1>1, <1>3, <2>3 DEF j
  <2>5. QED
    BY <1>2, <2>1, <2>4
<1>5. ASSUME NEW action \in Action, CompleteDiagnostic(action, now)
      PROVE  [Ledger!LNext]_(Ledger!lvars)
  <2> DEFINE d == Active(job).diagnostic
  <2> DEFINE e == [d EXCEPT !.status = "expired"]
  <2> DEFINE f == [d EXCEPT !.status = "complete", !.action = action]
  <2>1. /\ d.status = "reviewing"
        /\ \/ Save(WithDiagnostic(job, e))
           \/ Save(Seen(WithDiagnostic(job, f), now))
           \/ Save(Seen(job, now))
    BY <1>5 DEF CompleteDiagnostic
  <2>2. d \in Diagnostic
    BY <1>2, <1>3
  <2>3. e \in Diagnostic /\ e.after = d.after /\ f \in Diagnostic /\ f.after = d.after
    BY <2>2 DEF Diagnostic
  <2> HIDE DEF e, f
  <2>4. Same(WithDiagnostic(job, e)) /\ Same(WithDiagnostic(job, f))
    BY <1>1, <1>3, <2>1, <2>3
  <2>5. QED
    BY <1>2, <1>3, <2>1, <2>4
<1>6. QED
  BY <1>4, <1>5

LEMMA ExtensionInLedger ==
  ASSUME JInv, NEW now \in Nat, AddLocalCorrection(now) \/ AddAnnotation(now)
  PROVE  [Ledger!LNext]_(Ledger!lvars)
<1> DEFINE j == Check(now)
<1>1. Moves(job, j) /\ j \in JobState
  BY CheckMoves DEF Sound
<1>2. ASSUME NEW s
      PROVE  WithActive(j, s).attempts = j.attempts /\ WithActive(j, s).status = j.status
  <2> HIDE DEF j
  <2>1. QED
    BY <1>1 DEF WithActive, JobState
<1>3. PICK n : Moves(job, n) /\ (Write(n) \/ UNCHANGED job)
  <2>1. ASSUME NEW s, NEW kind, Extend(kind, WithActive(j, s))
        PROVE  \E n : Moves(job, n) /\ (Write(n) \/ UNCHANGED job)
    <3>1. Write(WithActive(j, s)) \/ UNCHANGED job
      BY <2>1 DEF Extend
    <3>2. Moves(job, WithActive(j, s))
      BY <1>1, <1>2 DEF Moves
    <3>3. QED
      BY <3>1, <3>2
  <2>2. QED
    BY <2>1 DEF AddLocalCorrection, LocalExtension, AddAnnotation, AnnotationExtension
<1>4. job' = n \/ job' = job
  BY <1>3 DEF Write
<1>5. Statuses(job') = Statuses(job)
  BY <1>3, <1>4 DEF Moves, Statuses
<1>6. QED
  BY <1>3, <1>4, <1>5, RunningInLedger
  DEF Moves, Ledger!LNext, Ledger!lvars, Ledger!Stop, Ledger!Reopen, Ledger!Finish

LEMMA ContinueInLedger ==
  ASSUME JInv, NEW now \in Nat, NEW r \in ContinuationRequest, Continue(r, now)
  PROVE  [Ledger!LNext]_(Ledger!lvars)
<1> DEFINE n == Renewed(job, r, now)
<1>1. n.attempts = job.attempts /\ n.status = "active"
  BY RenewedSound
<1>2. /\ job' = n \/ job' = job
      /\ job.status \in {"active", "stopped"} /\ Running(job) = {}
  BY DEF Continue, Admitted, Write, JInv, TypeOK, JobState
<1> HIDE DEF n
<1>3. Statuses(job') = Statuses(job)
  BY <1>1, <1>2 DEF Statuses
<1>4. QED
  BY <1>1, <1>2, <1>3, RunningInLedger DEF Ledger!LNext, Ledger!lvars, Ledger!Reopen

\* Corrections, a cancellation and the end of the job.
LEMMA CorrectInLedger ==
  ASSUME JInv, NEW now \in Nat, NEW escalation \in BOOLEAN, Correct(escalation, now)
  PROVE  [Ledger!LNext]_(Ledger!lvars)
<1> DEFINE j == Check(now)
<1> DEFINE n == [j EXCEPT !.cycle = @ + 1, !.escalations = IF escalation THEN @ + 1 ELSE @]
<1>1. Moves(job, j) /\ j \in JobState /\ Save(n)
  BY CheckMoves DEF Sound, Correct
<1> HIDE DEF j
<1>2. n.attempts = j.attempts /\ n.status = j.status
  BY <1>1 DEF JobState
<1> HIDE DEF n
<1>3. Moves(job, n)
  BY <1>1, <1>2 DEF Moves
<1>4. QED
  BY <1>1, <1>3, MovesInLedger

LEMMA EndInLedger ==
  ASSUME JInv, NEW now \in Nat, Cancel \/ Finish(now)
  PROVE  [Ledger!LNext]_(Ledger!lvars)
<1>1. CASE Cancel
  <2>1. Moves(job, Stopped(job, "cancelled")) /\ Save(Stopped(job, "cancelled"))
    BY <1>1 DEF Cancel, Moves, Stopped, JInv, TypeOK, JobState
  <2>2. QED
    BY <2>1, MovesInLedger
<1>2. CASE Finish(now)
  <2> DEFINE j == Check(now)
  <2> DEFINE n == [j EXCEPT !.status = "finished", !.stopKind = "finished"]
  <2>1. /\ j \in JobState /\ j.attempts = job.attempts /\ job.status = "active"
        /\ Running(j) = {} /\ Save(n)
    BY <1>2, CheckMoves DEF Moves, Sound, Finish
  <2> HIDE DEF j
  <2>2. n.attempts = job.attempts /\ n.status = "finished" /\ Running(job) = {}
    BY <2>1 DEF JobState, Running
  <2> HIDE DEF n
  <2>3. Moves(job, n)
    BY <2>1, <2>2 DEF Moves
  <2>4. QED
    BY <2>1, <2>3, MovesInLedger
<1>3. QED
  BY <1>1, <1>2

\* Every step of the job is one of the promise, or leaves what it is about alone.
LEMMA NextInLedger == JInv /\ [Next]_vars => [Ledger!LNext]_(Ledger!lvars)
<1> SUFFICES ASSUME JInv, [Next]_vars
             PROVE  [Ledger!LNext]_(Ledger!lvars)
  OBVIOUS
<1>1. ASSUME NEW now \in Now, Call(now)
      PROVE  [Ledger!LNext]_(Ledger!lvars)
  <2>1. now \in Nat
    BY NowType DEF JInv
  <2>2. CASE Inspect(now)
    BY <2>1, <2>2, CheckMoves, MovesInLedger DEF Inspect
  <2>3. CASE BeginDiagnostic(now) \/ \E action \in Action : CompleteDiagnostic(action, now)
    BY <2>1, <2>3, ReviewInLedger
  <2>4. CASE Finish(now)
    BY <2>1, <2>4, EndInLedger
  <2>5. CASE Resume(now)
    BY <2>1, <2>5, ResumeInLedger
  <2>6. CASE AddLocalCorrection(now) \/ AddAnnotation(now)
    BY <2>1, <2>6, ExtensionInLedger
  <2>7. ASSUME NEW op \in Op, Overdraw(op, now)
        PROVE  [Ledger!LNext]_(Ledger!lvars)
    BY <2>1, <2>7, DiagnosedMoves DEF Overdraw
  <2>8. ASSUME NEW op \in Op, NEW input \in Input, Claim(op, input, now)
        PROVE  [Ledger!LNext]_(Ledger!lvars)
    BY <2>1, <2>8, ClaimInLedger
  <2>9. CASE \E i \in Running(job), end \in Outcome : FinishAttempt(i, end[1], end[2], now)
    BY <2>1, <2>9, FinishAttemptInLedger
  <2>10. ASSUME NEW escalation \in BOOLEAN, Correct(escalation, now)
         PROVE  [Ledger!LNext]_(Ledger!lvars)
    BY <2>1, <2>10, CorrectInLedger
  <2>11. ASSUME NEW escalation \in BOOLEAN, RefuseCorrection(escalation, now)
         PROVE  [Ledger!LNext]_(Ledger!lvars)
    BY <2>1, <2>11, DiagnosedMoves DEF RefuseCorrection
  <2>12. CASE \E r \in ContinuationRequest : Continue(r, now)
    BY <2>1, <2>12, ContinueInLedger
  <2>13. QED
    BY <1>1, <2>2, <2>3, <2>4, <2>5, <2>6, <2>7, <2>8, <2>9, <2>10, <2>11, <2>12 DEF Call
<1>2. CASE Cancel
  <2>1. 0 \in Nat
    OBVIOUS
  <2>2. QED
    BY <1>2, <2>1, EndInLedger
<1>3. CASE UNCHANGED job
  BY <1>3 DEF Ledger!lvars, Statuses
<1>4. QED
  BY <1>1, <1>2, <1>3 DEF Next, PassTime, SetClockBack, CorrectClock, vars

-------------------------------------------------------------------------------
(* The specification *)

LEMMA InitInv == Init => JInv
<1> SUFFICES ASSUME Init
             PROVE  JInv
  OBVIOUS
<1>1. PICK a \in Allowance : job = Started(a)
  BY DEF Init
<1> DEFINE s == [ builds |-> BuildOp, retry |-> {}, resolution |-> FALSE,
                  auth |-> NoAuthorization, first |-> 0, start |-> 0,
                  allowance |-> a, diagnostic |-> NoDiagnostic ]
<1>2. s \in Scope /\ s.first = 0 /\ s.diagnostic.status = "none"
  BY DEF Scope, Diagnostic, NoDiagnostic
<1>3. job = [ status |-> "active", stopKind |-> "", cycle |-> 0, escalations |-> 0,
              lastSeen |-> 0, attempts |-> << >>, scopes |-> << s >> ]
  BY <1>1 DEF Started
<1> HIDE DEF s
<1>4. << s >> \in Seq(Scope) /\ << >> \in Seq(Attempt)
  BY <1>2, EmptySeq
<1>5. 0 \in 0 .. LastCycle /\ 0 \in 0 .. EscalationLimit /\ "" \in StopKind
  BY DEF LastCycle, EscalationLimit, StopKind
<1>6. job \in JobState
  BY <1>3, <1>4, <1>5 DEF JobState
<1>7. /\ job.scopes = << s >> /\ Len(job.attempts) = 0 /\ Len(job.scopes) = 1
      /\ job.status = "active" /\ job.stopKind = ""
  BY <1>3
<1>8. job.scopes # << >> /\ DOMAIN job.scopes = 1 .. 1 /\ job.scopes[1] = s
  <2>1. Len(<< s >>) = 1 /\ << s >>[1] = s
    OBVIOUS
  <2>2. DOMAIN << s >> = 1 .. 1
    BY <1>4, <2>1, LenProperties
  <2>3. << s >> # << >>
    BY <2>1, EmptySeq
  <2>4. QED
    BY <1>7, <2>1, <2>2, <2>3
<1>9. Sound(job)
  <2>0. job.scopes # << >>
    BY <1>8
  <2>1. \A k \in DOMAIN job.scopes : job.scopes[k] = s
    BY <1>8
  <2>2. ScopesBounded(job)
    <3>1. ASSUME NEW k \in DOMAIN job.scopes
          PROVE  job.scopes[k].first <= Len(job.attempts)
      <4>1. job.scopes[k].first = 0
        BY <1>2, <2>1
      <4>2. Len(job.attempts) = 0
        BY <1>7
      <4>3. QED
        BY <4>1, <4>2
    <3>2. QED
      BY <3>1 DEF ScopesBounded
  <2>3. BuildsHeld(job)
    BY <1>2, <2>1 DEF BuildsHeld
  <2>4. QED
    BY <1>6, <2>0, <2>2, <2>3 DEF Sound
<1>10. Labelled(job)
  BY <1>7 DEF Labelled
<1>11. TypeOK
  <2>1. /\ retained = NoLedger /\ extended = {} /\ wall = 0 /\ elapsed = 0
        /\ halted = FALSE /\ overdrawn = {}
    BY DEF Init
  <2>2. wall \in Nat /\ elapsed \in Nat /\ wall <= elapsed /\ extended \subseteq {"local", "annotation"}
    BY <2>1
  <2>3. halted \in BOOLEAN /\ overdrawn \subseteq {"call", "local", "annotation"}
    BY <2>1
  <2>4. QED
    BY <1>6, <1>8, <2>1, <2>2, <2>3, Zenon DEF TypeOK
<1>12. QED
  BY <1>9, <1>10, <1>11 DEF JInv

\* One step of the ledger or of the clocks.
LEMMA NextInv == JInv /\ [Next]_vars => JInv' /\ Hard(job, job')
<1> SUFFICES ASSUME JInv, [Next]_vars
             PROVE  JInv' /\ Hard(job, job')
  OBVIOUS
<1>1. ASSUME NEW now \in Now, Call(now)
      PROVE  JInv' /\ Hard(job, job')
  <2>1. now \in Nat
    BY NowType DEF JInv
  <2>2. CASE Inspect(now)
    BY <2>1, <2>2, InspectInv
  <2>3. CASE BeginDiagnostic(now)
    BY <2>1, <2>3, BeginDiagnosticInv
  <2>4. CASE Finish(now)
    BY <2>1, <2>4, FinishInv
  <2>5. CASE Resume(now)
    BY <2>1, <2>5, ResumeInv
  <2>6. CASE AddLocalCorrection(now)
    BY <2>1, <2>6, AddLocalCorrectionInv
  <2>7. CASE AddAnnotation(now)
    BY <2>1, <2>7, AddAnnotationInv
  <2>8. CASE \E op \in Op : Overdraw(op, now) \/ \E input \in Input : Claim(op, input, now)
    BY <2>1, <2>8, OverdrawInv, ClaimInv
  <2>9. CASE \E i \in Running(job), end \in Outcome : FinishAttempt(i, end[1], end[2], now)
    BY <2>1, <2>9, FinishAttemptInv
  <2>10. CASE \E escalation \in BOOLEAN :
                Correct(escalation, now) \/ RefuseCorrection(escalation, now)
    BY <2>1, <2>10, CorrectInv, RefuseCorrectionInv
  <2>11. CASE \E action \in Action : CompleteDiagnostic(action, now)
    BY <2>1, <2>11, CompleteDiagnosticInv
  <2>12. CASE \E r \in ContinuationRequest : Continue(r, now)
    BY <2>1, <2>12, ContinueInv
  <2>13. QED
    BY <1>1, <2>2, <2>3, <2>4, <2>5, <2>6, <2>7, <2>8, <2>9, <2>10, <2>11, <2>12 DEF Call
<1>2. CASE Cancel
  BY <1>2, CancelInv
<1>3. CASE \/ \E t \in Tick : PassTime(t)
           \/ \E t \in SetBack : SetClockBack(t)
           \/ CorrectClock
  BY <1>3, ClockInv
<1>4. CASE UNCHANGED vars
  <2>1. Sound(job') /\ Labelled(job') /\ Hard(job, job')
    BY <1>4 DEF vars, JInv, Labelled, Hard, Final
  <2>2. QED
    BY <1>4, <2>1 DEF vars, clocks, JInv, TypeOK
<1>5. QED
  BY <1>1, <1>2, <1>3, <1>4 DEF Next

LEMMA InitBudgets == Init => BInv
<1> SUFFICES ASSUME Init
             PROVE  BInv
  OBVIOUS
<1>1. PICK a \in Allowance : job = Started(a)
  BY DEF Init
<1>2. overdrawn = {}
  BY DEF Init
<1>3. /\ job.attempts = << >> /\ Len(job.scopes) = 1 /\ Len(job.attempts) = 0
      /\ job.scopes[1].retry = {} /\ job.scopes[1].first = 0
  BY <1>1 DEF Started
<1>4. JInv
  BY InitInv
<1>5. DOMAIN job.scopes = 1 .. 1 /\ DOMAIN job.attempts = {}
  <2>1. DOMAIN job.scopes = 1 .. 1 /\ DOMAIN job.attempts = 1 .. 0
    BY <1>3, <1>4, ScopesType DEF JInv, Sound
  <2>2. 1 .. 0 = {}
    OBVIOUS
  <2>3. QED
    BY <2>1, <2>2
<1>6. Running(job) = {} /\ \A op : Previous(job, op) = {}
  BY <1>5 DEF Running, Previous
<1>7. Cardinality({}) = 0
  BY FS_EmptySet
<1>8. OneAttempt(job) /\ CyclesCounted(job) /\ LifetimeBudget(job)
  <2>1. \A op : 0 <= Limit(op)
    BY DEF Limit, RoutingLimit, OperationLimit
  <2>2. QED
    BY <1>5, <1>6, <1>7, <2>1 DEF OneAttempt, CyclesCounted, LifetimeBudget
<1>9. ScopesOrdered(job)
  <2>1. \A k \in DOMAIN job.scopes : k = 1
    BY <1>5
  <2>2. End(job, 1) = 0
    BY <1>3 DEF End
  <2>3. QED
    BY <1>3, <2>1, <2>2 DEF ScopesOrdered
<1>10. CycleBudget(job) /\ ScopeBudget(job)
  <2>1. 2 .. Len(job.scopes) = {}
    BY <1>3
  <2>2. QED
    BY <1>6, <2>1 DEF CycleBudget, ScopeBudget
<1>11. RetriesSound(job)
  <2>1. \A k \in DOMAIN job.scopes : job.scopes[k].retry = {}
    BY <1>3, <1>5
  <2>2. QED
    BY <2>1 DEF RetriesSound
<1>12. QED
  BY <1>2, <1>8, <1>9, <1>10, <1>11 DEF BInv, BudgetsHold, BudgetSound, WithinBudget

\* No step overdraws the budgets of a ledger that keeps them.
LEMMA NextBudgets == JInv /\ BInv /\ [Next]_vars => BInv'
<1> SUFFICES ASSUME JInv, BInv, [Next]_vars
             PROVE  BInv'
  OBVIOUS
<1>1. ASSUME NEW now \in Now, Call(now)
      PROVE  BInv'
  <2>1. now \in Nat
    BY NowType DEF JInv
  <2>2. CASE Inspect(now)
    BY <2>1, <2>2, CheckBudgets, SaveSameBudgets DEF Inspect
  <2>3. CASE BeginDiagnostic(now)
    BY <2>1, <2>3, BeginDiagnosticBudgets
  <2>4. CASE Finish(now)
    BY <2>1, <2>4, FinishBudgets
  <2>5. CASE Resume(now)
    BY <2>1, <2>5, ResumeBudgets
  <2>6. CASE AddLocalCorrection(now)
    BY <2>1, <2>6, AddLocalCorrectionBudgets
  <2>7. CASE AddAnnotation(now)
    BY <2>1, <2>7, AddAnnotationBudgets
  <2>8. ASSUME NEW op \in Op, Overdraw(op, now)
        PROVE  BInv'
    BY <2>1, <2>8, DiagnosedCheckBudgets DEF Overdraw
  <2>9. ASSUME NEW op \in Op, NEW input \in Input, Claim(op, input, now)
        PROVE  BInv'
    BY <2>1, <2>9, ClaimBudgets
  <2>10. CASE \E i \in Running(job), end \in Outcome : FinishAttempt(i, end[1], end[2], now)
    BY <2>1, <2>10, FinishAttemptBudgets
  <2>11. ASSUME NEW escalation \in BOOLEAN, Correct(escalation, now)
         PROVE  BInv'
    BY <2>1, <2>11, CorrectBudgets
  <2>12. ASSUME NEW escalation \in BOOLEAN, RefuseCorrection(escalation, now)
         PROVE  BInv'
    BY <2>1, <2>12, DiagnosedCheckBudgets DEF RefuseCorrection
  <2>13. CASE \E action \in Action : CompleteDiagnostic(action, now)
    BY <2>1, <2>13, CompleteDiagnosticBudgets
  <2>14. CASE \E r \in ContinuationRequest : Continue(r, now)
    BY <2>1, <2>14, ContinueBudgets
  <2>15. QED
    BY <1>1, <2>2, <2>3, <2>4, <2>5, <2>6, <2>7, <2>8, <2>9, <2>10, <2>11, <2>12, <2>13, <2>14
    DEF Call
<1>2. CASE Cancel
  BY <1>2, CancelBudgets
<1>3. CASE UNCHANGED << job, extended, overdrawn >>
  BY <1>3 DEF BInv, BudgetsHold
<1>4. QED
  BY <1>1, <1>2, <1>3 DEF Next, PassTime, SetClockBack, CorrectClock, vars

\* The inductive invariant holds of every ledger the calls of BoardJob can save.
THEOREM JobInvariant == Spec => []JInv
<1>1. JInv /\ [Next]_vars => JInv'
  BY NextInv
<1>2. QED
  BY InitInv, <1>1, PTL DEF Spec

\* The ledger, its history and the clocks are always well typed, whatever the
\* requests, the allowances and the times are.
THEOREM TypeCorrect == Spec => []TypeOK
<1>1. JInv => TypeOK
  BY DEF JInv
<1>2. QED
  BY <1>1, JobInvariant, PTL

\* No build is claimed in a scope after its checkpoint was requested.
THEOREM ReviewsHoldBuilds == Spec => []ReviewHoldsBuilds
<1>1. JInv => ReviewHoldsBuilds
  BY DEF JInv, Sound, ReviewHoldsBuilds
<1>2. QED
  BY <1>1, JobInvariant, PTL

\* No call builds a ledger that spends more attempts, retries or corrections than the
\* job and its scopes grant, whatever a user authorizes and however attempts end, but
\* for the annotation completion of a scope that has spent a retry of another
\* operation: but for it, the audit of a save never refuses a record for its budgets.
THEOREM BudgetsAlwaysHold == Spec => []BudgetsHold
<1>1. Init => JInv /\ BInv
  BY InitInv, InitBudgets
<1>2. JInv /\ BInv /\ [Next]_vars => (JInv /\ BInv)'
  BY NextInv, NextBudgets
<1>3. JInv /\ BInv => BudgetsHold
  BY DEF BInv, BudgetsHold
<1>4. QED
  BY <1>1, <1>2, <1>3, PTL DEF Spec

\* A job stopped for good is neither relabelled as one that may resume nor active
\* again, unless a user authorizes a new scope.
THEOREM HardStops == Spec => HardStopsHold
<1>1. JInv /\ [Next]_vars =>
        [job.stopKind \in Final /\ Len(job'.scopes) = Len(job.scopes)
           => job'.stopKind \in Final /\ job'.status # "active"]_vars
  BY NextInv DEF Hard
<1>2. QED
  BY <1>1, JobInvariant, PTL DEF Spec, HardStopsHold

\* The calls keep the promise of AttemptLedger, whatever the requests, the budgets and
\* the clocks are: attempts run one at a time and while the job is active, each gets
\* one verdict, and a job goes on after a stop only when none runs.
THEOREM JobKeepsLedger == Spec => LedgerKept
<1>1. Init => Ledger!LInit
  <2> SUFFICES ASSUME Init
               PROVE  Ledger!LInit
    OBVIOUS
  <2>1. PICK a \in Allowance : job = Started(a)
    BY DEF Init
  <2>2. job.status = "active" /\ job.attempts = << >>
    BY <2>1 DEF Started
  <2>3. DOMAIN Statuses(job) = {}
    BY <2>2 DEF Statuses
  <2>4. QED
    BY <2>2, <2>3 DEF Ledger!LInit
<1>2. JInv /\ [Next]_vars => [Ledger!LNext]_(Ledger!lvars)
  BY NextInLedger
<1>3. QED
  BY <1>1, <1>2, JobInvariant, PTL DEF Spec, LedgerKept, Ledger!LSpec
===============================================================================
