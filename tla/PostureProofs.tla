------------------------------ MODULE PostureProofs ------------------------------
(***************************************************************************)
(* Theorems about Posture, for any scopes, vulnerabilities, days and number *)
(* of snapshot tasks: lists and pages show one set of findings once the     *)
(* newest SBOMs are scanned, and no rebuilt day loses what was open.        *)
(***************************************************************************)
EXTENDS Posture, FiniteSetTheorems, TLAPS

-----------------------------------------------------------------------------
(* The invariant: the types, those of the snapshots and tasks in full.       *)

Statuses == {Absent, Open} \cup {Fixed(d) : d \in 1 .. day}

Findings ==
  /\ day \in Days /\ uploads \in 0 .. MaxUploads /\ changes \in 0 .. MaxChanges
  /\ DOMAIN sbom \subseteq 1 .. uploads
  /\ \A b \in DOMAIN sbom : sbom[b].scope \in Scopes /\ sbom[b].created \in Days
  /\ behind \subseteq Scopes
  /\ link \in [(1 .. MaxUploads) \X Vulns -> Statuses]
  /\ severity \in [Vulns -> Severities]
  /\ \A a \in accepted : a.vuln \in Vulns /\ a.at \in 1 .. day /\ a.project \in Projects

RowsTaken == [taken : {TRUE}, counts : Counted, fixed : Nat]

Tasks ==
  {Waiting} \cup [step : {"open"}, target : Days]
            \cup [step : {"fixed"}, target : Days, counts : Counted]
            \cup [step : {"upsert"}, target : Days, counts : Counted, fixed : Nat]

Snapshots ==
  /\ snapshot \in [Days -> {NoRow} \cup RowsTaken] /\ taken \subseteq Days
  /\ task \in [Workers -> Tasks]

PostureInv == Findings /\ Snapshots

-----------------------------------------------------------------------------
(* What is counted.                                                          *)

LEMMA CountedVulns ==
  ASSUME NEW S, S \subseteq Vulns
  PROVE  IsFiniteSet(S) /\ Cardinality(S) \in Nat
  BY PostureAssumption, FS_Subset, FS_CardinalityType

\* Every table of counts has a number for each severity, and so has every task's.
LEMMA TallyType ==
  ASSUME NEW S, S \subseteq Vulns
  PROVE  Tally(S, Shown) \in Counted
  <1>1. \A s \in Shown : Cardinality({v \in S : severity[v] = s}) \in Nat
    <2>1. \A s \in Shown : {v \in S : severity[v] = s} \subseteq Vulns
      OBVIOUS
    <2>2. QED
      BY <2>1, CountedVulns
  <1>2. QED
    BY <1>1 DEF Tally, Counted

LEMMA SnapshotType ==
  ASSUME NEW target \in Days
  PROVE  SnapshotCounts(target) \in Counted /\ SnapshotFixed(target) \in Nat
  <1>1. VulnsIn(OnSnapshotDay) \subseteq Vulns /\ RebuiltOpen(target) \subseteq Vulns
    BY DEF OnSnapshotDay, RebuiltOpen, Linked, VulnsIn
  <1>2. SnapshotCounts(target) \in Counted
    BY <1>1, TallyType DEF SnapshotCounts
  <1>3. VulnsIn({r \in Linked("fixed") : link[r].fixed <= target}) \subseteq Vulns
    BY DEF Linked, VulnsIn
  <1>4. SnapshotFixed(target) \in Nat
    BY <1>3, CountedVulns DEF SnapshotFixed
  <1>5. QED
    BY <1>2, <1>4

-----------------------------------------------------------------------------
(* The steps.                                                                *)

LEMMA StatusSet ==
  ASSUME NEW d \in 1 .. day
  PROVE  Fixed(d) \in Statuses /\ Open \in Statuses /\ Absent \in Statuses
  BY DEF Statuses

LEMMA PostureInit == Init => PostureInv
  <1> SUFFICES ASSUME Init PROVE PostureInv
    OBVIOUS
  <1>1. PICK s \in Severities \ Shown : s \notin Shown
    BY PostureAssumption
  <1>2. (CHOOSE x \in Severities \ Shown : TRUE) \in Severities
    BY <1>1
  <1>3. severity \in [Vulns -> Severities]
    BY <1>2 DEF Init
  <1>4. link \in [(1 .. MaxUploads) \X Vulns -> Statuses]
    BY DEF Init, Statuses
  <1>5. /\ day \in Days /\ uploads \in 0 .. MaxUploads /\ changes \in 0 .. MaxChanges
        /\ DOMAIN sbom = {} /\ accepted = {} /\ behind = {}
    BY PostureAssumption DEF Init, Days
  <1>6. Findings
    BY <1>3, <1>4, <1>5 DEF Findings
  <1>7. Snapshots
    BY DEF Init, Snapshots, Tasks
  <1>8. QED
    BY <1>6, <1>7 DEF PostureInv

LEMMA UploadStep ==
  ASSUME Findings, NEW s \in Scopes, NEW d \in Days, Upload(s, d)
  PROVE  Findings'
  <1>1. /\ uploads < MaxUploads /\ uploads' = uploads + 1 /\ behind' = behind \cup {s}
        /\ sbom' = [b \in DOMAIN sbom \cup {uploads + 1} |->
                      IF b = uploads + 1 THEN [scope |-> s, created |-> d] ELSE sbom[b]]
        /\ UNCHANGED <<day, link, severity, accepted, changes>>
    BY DEF Upload
  <1>2. MaxUploads \in Nat /\ LastDay \in Nat
    BY PostureAssumption
  <1>3. uploads' \in 0 .. MaxUploads /\ DOMAIN sbom' \subseteq 1 .. uploads'
    BY <1>1, <1>2 DEF Findings
  <1>4. \A b \in DOMAIN sbom' : sbom'[b].scope \in Scopes /\ sbom'[b].created \in Days
    BY <1>1, <1>2 DEF Findings, Days
  <1>5. Statuses' = Statuses
    BY <1>1 DEF Statuses
  <1>6. QED
    BY <1>1, <1>3, <1>4, <1>5 DEF Findings

\* Every rewriting of the links is typed if the row and the day it closes with are.
LEMMA ReconciledType ==
  ASSUME NEW b, NEW rows \in [(1 .. MaxUploads) \X Vulns -> Statuses], NEW at \in 1 .. day
  PROVE  Reconciled(b, rows, at) \in [(1 .. MaxUploads) \X Vulns -> Statuses]
  <1>1. Fixed(at) \in Statuses
    BY StatusSet
  <1>2. QED
    BY <1>1 DEF Reconciled

LEMMA ScanStep ==
  ASSUME Findings, NEW b \in 1 .. MaxUploads, NEW at \in 1 .. day,
         NEW vs \in SUBSET Vulns, NEW report \in [vs -> Severities], Scan(b, report, at)
  PROVE  Findings'
  <1>1. /\ changes < MaxChanges /\ changes' = changes + 1
        /\ link' = Reconciled(b, Reported(b, report, at), at)
        /\ severity' = [v \in Vulns |-> IF v \in DOMAIN report THEN report[v] ELSE severity[v]]
        /\ UNCHANGED <<day, uploads, sbom, accepted>>
        /\ b \in DOMAIN sbom /\ behind' \subseteq behind \cup {sbom[b].scope}
    BY DEF Scan, Change
  <1>2. Reported(b, report, at) \in [(1 .. MaxUploads) \X Vulns -> Statuses]
    BY StatusSet DEF Reported, Findings
  <1>3. link' \in [(1 .. MaxUploads) \X Vulns -> Statuses]
    BY <1>1, <1>2, ReconciledType
  <1>4. severity' \in [Vulns -> Severities]
    BY <1>1 DEF Findings
  <1>5. Statuses' = Statuses
    BY <1>1 DEF Statuses
  <1>6. changes' \in 0 .. MaxChanges
    BY <1>1, PostureAssumption DEF Findings
  <1>7. QED
    BY <1>1, <1>3, <1>4, <1>5, <1>6 DEF Findings

LEMMA BareType ==
  ASSUME Findings, NEW b
  PROVE  /\ Bare(b) \in [(1 .. MaxUploads) \X Vulns -> Statuses]
         /\ Reopened(b, Bare(b)) \in [(1 .. MaxUploads) \X Vulns -> Statuses]
  <1>1. Open \in Statuses /\ Absent \in Statuses
    BY DEF Statuses
  <1>2. Bare(b) \in [(1 .. MaxUploads) \X Vulns -> Statuses]
    BY <1>1 DEF Bare, Findings
  <1>3. QED
    BY <1>1, <1>2 DEF Reopened

LEMMA RemovalStep ==
  ASSUME Findings, NEW b \in 1 .. MaxUploads, Delete(b) \/ PruneSbom(b)
  PROVE  Findings'
  <1>1. /\ changes < MaxChanges /\ changes' = changes + 1 /\ sbom' = Without(b)
        /\ behind' \subseteq behind /\ UNCHANGED <<day, uploads, severity, accepted>>
    BY DEF Delete, PruneSbom, Change
  <1>2. day \in 1 .. day
    BY PostureAssumption DEF Findings, Days
  <1>3. link' \in [(1 .. MaxUploads) \X Vulns -> Statuses]
    <2>1. CASE link' = Bare(b)
      BY <2>1, BareType
    <2>2. CASE \E n : link' = Reconciled(n, Reopened(b, Bare(b)), day)
      <3>1. PICK n : link' = Reconciled(n, Reopened(b, Bare(b)), day)
        BY <2>2
      <3>2. Reopened(b, Bare(b)) \in [(1 .. MaxUploads) \X Vulns -> Statuses]
        BY BareType
      <3>3. QED
        BY <1>2, <3>1, <3>2, ReconciledType
    <2>3. QED
      BY <2>1, <2>2 DEF Delete, PruneSbom
  <1>4. /\ DOMAIN sbom' \subseteq 1 .. uploads'
        /\ \A c \in DOMAIN sbom' : sbom'[c].scope \in Scopes /\ sbom'[c].created \in Days
    BY <1>1 DEF Without, Findings
  <1>5. Statuses' = Statuses
    BY <1>1 DEF Statuses
  <1>6. changes' \in 0 .. MaxChanges
    BY <1>1, PostureAssumption DEF Findings
  <1>7. QED
    BY <1>1, <1>3, <1>4, <1>5, <1>6 DEF Findings

LEMMA AcceptStep ==
  ASSUME Findings, NEW v \in Vulns, NEW s \in Scopes, NEW service, NEW at \in 1 .. day,
         Accept(v, s.project, service, at)
  PROVE  Findings'
  <1>1. /\ changes < MaxChanges /\ changes' = changes + 1
        /\ accepted' = accepted \cup {[vuln |-> v, project |-> s.project, service |-> service, at |-> at]}
        /\ UNCHANGED <<day, uploads, sbom, behind, link, severity>>
    BY DEF Accept, Change
  <1>2. s.project \in Projects
    BY PostureAssumption
  <1>3. Statuses' = Statuses
    BY <1>1 DEF Statuses
  <1>4. changes' \in 0 .. MaxChanges
    BY <1>1, PostureAssumption DEF Findings
  <1>5. QED
    BY <1>1, <1>2, <1>3, <1>4 DEF Findings

LEMMA RevertStep ==
  ASSUME Findings, NEW a \in accepted, Revert(a)
  PROVE  Findings'
  <1>1. /\ changes < MaxChanges /\ changes' = changes + 1 /\ accepted' = accepted \ {a}
        /\ UNCHANGED <<day, uploads, sbom, behind, link, severity>>
    BY DEF Revert, Change
  <1>2. Statuses' = Statuses
    BY <1>1 DEF Statuses
  <1>3. changes' \in 0 .. MaxChanges
    BY <1>1, PostureAssumption DEF Findings
  <1>4. QED
    BY <1>1, <1>2, <1>3 DEF Findings

LEMMA NewDayStep ==
  ASSUME Findings, NewDay
  PROVE  Findings'
  <1>1. day < LastDay /\ day' = day + 1
        /\ UNCHANGED <<uploads, sbom, behind, link, severity, accepted, changes>>
    BY DEF NewDay, findings
  <1>2. day' \in Days /\ \A d \in 1 .. day : d \in 1 .. day'
    BY <1>1, PostureAssumption DEF Findings, Days
  <1>3. Statuses \subseteq Statuses'
    BY <1>2 DEF Statuses
  <1>4. link' \in [(1 .. MaxUploads) \X Vulns -> Statuses']
    BY <1>1, <1>3 DEF Findings
  <1>5. QED
    BY <1>1, <1>2, <1>4 DEF Findings

LEMMA CommitStep ==
  ASSUME PostureInv, Commit
  PROVE  PostureInv'
  <1>1. Findings /\ Snapshots
    BY DEF PostureInv
  <1>2. \A at \in {day, day - 1} \cap Days : at \in 1 .. day
    BY <1>1, PostureAssumption DEF Findings, Days
  <1>3. Findings' /\ UNCHANGED <<day, trend, task>>
    <2>1. CASE \E s \in Scopes, d \in Days : Upload(s, d)
      BY <1>1, <2>1, UploadStep DEF Upload
    <2>2. CASE \E b \in 1 .. MaxUploads, vs \in SUBSET Vulns, at \in {day, day - 1} \cap Days :
                 \E report \in [vs -> Severities] : Scan(b, report, at)
      BY <1>1, <1>2, <2>2, ScanStep DEF Scan
    <2>3. CASE \E b \in 1 .. MaxUploads : Delete(b) \/ PruneSbom(b)
      BY <1>1, <2>3, RemovalStep DEF Delete, PruneSbom
    <2>4. CASE \E v \in Vulns, s \in Scopes, at \in {day, day - 1} \cap Days :
                 \E service \in {NoService, s.service} : Accept(v, s.project, service, at)
      BY <1>1, <1>2, <2>4, AcceptStep DEF Accept
    <2>5. CASE \E a \in accepted : Revert(a)
      BY <1>1, <2>5, RevertStep DEF Revert
    <2>6. QED
      BY <2>1, <2>2, <2>3, <2>4, <2>5 DEF Commit
  <1>4. Snapshots'
    BY <1>1, <1>3 DEF Snapshots, trend
  <1>5. QED
    BY <1>3, <1>4 DEF PostureInv

\* A task that goes on has what the step before gave it.
LEMMA TaskSteps ==
  ASSUME Snapshots, NEW w \in Workers
  PROVE  /\ task[w].step = "open" => task[w].target \in Days
         /\ task[w].step = "fixed" => task[w].target \in Days /\ task[w].counts \in Counted
         /\ task[w].step = "upsert" =>
              /\ task[w].target \in Days /\ task[w].counts \in Counted /\ task[w].fixed \in Nat
  <1>1. task[w] \in Tasks
    BY DEF Snapshots
  <1>2. QED
    BY <1>1 DEF Tasks, Waiting

LEMMA TaskStep ==
  ASSUME PostureInv, NEW w \in Workers, NEW d \in Days,
         Beat(w) \/ Step(w) \/ Abort(w) \/ Backfill(w, d)
  PROVE  PostureInv'
  <1>1. Findings /\ Snapshots
    BY DEF PostureInv
  <1>2. UNCHANGED <<day, findings>>
    BY DEF Beat, Step, Abort, Backfill, Start, ReadOpen, ReadFixed, Upsert
  <1>3. changes' \in 0 .. MaxChanges
    <2>1. changes' = changes \/ (changes < MaxChanges /\ changes' = changes + 1)
      BY DEF Beat, Step, Abort, Backfill, Change, ReadOpen, ReadFixed, Upsert
    <2>2. QED
      BY <1>1, <2>1, PostureAssumption DEF Findings
  <1>4. Findings'
    <2>1. Statuses' = Statuses
      BY <1>2 DEF Statuses
    <2>2. QED
      BY <1>1, <1>2, <1>3, <2>1 DEF Findings, findings
  <1>5. Snapshots'
    <2>1. ASSUME NEW target \in Days, Start(w, target)
          PROVE  Snapshots'
      <3>1. [step |-> "open", target |-> target] \in Tasks
        BY DEF Tasks
      <3>2. QED
        BY <1>1, <2>1, <3>1 DEF Start, Snapshots, trend
    <2>2. CASE Beat(w) \/ Backfill(w, d)
      BY <1>1, <2>1, <2>2 DEF Beat, Backfill, Findings
    <2>3. CASE ReadOpen(w)
      <3> DEFINE t == [step |-> "fixed", target |-> task[w].target,
                       counts |-> SnapshotCounts(task[w].target)]
      <3>1. task[w].target \in Days
        BY <1>1, <2>3, TaskSteps DEF ReadOpen
      <3>2. t \in Tasks
        BY <3>1, SnapshotType DEF Tasks
      <3>3. task' = [task EXCEPT ![w] = t] /\ trend' = trend
        BY <2>3 DEF ReadOpen
      <3> HIDE DEF t
      <3>4. QED
        BY <1>1, <3>2, <3>3 DEF Snapshots, trend
    <2>4. CASE ReadFixed(w)
      <3> DEFINE t == [step |-> "upsert", target |-> task[w].target, counts |-> task[w].counts,
                       fixed |-> SnapshotFixed(task[w].target)]
      <3>1. task[w].target \in Days /\ task[w].counts \in Counted
        BY <1>1, <2>4, TaskSteps DEF ReadFixed
      <3>2. t \in Tasks
        BY <3>1, SnapshotType DEF Tasks
      <3>3. task' = [task EXCEPT ![w] = t] /\ trend' = trend
        BY <2>4 DEF ReadFixed
      <3> HIDE DEF t
      <3>4. QED
        BY <1>1, <3>2, <3>3 DEF Snapshots, trend
    <2>5. CASE Upsert(w)
      <3> DEFINE row == [taken |-> TRUE, counts |-> task[w].counts, fixed |-> task[w].fixed]
      <3>1. task[w].target \in Days /\ task[w].counts \in Counted /\ task[w].fixed \in Nat
        BY <1>1, <2>5, TaskSteps DEF Upsert
      <3>2. row \in RowsTaken
        BY <3>1 DEF RowsTaken
      <3>3. /\ snapshot' = [snapshot EXCEPT ![task[w].target] = row]
            /\ task' = [task EXCEPT ![w] = Waiting] /\ taken' = taken \cup {task[w].target}
        BY <2>5 DEF Upsert, Upserted
      <3> HIDE DEF row
      <3>4. QED
        BY <1>1, <3>1, <3>2, <3>3 DEF Snapshots, Tasks
    <2>6. CASE Abort(w)
      BY <1>1, <2>6 DEF Abort, Snapshots, Tasks, trend
    <2>7. QED
      BY <2>2, <2>3, <2>4, <2>5, <2>6 DEF Step
  <1>6. QED
    BY <1>4, <1>5 DEF PostureInv

LEMMA PostureStep == PostureInv /\ [Next]_vars => PostureInv'
  <1> SUFFICES ASSUME PostureInv, [Next]_vars PROVE PostureInv'
    OBVIOUS
  <1>1. CASE Commit
    BY <1>1, CommitStep
  <1>2. CASE NewDay
    BY <1>2, NewDayStep DEF PostureInv, Snapshots, NewDay, trend
  <1>3. CASE PruneSnapshots
    <2>1. Findings'
      BY <1>3 DEF PruneSnapshots, PostureInv, Findings, Statuses, findings
    <2>2. Snapshots'
      BY <1>3 DEF PruneSnapshots, PostureInv, Snapshots
    <2>3. QED
      BY <2>1, <2>2 DEF PostureInv
  <1>4. CASE \E w \in Workers : Beat(w) \/ Step(w) \/ Abort(w) \/ \E d \in Days : Backfill(w, d)
    <2>1. day \in Days
      BY DEF PostureInv, Findings
    <2>2. QED
      BY <1>4, <2>1, TaskStep
  <1>5. CASE UNCHANGED vars
    BY <1>5 DEF vars, findings, trend, PostureInv, Findings, Snapshots, Statuses
  <1>6. QED
    BY <1>1, <1>2, <1>3, <1>4, <1>5 DEF Next

LEMMA PostureInvHolds == Spec => []PostureInv
  BY PostureInit, PostureStep, PTL DEF Spec

\* Every count that a snapshot stores or a task carries is a number per severity, and
\* decisions and repairs are dated no later than today (do_snapshot_metrics,
\* SBOMVulnerability, RiskAcceptance).
THEOREM PostureTypeCorrect == Spec => []TypeOK
  <1>1. PostureInv => TypeOK
    <2> SUFFICES ASSUME PostureInv PROVE TypeOK
      OBVIOUS
    <2>1. Findings /\ Snapshots
      BY DEF PostureInv
    <2>3. \A d \in Days : snapshot[d] # NoRow => snapshot[d].counts \in Counted /\ snapshot[d].fixed \in Nat
      BY <2>1 DEF Snapshots, RowsTaken
    <2>4. \A w \in Workers : task[w].step \in {"wait", "open", "fixed", "upsert"}
      <3>1. \A t \in Tasks : t.step \in {"wait", "open", "fixed", "upsert"}
        BY DEF Tasks, Waiting
      <3>2. QED
        BY <2>1, <3>1 DEF Snapshots
    <2>5. QED
      BY <2>1, <2>3, <2>4 DEF TypeOK, Findings, Snapshots, Statuses
  <1>2. QED
    BY <1>1, PostureInvHolds, PTL

-----------------------------------------------------------------------------
(* What lists and pages show.                                                *)

\* What reconcile_vulnerabilities brings about, and delete_sbom and prune_sboms keep:
\* where the newest SBOM of a scope is the last that was scanned, none of the scope
\* keeps open what that one does not.
Closed ==
  \A s \in Scopes \ behind : \A n \in Newest(s), b \in SbomsOf(s), v \in Vulns :
    link[<<b, v>>] = Open => link[<<n, v>>] = Open

LEMMA NewestOf ==
  ASSUME Findings, NEW s, NEW n \in Newest(s)
  PROVE  /\ n \in SbomsOf(s) /\ n \in DOMAIN sbom /\ sbom[n].scope = s
         /\ \A b \in SbomsOf(s) : b \in DOMAIN sbom /\ sbom[b].scope = s /\ b \in Nat /\ b <= n
         /\ \A b \in SbomsOf(s) : b \in 1 .. MaxUploads
  <1>1. \A b \in DOMAIN sbom : b \in 1 .. MaxUploads /\ b \in Nat
    BY PostureAssumption DEF Findings
  <1>2. QED
    BY <1>1 DEF Newest, SbomsOf

\* The newest SBOM closes in the older ones of its scope what it does not have open.
LEMMA ReconciledCloses ==
  ASSUME Findings, NEW n \in DOMAIN sbom, NEW rows, NEW at \in Nat,
         DOMAIN rows = (1 .. MaxUploads) \X Vulns, at # 0,
         NEW b \in DOMAIN sbom, b <= n, sbom[b].scope = sbom[n].scope, NEW v \in Vulns,
         Reconciled(n, rows, at)[<<b, v>>] = Open
  PROVE  Reconciled(n, rows, at)[<<n, v>>] = Open
  <1>1. b \in 1 .. MaxUploads /\ n \in 1 .. MaxUploads
    BY PostureAssumption DEF Findings
  <1>2. <<b, v>> \in DOMAIN rows /\ <<n, v>> \in DOMAIN rows
    BY <1>1
  <1>3. CASE b = n
    BY <1>3
  <1>4. CASE b # n
    <2>1. b < n
      BY <1>1, <1>4
    <2>2. Fixed(at) # Open
      BY DEF Fixed, Open
    <2>3. Reconciled(n, rows, at)[<<n, v>>] = rows[<<n, v>>]
      BY <1>2 DEF Reconciled
    <2>4. ~(/\ b \in DOMAIN sbom \ {n} /\ sbom[b].scope = sbom[n].scope /\ b < n
            /\ rows[<<b, v>>] = Open /\ rows[<<n, v>>] # Open)
      BY <1>2, <2>2 DEF Reconciled
    <2>5. Reconciled(n, rows, at)[<<b, v>>] = rows[<<b, v>>]
      BY <1>2, <2>4 DEF Reconciled
    <2>6. QED
      BY <1>4, <2>1, <2>3, <2>4, <2>5
  <1>5. QED
    BY <1>3, <1>4

LEMMA ClosedByScan ==
  ASSUME Findings, Closed, NEW b \in 1 .. MaxUploads, NEW at \in 1 .. day,
         NEW vs \in SUBSET Vulns, NEW report \in [vs -> Severities], Scan(b, report, at)
  PROVE  Closed'
  <1>1. /\ b \in DOMAIN sbom /\ sbom' = sbom
        /\ link' = Reconciled(b, Reported(b, report, at), at)
        /\ behind' = IF b \in Newest(sbom[b].scope) THEN behind \ {sbom[b].scope}
                                                    ELSE behind \cup {sbom[b].scope}
    BY DEF Scan
  <1>2. at \in Nat /\ at # 0 /\ DOMAIN link = (1 .. MaxUploads) \X Vulns
    BY PostureAssumption DEF Findings, Days
  <1>3. DOMAIN Reported(b, report, at) = (1 .. MaxUploads) \X Vulns
    BY <1>2 DEF Reported
  <1>4. SUFFICES ASSUME NEW s \in Scopes \ behind', NEW n \in Newest(s), NEW c \in SbomsOf(s),
                        NEW v \in Vulns, link'[<<c, v>>] = Open
                 PROVE  link'[<<n, v>>] = Open
    BY <1>1 DEF Closed, Newest, SbomsOf
  <1>5. /\ c \in DOMAIN sbom /\ sbom[c].scope = s /\ c <= n /\ c \in 1 .. MaxUploads
        /\ n \in DOMAIN sbom /\ sbom[n].scope = s /\ n \in 1 .. MaxUploads
    BY NewestOf
  <1>6. CASE s = sbom[b].scope
    <2>1. b \in Newest(s)
      BY <1>1, <1>4, <1>6
    <2>2. b \in SbomsOf(s) /\ n <= b /\ b <= n /\ b \in Nat /\ n \in Nat
      BY <2>1, NewestOf
    <2>3. b = n
      BY <2>2
    <2> DEFINE rows == Reported(b, report, at)
    <2>4. Reconciled(n, rows, at)[<<c, v>>] = Open
      BY <1>1, <1>4, <2>3
    <2>5. sbom[c].scope = sbom[n].scope
      BY <1>5
    <2> HIDE DEF rows
    <2>6. Reconciled(n, rows, at)[<<n, v>>] = Open
      <3>1. DOMAIN rows = (1 .. MaxUploads) \X Vulns
        BY <1>3 DEF rows
      <3>2. QED
        BY <1>2, <1>5, <2>4, <2>5, <3>1, ReconciledCloses
    <2>7. QED
      BY <1>1, <2>3, <2>6 DEF rows
  <1>7. CASE s # sbom[b].scope
    <2>1. \A x \in {c, n} : link'[<<x, v>>] = link[<<x, v>>]
      <3> SUFFICES ASSUME NEW x \in {c, n} PROVE link'[<<x, v>>] = link[<<x, v>>]
        OBVIOUS
      <3>1. x # b /\ sbom[x].scope # sbom[b].scope /\ <<x, v>> \in (1 .. MaxUploads) \X Vulns
        BY <1>5, <1>7
      <3>2. Reported(b, report, at)[<<x, v>>] = link[<<x, v>>]
        BY <1>2, <3>1 DEF Reported
      <3>3. QED
        BY <1>1, <1>3, <3>1, <3>2 DEF Reconciled
    <2>2. s \notin behind
      BY <1>1, <1>7
    <2>3. QED
      BY <1>4, <2>1, <2>2 DEF Closed
  <1>8. QED
    BY <1>6, <1>7

LEMMA ClosedByDelete ==
  ASSUME Findings, Closed, NEW b \in 1 .. MaxUploads, Delete(b)
  PROVE  Closed'
  <1>1. /\ b \in DOMAIN sbom /\ sbom' = Without(b) /\ behind' = behind \ {sbom[b].scope}
    BY DEF Delete
  <1>2. /\ DOMAIN link = (1 .. MaxUploads) \X Vulns
        /\ day \in Nat /\ day # 0
    BY PostureAssumption DEF Findings, Days
  <1>3. /\ DOMAIN Bare(b) = (1 .. MaxUploads) \X Vulns
        /\ DOMAIN Reopened(b, Bare(b)) = (1 .. MaxUploads) \X Vulns
    BY <1>2 DEF Bare, Reopened
  <1>4. SUFFICES ASSUME NEW s \in Scopes \ behind', NEW n \in Newest(s)', NEW c \in SbomsOf(s)',
                        NEW v \in Vulns, link'[<<c, v>>] = Open
                 PROVE  link'[<<n, v>>] = Open
    BY DEF Closed
  <1>5. \A x \in SbomsOf(s)' : x \in SbomsOf(s) /\ x # b
    BY <1>1 DEF SbomsOf, Without
  <1>6. \A x \in SbomsOf(s) : x \in DOMAIN sbom /\ sbom[x].scope = s /\ x \in 1 .. MaxUploads /\ x \in Nat
    BY PostureAssumption DEF SbomsOf, Findings
  <1>7. n \in SbomsOf(s)' /\ \A x \in SbomsOf(s)' : x <= n
    BY DEF Newest
  <1>8. CASE s = sbom[b].scope
    <2> DEFINE left == SbomsOf(sbom[b].scope) \ {b}
    <2>1. left = SbomsOf(s)'
      BY <1>1, <1>8 DEF SbomsOf, Without
    <2>2. left # {}
      BY <2>1
    <2>3. PICK m \in left : /\ \A x \in left : x <= m
                            /\ link' = Reconciled(m, Reopened(b, Bare(b)), day)
      BY <2>2 DEF Delete
    <2>4. m = n
      <3>1. n <= m /\ m <= n
        BY <1>7, <2>1, <2>3
      <3>2. n \in Nat /\ m \in Nat
        BY <1>5, <1>6, <1>7, <2>1, <2>3
      <3>3. QED
        BY <3>1, <3>2
    <2>5. c <= n /\ c \in DOMAIN sbom /\ n \in DOMAIN sbom /\ sbom[c].scope = sbom[n].scope
      BY <1>5, <1>6, <1>7
    <2>6. QED
      BY <1>2, <1>3, <1>4, <2>3, <2>4, <2>5, ReconciledCloses
  <1>9. CASE s # sbom[b].scope
    <2>1. \A x \in SbomsOf(s) : link'[<<x, v>>] = link[<<x, v>>]
      <3> SUFFICES ASSUME NEW x \in SbomsOf(s) PROVE link'[<<x, v>>] = link[<<x, v>>]
        OBVIOUS
      <3>1. x # b /\ sbom[x].scope # sbom[b].scope /\ <<x, v>> \in (1 .. MaxUploads) \X Vulns
        BY <1>6, <1>9
      <3>2. Bare(b)[<<x, v>>] = link[<<x, v>>]
        BY <1>2, <3>1 DEF Bare
      <3>3. Reopened(b, Bare(b))[<<x, v>>] = link[<<x, v>>]
        BY <1>3, <3>1, <3>2 DEF Reopened, SbomsOf
      <3>4. ASSUME NEW m \in SbomsOf(sbom[b].scope) \ {b}
            PROVE  Reconciled(m, Reopened(b, Bare(b)), day)[<<x, v>>] = link[<<x, v>>]
        <4>1. sbom[m].scope = sbom[b].scope
          BY DEF SbomsOf
        <4>2. QED
          BY <1>3, <3>1, <3>3, <4>1 DEF Reconciled
      <3>5. QED
        BY <3>2, <3>4 DEF Delete
    <2>2. s \notin behind /\ n \in SbomsOf(s) /\ c \in SbomsOf(s)
      BY <1>1, <1>5, <1>7, <1>9
    <2>3. n \in Newest(s)
      <3>1. SbomsOf(s) = SbomsOf(s)'
        BY <1>1, <1>9 DEF SbomsOf, Without
      <3>2. QED
        BY <1>7, <3>1 DEF Newest
    <2>4. QED
      BY <1>4, <2>1, <2>2, <2>3 DEF Closed
  <1>10. QED
    BY <1>8, <1>9

LEMMA ClosedByPrune ==
  ASSUME Findings, Closed, NEW b \in 1 .. MaxUploads, PruneSbom(b)
  PROVE  Closed'
  <1>1. /\ b \in DOMAIN sbom /\ b \notin Newest(sbom[b].scope) /\ sbom' = Without(b)
        /\ link' = Bare(b) /\ behind' = behind
    BY DEF PruneSbom
  <1>2. SUFFICES ASSUME NEW s \in Scopes \ behind, NEW n \in Newest(s)', NEW c \in SbomsOf(s)',
                        NEW v \in Vulns, link'[<<c, v>>] = Open
                 PROVE  link'[<<n, v>>] = Open
    BY <1>1 DEF Closed
  <1>3. \A x \in SbomsOf(s)' : x \in SbomsOf(s) /\ x # b
    BY <1>1 DEF SbomsOf, Without
  <1>4. \A x \in SbomsOf(s) : x # b => x \in SbomsOf(s)'
    BY <1>1 DEF SbomsOf, Without
  <1>5. \A x \in SbomsOf(s) : x \in DOMAIN sbom /\ x \in 1 .. MaxUploads /\ x \in Nat
    BY PostureAssumption DEF SbomsOf, Findings
  <1>6. n \in SbomsOf(s)' /\ \A x \in SbomsOf(s)' : x <= n
    BY DEF Newest
  <1>7. n \in Newest(s)
    <2>1. ASSUME b \in SbomsOf(s) PROVE b <= n
      <3>1. sbom[b].scope = s
        BY <2>1 DEF SbomsOf
      <3>2. PICK x \in SbomsOf(s) : ~(x <= b)
        BY <1>1, <2>1, <3>1 DEF Newest
      <3>3. x # b /\ x \in Nat /\ b \in Nat /\ n \in Nat
        <4>1. n \in SbomsOf(s)
          BY <1>3, <1>6
        <4>2. x \in Nat /\ b \in Nat /\ n \in Nat
          BY <1>5, <2>1, <4>1
        <4>3. QED
          BY <3>2, <4>2
      <3>4. x <= n
        BY <1>4, <1>6, <3>3
      <3>5. QED
        BY <3>2, <3>3, <3>4
    <2>2. QED
      BY <1>3, <1>4, <1>6, <2>1 DEF Newest
  <1>8. \A x \in {c, n} : link'[<<x, v>>] = link[<<x, v>>]
    <2> SUFFICES ASSUME NEW x \in {c, n} PROVE link'[<<x, v>>] = link[<<x, v>>]
      OBVIOUS
    <2>1. x # b /\ <<x, v>> \in DOMAIN link
      BY <1>3, <1>5, <1>6 DEF Findings
    <2>2. QED
      BY <1>1, <2>1 DEF Bare
  <1>9. QED
    BY <1>2, <1>3, <1>7, <1>8 DEF Closed

LEMMA ClosedByUpload ==
  ASSUME Findings, Closed, NEW s \in Scopes, NEW d \in Days, Upload(s, d)
  PROVE  Closed'
  <1>1. /\ sbom' = [b \in DOMAIN sbom \cup {uploads + 1} |->
                      IF b = uploads + 1 THEN [scope |-> s, created |-> d] ELSE sbom[b]]
        /\ behind' = behind \cup {s} /\ link' = link
    BY DEF Upload
  <1>2. \A b \in DOMAIN sbom : b # uploads + 1
    BY PostureAssumption DEF Findings
  <1>3. ASSUME NEW t \in Scopes \ behind' PROVE SbomsOf(t)' = SbomsOf(t)
    BY <1>1, <1>2 DEF SbomsOf
  <1>4. QED
    BY <1>1, <1>3 DEF Closed, Newest

LEMMA ClosedStep == PostureInv /\ Closed /\ [Next]_vars => Closed'
  <1> SUFFICES ASSUME PostureInv, Closed, [Next]_vars PROVE Closed'
    OBVIOUS
  <1>1. Findings /\ \A at \in {day, day - 1} \cap Days : at \in 1 .. day
    BY PostureAssumption DEF PostureInv, Findings, Days
  <1>2. CASE \E s \in Scopes, d \in Days : Upload(s, d)
    BY <1>1, <1>2, ClosedByUpload
  <1>3. CASE \E b \in 1 .. MaxUploads, vs \in SUBSET Vulns, at \in {day, day - 1} \cap Days :
               \E report \in [vs -> Severities] : Scan(b, report, at)
    BY <1>1, <1>3, ClosedByScan
  <1>4. CASE \E b \in 1 .. MaxUploads : Delete(b) \/ PruneSbom(b)
    BY <1>1, <1>4, ClosedByDelete, ClosedByPrune
  <1>5. CASE UNCHANGED <<sbom, behind, link>>
    BY <1>5 DEF Closed, Newest, SbomsOf
  <1>6. QED
    BY <1>2, <1>3, <1>4, <1>5
    DEF Next, Commit, Accept, Revert, NewDay, PruneSnapshots, Beat, Backfill, Start, Step,
        ReadOpen, ReadFixed, Upsert, Abort, vars, findings

LEMMA ClosedHolds == Spec => []Closed
  <1>1. Init => Closed
    BY DEF Init, Closed, SbomsOf
  <1>2. QED
    BY <1>1, ClosedStep, PostureInvHolds, PTL DEF Spec

\* Where the documents are dated in the order of their uploads, the page takes the
\* newest SBOM.
LEMMA PageTakesNewest ==
  ASSUME Findings, NEW s \in Scopes, DatesFollow(s), SbomsOf(s) # {}, NEW latest \in PageChoices
  PROVE  latest[s] \in Newest(s)
  <1>1. latest[s] \in LatestDated(s)
    BY DEF PageChoices
  <1>2. latest[s] \in SbomsOf(s) /\ \A c \in SbomsOf(s) : sbom[c].created <= sbom[latest[s]].created
    BY <1>1 DEF LatestDated
  <1>3. \A c \in SbomsOf(s) : c \in Nat /\ sbom[c].created \in Nat
    BY PostureAssumption DEF SbomsOf, Findings, Days
  <1>4. ASSUME NEW c \in SbomsOf(s) PROVE c <= latest[s]
    <2>1. SUFFICES ASSUME latest[s] < c PROVE FALSE
      BY <1>2, <1>3
    <2>2. sbom[latest[s]].created < sbom[c].created
      BY <1>2, <2>1 DEF DatesFollow
    <2>3. QED
      BY <1>2, <1>3, <2>2
  <1>5. QED
    BY <1>2, <1>4 DEF Newest

LEMMA OpenStatus ==
  ASSUME NEW row \in Statuses, row.status = "open"
  PROVE  row = Open
  BY DEF Statuses, Absent, Open, Fixed

LEMMA ListIsShown ==
  ASSUME Findings, Closed, NEW p \in Projects, UpToDate(p), NEW latest \in PageChoices
  PROVE  VulnsIn(InList(p)) \subseteq VulnsIn(OnPage(p, latest))
  <1> SUFFICES ASSUME NEW r \in InList(p) PROVE r[2] \in VulnsIn(OnPage(p, latest))
    BY DEF VulnsIn
  <1>1. PICK b \in DOMAIN sbom, v \in Vulns : r = <<b, v>> /\ r[1] = b /\ r[2] = v
    BY DEF InList, Linked
  <1>2. link[<<b, v>>].status = "open" /\ ~Covered(b, v) /\ sbom[b].scope.project = p
    BY <1>1 DEF InList, Linked
  <1> DEFINE s == sbom[b].scope
  <1>3. s \in Scopes /\ s \in ScopesOf(p) /\ b \in SbomsOf(s) /\ b \in 1 .. MaxUploads
    BY <1>2, PostureAssumption DEF Findings, ScopesOf, SbomsOf
  <1>4. s \notin behind /\ DatesFollow(s)
    BY <1>3 DEF UpToDate
  <1>5. latest[s] \in Newest(s)
    BY <1>3, <1>4, PageTakesNewest
  <1>6. link[<<b, v>>] = Open
    BY <1>2, <1>3, OpenStatus DEF Findings
  <1>7. link[<<latest[s], v>>] = Open
    BY <1>3, <1>4, <1>5, <1>6 DEF Closed
  <1>8. latest[s] \in DOMAIN sbom /\ sbom[latest[s]].scope = s
    BY <1>5, NewestOf
  <1>9. ~Covered(latest[s], v)
    BY <1>2, <1>8 DEF Covered, Covers
  <1>10. <<latest[s], v>> \in OnPage(p, latest)
    BY <1>3, <1>7, <1>8, <1>9 DEF OnPage, Linked, Open
  <1>11. QED
    BY <1>1, <1>10 DEF VulnsIn

LEMMA ShownIsListed ==
  ASSUME Findings, NEW p \in Projects, NEW latest \in PageChoices
  PROVE  OnPage(p, latest) \subseteq InList(p)
  <1> SUFFICES ASSUME NEW r \in OnPage(p, latest) PROVE r \in InList(p)
    OBVIOUS
  <1>1. r \in Linked("open") /\ ~Covered(r[1], r[2]) /\ r[1] \in DOMAIN sbom
    BY DEF OnPage, Linked
  <1>2. PICK s \in ScopesOf(p) : latest[s] = r[1]
    BY DEF OnPage
  <1>3. s \in Scopes /\ s.project = p /\ latest[s] \in IF SbomsOf(s) = {} THEN {0} ELSE LatestDated(s)
    BY <1>2 DEF ScopesOf, PageChoices
  <1>4. r[1] # 0
    BY <1>1 DEF Findings
  <1>5. r[1] \in SbomsOf(s)
    BY <1>2, <1>3, <1>4 DEF LatestDated
  <1>6. QED
    BY <1>1, <1>3, <1>5 DEF SbomsOf, InList

\* The page of a project whose newest SBOMs are scanned shows what the list has for it,
\* and the dashboard counts what the pages show (dashboard, build_vuln_subquery,
\* _get_project_vulns; reconcile_vulnerabilities, delete_sbom and prune_sboms).
THEOREM PagesShowWhatCounts == Spec => []CountedIsShown
  <1>1. PostureInv /\ Closed => CountedIsShown
    <2> SUFFICES ASSUME Findings, Closed, NEW latest \in PageChoices
                 PROVE  /\ \A p \in Projects : UpToDate(p) => VulnsIn(InList(p)) = VulnsIn(OnPage(p, latest))
                        /\ (\A p \in Projects : UpToDate(p)) =>
                             VulnsIn(OnDashboard) = UNION {VulnsIn(OnPage(p, latest)) : p \in Projects}
      BY DEF PostureInv, CountedIsShown
    <2>1. ASSUME NEW p \in Projects, UpToDate(p)
          PROVE  VulnsIn(InList(p)) = VulnsIn(OnPage(p, latest))
      <3>1. VulnsIn(OnPage(p, latest)) \subseteq VulnsIn(InList(p))
        BY ShownIsListed DEF VulnsIn
      <3>2. QED
        BY <2>1, <3>1, ListIsShown
    <2>2. ASSUME \A p \in Projects : UpToDate(p)
          PROVE  VulnsIn(OnDashboard) = UNION {VulnsIn(OnPage(p, latest)) : p \in Projects}
      <3>1. \A r \in OnDashboard : \E p \in Projects : r \in InList(p)
        <4>1. \A r \in OnDashboard : r[1] \in DOMAIN sbom
          BY DEF OnDashboard, Linked
        <4>2. QED
          BY <4>1, PostureAssumption DEF OnDashboard, InList, Findings
      <3>2. \A p \in Projects : InList(p) \subseteq OnDashboard
        BY DEF OnDashboard, InList
      <3>3. \A v : v \in VulnsIn(OnDashboard) <=> \E p \in Projects : v \in VulnsIn(InList(p))
        BY <3>1, <3>2 DEF VulnsIn
      <3>4. \A v : v \in VulnsIn(OnDashboard) <=> \E p \in Projects : v \in VulnsIn(OnPage(p, latest))
        BY <2>1, <2>2, <3>3
      <3>5. \A v : v \in VulnsIn(OnDashboard)
                     <=> v \in UNION {VulnsIn(OnPage(p, latest)) : p \in Projects}
        BY <3>4
      <3>6. QED
        BY <3>5, Zenon
    <2>3. QED
      BY <2>1, <2>2
  <1>2. QED
    BY <1>1, PostureInvHolds, ClosedHolds, PTL

-----------------------------------------------------------------------------
(* The days that are rebuilt.                                                *)

\* An SBOM that a step deletes leaves no link.
Accounted ==
  \A b \in DOMAIN sbom :
    \/ b \in DOMAIN sbom' /\ sbom'[b] = sbom[b]
    \/ \A v \in Vulns : link'[<<b, v>>] = Absent

\* The links and the decisions of a day that is over are changed in one way only.
LEMMA DayKept ==
  ASSUME PostureInv, PostureInv', Accounted, NEW d \in Nat, d < day
  PROVE  RebuiltOpen(d) \ Rewritten(d) \subseteq RebuiltOpen(d)'
  <1> SUFFICES ASSUME NEW v \in RebuiltOpen(d), v \notin Rewritten(d)
               PROVE  v \in RebuiltOpen(d)'
    OBVIOUS
  <1>1. PICK r \in Linked("open") \cup Linked("fixed") :
          /\ v = r[2] /\ sbom[r[1]].created <= d /\ (link[r].fixed = 0 \/ link[r].fixed > d)
          /\ ~CoveredOn(d, r[1], r[2])
    BY DEF RebuiltOpen, VulnsIn
  <1>2. PICK b \in DOMAIN sbom : v \in Vulns /\ r = <<b, v>> /\ r[1] = b
    BY <1>1 DEF Linked
  <1>3. b \in 1 .. MaxUploads
    BY PostureAssumption DEF PostureInv, Findings
  <1>4. link[r] # Absent
    BY <1>1 DEF Linked, Absent
  <1>5. link'[r] # Absent /\ (link'[r].fixed = 0 \/ link'[r].fixed > d)
    <2>1. link'[r] = link[r] \/ (link'[r] # Absent /\ link'[r].fixed \notin 1 .. d)
      BY <1>2, <1>3 DEF Rewritten
    <2>2. link'[r] \in Statuses'
      BY <1>2, <1>3 DEF PostureInv, Findings
    <2>3. day' \in Nat
      BY PostureAssumption DEF PostureInv, Findings, Days
    <2>4. link'[r].fixed \in Nat
      BY <2>2, <2>3 DEF Statuses, Absent, Open, Fixed
    <2>5. QED
      BY <1>1, <1>4, <2>1, <2>4
  <1>6. b \in DOMAIN sbom' /\ sbom'[b] = sbom[b]
    BY <1>2, <1>5 DEF Accounted
  <1>7. link'[r].status \in {"open", "fixed"}
    <2>1. link'[r] \in Statuses'
      BY <1>2, <1>3 DEF PostureInv, Findings
    <2>2. QED
      BY <1>5, <2>1 DEF Statuses, Open, Fixed
  <1>8. r \in (Linked("open") \cup Linked("fixed"))'
    BY <1>2, <1>6, <1>7 DEF Linked
  <1>9. ~CoveredOn(d, b, v)'
    <2> SUFFICES ASSUME NEW a \in accepted', Covers(a, b, v)', a.at <= d
                 PROVE  FALSE
      BY DEF CoveredOn
    <2>1. a.vuln = v
      BY DEF Covers
    <2>2. a \in accepted
      BY <2>1 DEF Rewritten
    <2>3. Covers(a, b, v)
      BY <1>6 DEF Covers
    <2>4. QED
      BY <1>1, <1>2, <2>2, <2>3 DEF CoveredOn
  <1>10. QED
    BY <1>1, <1>2, <1>5, <1>6, <1>8, <1>9 DEF RebuiltOpen, VulnsIn

\* What is open when a day ends in documents dated by then is in what is rebuilt for it.
LEMMA DayEnds ==
  ASSUME PostureInv
  PROVE  VulnsIn({r \in OnDashboard : sbom[r[1]].created <= day}) \subseteq RebuiltOpen(day)
  <1> SUFFICES ASSUME NEW r \in OnDashboard, sbom[r[1]].created <= day
               PROVE  r[2] \in RebuiltOpen(day)
    BY DEF VulnsIn
  <1>1. /\ r \in Linked("open") /\ r[1] \in DOMAIN sbom /\ r[2] \in Vulns /\ r = <<r[1], r[2]>>
        /\ link[r].status = "open" /\ ~Covered(r[1], r[2])
    BY DEF OnDashboard, Linked
  <1>2. link[r] \in Statuses
    BY <1>1, PostureAssumption DEF PostureInv, Findings
  <1>3. link[r].fixed = 0
    BY <1>1, <1>2 DEF Statuses, Absent, Open, Fixed
  <1>4. ~CoveredOn(day, r[1], r[2])
    BY <1>1 DEF Covered, CoveredOn
  <1>5. QED
    BY <1>1, <1>3, <1>4 DEF RebuiltOpen, VulnsIn

LEMMA StepsAccounted ==
  ASSUME PostureInv, [Next]_vars
  PROVE  Accounted
  <1>1. CASE UNCHANGED sbom
    BY <1>1 DEF Accounted
  <1>2. CASE \E s \in Scopes, d \in Days : Upload(s, d)
    <2>1. PICK s \in Scopes, d \in Days : Upload(s, d)
      BY <1>2
    <2>2. \A b \in DOMAIN sbom : b # uploads + 1
      BY PostureAssumption DEF PostureInv, Findings
    <2>3. QED
      BY <2>1, <2>2 DEF Upload, Accounted
  <1>3. CASE \E b \in 1 .. MaxUploads : Delete(b) \/ PruneSbom(b)
    <2>1. PICK b \in 1 .. MaxUploads : Delete(b) \/ PruneSbom(b)
      BY <1>3
    <2>2. sbom' = Without(b)
      BY <2>1 DEF Delete, PruneSbom
    <2>3. \A c \in DOMAIN sbom : c # b => c \in DOMAIN sbom' /\ sbom'[c] = sbom[c]
      BY <2>2 DEF Without
    <2>4. \A v \in Vulns : link'[<<b, v>>] = Absent
      <3> SUFFICES ASSUME NEW v \in Vulns PROVE link'[<<b, v>>] = Absent
        OBVIOUS
      <3>1. <<b, v>> \in DOMAIN link /\ <<b, v>>[1] = b
        BY DEF PostureInv, Findings
      <3>2. <<b, v>> \in DOMAIN Bare(b) /\ Bare(b)[<<b, v>>] = Absent
        BY <3>1 DEF Bare
      <3>3. <<b, v>> \in DOMAIN Reopened(b, Bare(b)) /\ Reopened(b, Bare(b))[<<b, v>>] = Absent
        BY <3>1, <3>2 DEF Reopened
      <3>4. ASSUME NEW n, NEW at PROVE Reconciled(n, Reopened(b, Bare(b)), at)[<<b, v>>] = Absent
        <4>1. Absent # Open
          BY DEF Absent, Open
        <4>2. QED
          BY <3>3, <4>1 DEF Reconciled
      <3>5. QED
        BY <2>1, <3>2, <3>4 DEF Delete, PruneSbom
    <2>5. QED
      BY <2>2, <2>3, <2>4 DEF Accounted
  <1>4. QED
    BY <1>1, <1>2, <1>3
    DEF Next, Commit, Scan, Accept, Revert, NewDay, PruneSnapshots, Beat, Backfill, Start, Step, ReadOpen,
        ReadFixed, Upsert, Abort, vars, findings

LEMMA Below == \A n \in Nat : \A d \in 1 .. n - 1 : d \in Nat /\ d < n
  OBVIOUS

LEMMA PastDay ==
  ASSUME PostureInv, PostureInv', NEW d \in 1 .. day' - 1
  PROVE  day \in Nat /\ d \in Nat /\ d < day'
  <1>1. day \in Nat /\ day' \in Nat
    BY PostureAssumption DEF PostureInv, Findings, Days
  <1>2. QED
    BY <1>1, Below

\* What was open when a day ended, in documents dated by then, stays in what
\* do_snapshot_metrics rebuilds for that day, unless its SBOM is deleted or a scan or a
\* decision that ran over midnight takes it out as of that day.
THEOREM NothingForgotten == Spec => RebuiltMissesNothing
  <1> DEFINE Dated(d) == VulnsIn({r \in OnDashboard : sbom[r[1]].created <= d})
             Kept == \A d \in 1 .. day' - 1 :
                       (IF d = day THEN Dated(d) ELSE RebuiltOpen(d)) \ Rewritten(d)
                         \subseteq RebuiltOpen(d)'
  <1>1. PostureInv /\ PostureInv' /\ [Next]_vars => Kept
    <2> SUFFICES ASSUME PostureInv, PostureInv', [Next]_vars, NEW d \in 1 .. day' - 1
                 PROVE  (IF d = day THEN Dated(d) ELSE RebuiltOpen(d)) \ Rewritten(d)
                          \subseteq RebuiltOpen(d)'
      OBVIOUS
    <2>1. day' = day \/ NewDay
      BY DEF Next, Commit, Upload, Scan, Delete, PruneSbom, Accept, Revert, PruneSnapshots, Beat,
             Backfill, Start, Step, ReadOpen, ReadFixed, Upsert, Abort, vars
    <2>2. day \in Nat /\ d \in Nat /\ d < day'
      BY PastDay
    <2>3. CASE d = day
      <3>1. NewDay
        BY <2>1, <2>2, <2>3
      <3>2. RebuiltOpen(d)' = RebuiltOpen(d)
        BY <3>1 DEF NewDay, findings, RebuiltOpen, VulnsIn, Linked, CoveredOn, Covers
      <3>3. Dated(d) \subseteq RebuiltOpen(d)
        BY <2>3, DayEnds
      <3>4. QED
        BY <2>3, <3>2, <3>3
    <2>4. CASE d # day
      <3>1. d < day
        BY <2>1, <2>2, <2>4 DEF NewDay
      <3>2. QED
        BY <2>2, <2>4, <3>1, DayKept, StepsAccounted
    <2>5. QED
      BY <2>3, <2>4
  <1>2. QED
    BY <1>1, PostureInvHolds, PTL DEF Spec, RebuiltMissesNothing
=============================================================================
