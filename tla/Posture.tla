--------------------------------- MODULE Posture ---------------------------------
(***************************************************************************)
(* What the system reports: open and fixed findings on the dashboard, in    *)
(* the list of vulnerabilities and on the project page, and the daily       *)
(* snapshots behind the trend.                                              *)
(* Scans, deletes and decisions are taken as they commit (ScanPipeline,     *)
(* Catalogue); a snapshot task is taken statement by statement, for its     *)
(* statements see different commits.  Left out: total_dependencies, scores, *)
(* the labels of findings.                                                  *)
(***************************************************************************)
EXTENDS Naturals, FiniteSets

CONSTANTS
  MaxUploads,   \* bound: SBOMs are 1, 2, ... in the order of uploaded_at
  Vulns, Projects, NoService,
  Scopes,       \* the [project, service] pairs SBOMs are uploaded to
  Severities,   \* values of vulnerabilities.severity
  Shown,        \* those that have a column of their own
  LastDay,      \* bound: days are 1 .. LastDay
  Retention,    \* snapshot_retention_days
  Workers,      \* snapshot tasks that may run at a time
  MaxChanges    \* bound: other commits, aborts and backfills

ASSUME PostureAssumption ==
  /\ MaxUploads \in Nat /\ LastDay \in Nat \ {0} /\ MaxChanges \in Nat
  /\ Retention \in Nat \ {0} /\ IsFiniteSet(Vulns)
  /\ Shown \subseteq Severities /\ Shown # Severities   \* UNKNOWN is not shown
  /\ \A s \in Scopes : s.project \in Projects

VARIABLES
  day,        \* date.today() and the date of now()
  uploads,    \* SBOMs uploaded so far
  sbom,       \* the stored ones: scope and created_at, the document's date
  behind,     \* scopes whose newest SBOM is not the last that was scanned
  link,       \* link[b, v]: status, and the day of fixed_at
  severity,   \* severity[v]
  accepted,   \* risk_acceptances
  snapshot,   \* snapshot[d]: the row of vulnerability_snapshots, or NoRow
  taken,      \* the days that a snapshot was ever stored for
  task,       \* task[w]: what a snapshot task has read
  changes

findings == <<uploads, sbom, behind, link, severity, accepted>>
trend == <<snapshot, taken>>
vars == <<day, findings, trend, task, changes>>

Days == 1 .. LastDay
Absent   == [status |-> "absent", fixed |-> 0]
Open     == [status |-> "open", fixed |-> 0]
Fixed(d) == [status |-> "fixed", fixed |-> d]
NoRow    == [taken |-> FALSE]
Waiting  == [step |-> "wait"]

Counted == [Shown -> Nat]

TypeOK ==
  /\ day \in Days /\ uploads \in 0 .. MaxUploads /\ changes \in 0 .. MaxChanges
  /\ DOMAIN sbom \subseteq 1 .. uploads
  /\ \A b \in DOMAIN sbom : sbom[b].scope \in Scopes /\ sbom[b].created \in Days
  /\ behind \subseteq Scopes /\ taken \subseteq Days
  /\ link \in [(1 .. MaxUploads) \X Vulns -> {Absent, Open} \cup {Fixed(d) : d \in 1 .. day}]
  /\ severity \in [Vulns -> Severities]
  /\ \A a \in accepted : a.vuln \in Vulns /\ a.at \in 1 .. day /\ a.project \in Projects
  /\ \A d \in Days : snapshot[d] # NoRow => snapshot[d].counts \in Counted /\ snapshot[d].fixed \in Nat
  /\ \A w \in Workers : task[w].step \in {"wait", "open", "fixed", "upsert"}

Init ==
  /\ day = 1 /\ uploads = 0 /\ changes = 0
  /\ sbom = <<>> /\ behind = {} /\ accepted = {} /\ taken = {}
  /\ link = [r \in (1 .. MaxUploads) \X Vulns |-> Absent]
  /\ severity = [v \in Vulns |-> CHOOSE s \in Severities \ Shown : TRUE]
  /\ snapshot = [d \in Days |-> NoRow]
  /\ task = [w \in Workers |-> Waiting]

---------------------------------------------------------------------------
(* What counts as open *)

Covers(a, b, v) ==
  /\ a.vuln = v /\ a.project = sbom[b].scope.project
  /\ a.service \in {NoService, sbom[b].scope.service}

Covered(b, v) == \E a \in accepted : Covers(a, b, v)

ScopesOf(p)    == {s \in Scopes : s.project = p}
SbomsOf(s)     == {b \in DOMAIN sbom : sbom[b].scope = s}
Linked(status) == {r \in (DOMAIN sbom) \X Vulns : link[r].status = status}
VulnsIn(rows)  == {r[2] : r \in rows}
Tally(vulns, sevs) == [s \in sevs |-> Cardinality({v \in vulns : severity[v] = s})]

\* What is open and not accepted is written out by every query for itself: the
\* cards of the dashboard ...
OnDashboard     == {r \in Linked("open") : ~Covered(r[1], r[2])}
DashboardCounts == Tally(VulnsIn(OnDashboard), Shown)
FixedCount      == Cardinality(VulnsIn(Linked("fixed")))

\* ... the list of vulnerabilities, of one project (build_vuln_subquery) ...
InList(p) == {r \in Linked("open") : ~Covered(r[1], r[2]) /\ sbom[r[1]].scope.project = p}

\* ... and the project page, for the SBOMs that it takes for the latest.
OnPage(p, latest) ==
  {r \in Linked("open") : ~Covered(r[1], r[2]) /\ \E s \in ScopesOf(p) : latest[s] = r[1]}

\* These are the latest by the document's date, any of those with one date ...
LatestDated(s) == {b \in SbomsOf(s) : \A c \in SbomsOf(s) : sbom[c].created <= sbom[b].created}
PageChoices ==
  {latest \in [Scopes -> 0 .. uploads] :
     \A s \in Scopes : latest[s] \in IF SbomsOf(s) = {} THEN {0} ELSE LatestDated(s)}
\* ... and for the scan pipeline the one uploaded last.
Newest(s) == {b \in SbomsOf(s) : \A c \in SbomsOf(s) : c <= b}

---------------------------------------------------------------------------
(* Commits of scans, requests and retention *)

Change == changes < MaxChanges /\ changes' = changes + 1

\* The document says what it is dated, and may be dated in the future.
Upload(s, d) ==
  /\ uploads < MaxUploads
  /\ uploads' = uploads + 1
  /\ sbom' = [b \in DOMAIN sbom \cup {uploads + 1} |->
                IF b = uploads + 1 THEN [scope |-> s, created |-> d] ELSE sbom[b]]
  /\ behind' = behind \cup {s}
  /\ UNCHANGED <<day, link, severity, accepted, trend, task, changes>>

\* Mutant: what b has had open counts as what it has open.
ReconciledWithLinked(b, rows, at) ==
  [r \in DOMAIN rows |->
     IF /\ r[1] \in DOMAIN sbom \ {b} /\ sbom[r[1]].scope = sbom[b].scope /\ r[1] < b
        /\ rows[r] = Open /\ rows[<<b, r[2]>>] = Absent
     THEN Fixed(at) ELSE rows[r]]

\* reconcile_vulnerabilities(b): older SBOMs of the scope keep open what b has open.
Reconciled(b, rows, at) ==
  [r \in DOMAIN rows |->
     IF /\ r[1] \in DOMAIN sbom \ {b} /\ sbom[r[1]].scope = sbom[b].scope /\ r[1] < b
        /\ rows[r] = Open /\ rows[<<b, r[2]>>] # Open
     THEN Fixed(at) ELSE rows[r]]

\* What grype reports of b is linked, what it no longer reports is closed.
Reported(b, report, at) ==
  [r \in DOMAIN link |->
     IF r[1] = b /\ link[r] = Absent /\ r[2] \in DOMAIN report THEN Open
     ELSE IF r[1] = b /\ link[r] = Open /\ r[2] \notin DOMAIN report THEN Fixed(at)
     ELSE link[r]]

\* A scan of b that reports the given severities; at is the day of its statements,
\* which is over if the scan commits after midnight.
Scan(b, report, at) ==
  /\ Change /\ b \in DOMAIN sbom
  /\ link' = Reconciled(b, Reported(b, report, at), at)
  /\ severity' = [v \in Vulns |-> IF v \in DOMAIN report THEN report[v] ELSE severity[v]]
  /\ behind' = IF b \in Newest(sbom[b].scope) THEN behind \ {sbom[b].scope}
                                             ELSE behind \cup {sbom[b].scope}
  /\ UNCHANGED <<day, uploads, sbom, accepted, trend, task>>

Without(b) == [c \in DOMAIN sbom \ {b} |-> sbom[c]]
Bare(b)    == [r \in DOMAIN link |-> IF r[1] = b THEN Absent ELSE link[r]]

\* Mutant: the reopened rows keep fixed_at.
ReopenedOnly(b, rows) ==
  [r \in DOMAIN rows |->
     IF r[1] \in SbomsOf(sbom[b].scope) \ {b} /\ rows[r].status = "fixed"
     THEN [rows[r] EXCEPT !.status = "open"] ELSE rows[r]]

Reopened(b, rows) ==
  [r \in DOMAIN rows |->
     IF r[1] \in SbomsOf(sbom[b].scope) \ {b} /\ rows[r].status = "fixed" THEN Open ELSE rows[r]]

\* DELETE /sboms: reopen the scope, then close it again against the newest one left.
Delete(b) ==
  LET left == SbomsOf(sbom[b].scope) \ {b} IN
  /\ Change /\ b \in DOMAIN sbom
  /\ sbom' = Without(b)
  /\ \/ left = {} /\ link' = Bare(b)
     \/ \E n \in left :
          /\ \A c \in left : c <= n
          /\ link' = Reconciled(n, Reopened(b, Bare(b)), day)
  /\ behind' = behind \ {sbom[b].scope}
  /\ UNCHANGED <<day, uploads, severity, accepted, trend, task>>

\* prune_sboms, with sbom_retention_days of one or more: never the newest of a
\* scope, and nothing is reopened.
PruneSbom(b) ==
  /\ Change /\ b \in DOMAIN sbom /\ b \notin Newest(sbom[b].scope)
  /\ sbom[b].created + 1 < day
  /\ sbom' = Without(b) /\ link' = Bare(b)
  /\ UNCHANGED <<day, uploads, behind, severity, accepted, trend, task>>

\* Only a finding that is open in the scope is accepted ...
OpenIn(v, p, service) ==
  \E r \in Linked("open") :
     /\ r[2] = v /\ sbom[r[1]].scope.project = p
     /\ service \in {NoService, sbom[r[1]].scope.service}

\* ... unless there is a decision for the scope, or for a part of it.
Decided(v, p, service) ==
  {a \in accepted : a.vuln = v /\ a.project = p
                    /\ (service = NoService \/ a.service \in {NoService, service})}

\* created_at is the time the transaction began, before midnight perhaps.
Accept(v, p, service, at) ==
  /\ Change
  /\ OpenIn(v, p, service) /\ Decided(v, p, service) = {}
  /\ accepted' = accepted \cup {[vuln |-> v, project |-> p, service |-> service, at |-> at]}
  /\ UNCHANGED <<day, uploads, sbom, behind, link, severity, trend, task>>

Revert(a) ==
  /\ Change /\ a \in accepted
  /\ accepted' = accepted \ {a}
  /\ UNCHANGED <<day, uploads, sbom, behind, link, severity, trend, task>>

NewDay ==
  /\ day < LastDay /\ day' = day + 1
  /\ UNCHANGED <<findings, trend, task, changes>>

---------------------------------------------------------------------------
(* snapshot_metrics *)

\* Today's findings; no severity at all is like one that has no column.
OnSnapshotDay == {r \in Linked("open") : ~Covered(r[1], r[2])}

\* A past day is rebuilt: detected_at is the date of the SBOM's document.
CoveredOn(d, b, v) == \E a \in accepted : Covers(a, b, v) /\ a.at <= d

\* Mutant: what has been fixed since is left out.
RebuiltStillOpen(d) == VulnsIn({r \in Linked("open") : sbom[r[1]].created <= d /\ ~CoveredOn(d, r[1], r[2])})

RebuiltOpen(d) ==
  VulnsIn({r \in Linked("open") \cup Linked("fixed") :
             /\ sbom[r[1]].created <= d
             /\ link[r].fixed = 0 \/ link[r].fixed > d
             /\ ~CoveredOn(d, r[1], r[2])})

SnapshotCounts(target) ==
  Tally(IF target = day THEN VulnsIn(OnSnapshotDay) ELSE RebuiltOpen(target), Shown)

SnapshotFixed(target) ==
  Cardinality(VulnsIn({r \in Linked("fixed") : link[r].fixed <= target}))

Start(w, target) ==
  /\ task[w] = Waiting
  /\ task' = [task EXCEPT ![w] = [step |-> "open", target |-> target]]
  /\ UNCHANGED <<day, findings, trend>>

\* Every hour, or from the dashboard.
Beat(w) == Start(w, day) /\ UNCHANGED changes
\* The date argument of the task.
Backfill(w, d) == d < day /\ Start(w, d) /\ Change

\* Whether the target is today is decided once more by the statement that reads.
ReadOpen(w) ==
  /\ task[w].step = "open"
  /\ task' = [task EXCEPT ![w] = [step |-> "fixed", target |-> task[w].target,
                                  counts |-> SnapshotCounts(task[w].target)]]
  /\ UNCHANGED <<day, findings, trend, changes>>

ReadFixed(w) ==
  /\ task[w].step = "fixed"
  /\ task' = [task EXCEPT ![w] = [step |-> "upsert", target |-> task[w].target,
                                  counts |-> task[w].counts,
                                  fixed |-> SnapshotFixed(task[w].target)]]
  /\ UNCHANGED <<day, findings, trend, changes>>

\* Mutant: ON CONFLICT DO NOTHING.
InsertOnly(d, row) == IF snapshot[d] = NoRow THEN row ELSE snapshot[d]

Upserted(d, row) == row

Upsert(w) ==
  LET t == task[w] IN
  /\ t.step = "upsert"
  /\ snapshot' = [snapshot EXCEPT ![t.target] =
                    Upserted(t.target, [taken |-> TRUE, counts |-> t.counts, fixed |-> t.fixed])]
  /\ taken' = taken \cup {t.target}
  /\ task' = [task EXCEPT ![w] = Waiting]
  /\ UNCHANGED <<day, findings, changes>>

Abort(w) ==
  /\ task[w] # Waiting /\ Change
  /\ task' = [task EXCEPT ![w] = Waiting]
  /\ UNCHANGED <<day, findings, trend>>

\* Mutant: the window is one day too short.
ExpiredEarly(d) == d + Retention <= day + 1

Expired(d) == d + Retention <= day

PruneSnapshots ==
  /\ \E d \in Days : snapshot[d] # NoRow /\ Expired(d)
  /\ snapshot' = [d \in Days |-> IF Expired(d) THEN NoRow ELSE snapshot[d]]
  /\ UNCHANGED <<day, findings, taken, task, changes>>

\* The chart of the dashboard: the rows of the last dates, snapshot_retention_days
\* of them at most.
Chart == {d \in Days : snapshot[d] # NoRow
            /\ Cardinality({e \in Days : e > d /\ snapshot[e] # NoRow}) < Retention}

---------------------------------------------------------------------------
Step(w) == ReadOpen(w) \/ ReadFixed(w) \/ Upsert(w)

Commit ==
  \/ \E s \in Scopes, d \in Days : Upload(s, d)
  \/ \E b \in 1 .. MaxUploads, vs \in SUBSET Vulns, at \in {day, day - 1} \cap Days :
       \E report \in [vs -> Severities] : Scan(b, report, at)
  \/ \E b \in 1 .. MaxUploads : Delete(b) \/ PruneSbom(b)
  \/ \E v \in Vulns, s \in Scopes, at \in {day, day - 1} \cap Days :
       \E service \in {NoService, s.service} : Accept(v, s.project, service, at)
  \/ \E a \in accepted : Revert(a)

Next ==
  \/ Commit
  \/ NewDay
  \/ PruneSnapshots
  \/ \E w \in Workers : Beat(w) \/ Step(w) \/ Abort(w) \/ \E d \in Days : Backfill(w, d)

Spec == Init /\ [][Next]_vars

\* Beat keeps sending, workers keep working; nothing obliges anyone to upload.
Fairness ==
  /\ \A w \in Workers : WF_vars(Beat(w)) /\ WF_vars(Step(w))
  /\ WF_vars(PruneSnapshots)

FairSpec == Spec /\ Fairness

---------------------------------------------------------------------------
(* Properties *)

\* The documents of a scope are dated in the order of their uploads.
DatesFollow(s) == \A b, c \in SbomsOf(s) : b < c => sbom[b].created < sbom[c].created

\* The scopes of p in which the newest SBOM was scanned, or reconciled with, last, and
\* is the one with the latest document too.
UpToDate(p) == \A s \in ScopesOf(p) : s \notin behind /\ DatesFollow(s)

\* The page of such a project shows exactly what the list has for it, and the dashboard
\* counts what the pages show: whatever was scanned, deleted, pruned, accepted and
\* reverted, no older SBOM keeps open what the newest of its scope does not.
CountedIsShown ==
  \A latest \in PageChoices :
    /\ \A p \in Projects : UpToDate(p) => VulnsIn(InList(p)) = VulnsIn(OnPage(p, latest))
    /\ (\A p \in Projects : UpToDate(p)) =>
         VulnsIn(OnDashboard) = UNION {VulnsIn(OnPage(p, latest)) : p \in Projects}

\* The vulnerabilities whose day d a step rewrites: their links vanish with the
\* SBOM, a scan that ran over midnight closes them as of that day, or a decision
\* that was requested by then is stored.
Rewritten(d) ==
  {v \in Vulns : \E b \in 1 .. MaxUploads :
     /\ link[<<b, v>>] # link'[<<b, v>>]
     /\ link'[<<b, v>>] = Absent \/ link'[<<b, v>>].fixed \in 1 .. d}
    \cup {a.vuln : a \in {new \in accepted' \ accepted : new.at <= d}}

\* What was open when a day ended, in documents dated by then, stays in what snapshots
\* rebuild for that day, whatever is scanned, reopened, accepted and reverted
\* afterwards, unless its SBOM is deleted or a scan or a decision ran over midnight.
RebuiltMissesNothing ==
  [][\A d \in 1 .. day' - 1 :
       LET dated == VulnsIn({r \in OnDashboard : sbom[r[1]].created <= d})
           open  == IF d = day THEN dated ELSE RebuiltOpen(d) IN
       open \ Rewritten(d) \subseteq RebuiltOpen(d)']_vars

\* Once findings and decisions stay as they are, the snapshot of the day comes
\* to show them, whatever overlapping and aborted tasks wrote before.
SnapshotSettles ==
  <>[](snapshot[day] # NoRow /\ snapshot[day].counts = DashboardCounts
                             /\ snapshot[day].fixed = FixedCount)

\* In the end the chart shows all snapshots that were taken of the days of the
\* retention window, and no other.
ChartSettles == <>[](Chart = {d \in taken : d + Retention > day})
=============================================================================
