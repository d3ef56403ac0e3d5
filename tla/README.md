# Argus SBOM Guard: verification project

TLA+ modules, TLC configurations and TLAPS proofs for Argus SBOM Guard
(`src/app`), a service that stores SBOMs, scans them with Grype, keeps a table
of open and fixed findings current, alerts and reports about them.  Paths below are
relative to `src/`.

## 1. Inventory

| Component | Code | State | Operations | Interacts with |
|---|---|---|---|---|
| SBOM upload | `app/api/v1/sboms.py`, `app/services/grpc_server.py`, `app/services/sbom_parser.py` | `sboms`, `dependencies`, `services` rows | upload (HTTP, gRPC), deduplication by sha256, creation of a service on the fly | publishes `scan_sbom` after its commit |
| Scan pipeline | `app/services/scanning.py`, `app/services/vulnerability_scanner.py` | `sbom_vulnerabilities` (open or fixed links), `vulnerabilities` | link matches, retire stale findings, reconcile older SBOMs | run by a Celery worker; calls the `grype` binary |
| Queue and schedule | `app/services/tasks.py`, `app/celery_app.py` | RabbitMQ queue, beat schedule | periodic rescan, prune, snapshot and alert tasks; late acknowledgement | starts the pipeline, retention, snapshots, alerts |
| SBOM delete | `app/api/v1/sboms.py` | `sboms`, `sbom_vulnerabilities` | delete, reopen the scope, reconcile against the newest SBOM left | shares reconciliation and rows with scans |
| Retention | `app/services/retention.py` | `sboms`, links, global snapshots | prune expired SBOMs that are not the newest of their scope | shares rows with scans and deletes |
| Database sessions | `app/database.py`, `app/services/tasks.py` | one transaction per request or task, READ COMMITTED | commit, rollback | all of the above |
| Alert delivery | `app/services/alerting.py`, `app/api/v1/alerts.py`, `app/services/notifications.py` | `alert_rules`, `notifications` (status, attempts, services) | check open findings, deliver, retry, give up, resend, resolve; rule CRUD | reads findings and acceptances; SMTP, Slack, Discord |
| Risk acceptance | `app/api/v1/vulnerabilities.py`, `app/services/acceptance.py` | `risk_acceptances` | accept at project or service scope, revert | hides findings from alerts, snapshots and lists |
| Snapshots | `app/services/snapshots.py` | `vulnerability_snapshots` | hourly upsert of the day's counts, reconstruction of a past day | reads findings and acceptances |
| Projects, services | `app/api/v1/projects.py`, `app/api/v1/services.py` | `projects`, `services` | create, update, delete | a service with SBOMs cannot be deleted |
| API keys, sessions | `app/services/auth.py`, `app/api/auth.py`, `app/middleware/` | `api_keys`, cookies | create, authenticate, expire, revoke, log in and out | guards every endpoint |
| Pagination | `app/services/pagination.py` | none | page arithmetic | list endpoints and pages |
| Start of a process | `app/entrypoint.py`, `app/main.py`, `app/migrations/` | the schema, the admin user | migrate with retries, seed, serve | before everything else |
| MCP server, pages, health checks, configuration, telemetry | `app/services/mcp_server.py`, `app/api/pages/`, `app/api/healthchecks.py`, `app/config.py`, `app/services/otel.py` | none of their own | queries, rendering, start-up | read the tables above |

What is hard in this code: every request and task is one transaction, and scans
(minutes long, with an external process in the middle), deletes and the
retention job change the same link rows without explicit locks.  Scans of the
SBOMs of one service run on several workers and finish in any order; messages
are published after the commit and acknowledged after the task; `uploaded_at`
is the start of a transaction and not its end.  Snapshots and alert runs work
from what several statements have read at different times, and send or write
afterwards.  Requests check with a SELECT and write later, so only keys, foreign
keys and unique indexes hold between them.  What makes each component correct:

* **scan pipeline, delete, retention**: a link belongs to a stored SBOM; a
  finding is closed only by its own SBOM's scan or by reconciliation against a
  newer SBOM of the same service; the newest SBOM survives the retention job;
  lost scans are made up for; lock waits end.
* **alert delivery**: each episode of an open finding is notified once per set of
  affected services, retries are bounded, a crash repeats rather than loses, and
  a finding that stays open ends up notified.
* **upload, projects, services, risk acceptance**: one row per document, name and
  slug under racing requests; rows refer to rows that are there; deleting a
  service takes none of the SBOMs along that it had.
* **snapshots and queries**: once the newest SBOMs are scanned, what the dashboard
  counts is what the project pages show; the row of the day comes to show it too, a
  day that is rebuilt later misses nothing that was dated by then, and the chart has
  the whole of its window.
* **pagination**: a list that stays as it is is returned whole, each row once;
  readers come to an end.
* **start, API keys and sessions**: a process that serves has its tables and its
  user and comes up in the end; a key in use is a stored one; keys and codes that
  have lapsed let nobody in any more; requests that wait for one row are all answered.

## 2. Modules

| Module | Models | Uses |
|---|---|---|
| `ScanPipeline` | upload, queue, scan, delete and retention, statement by statement | implements `FindingLedger` |
| `FindingLedger` | what the pipeline promises about the committed findings | |
| `ScanPipelineProofs`, `LedgerProofs`, `RetentionProofs` | proofs about `ScanPipeline`: links and locks; transactions and the refinement of `FindingLedger`; retention | each extends the one before, the first `ScanPipeline` |
| `AlertDelivery` | `check_alerts` runs and the alert-rule requests | takes the open findings as an input that changes |
| `Catalogue` | projects, services, the rows an upload writes, risk acceptances | takes a scan as a step that opens or closes a finding |
| `Posture` | what dashboard, list, project page and snapshots take for open, the daily snapshots | takes scans, deletes and decisions as they commit |
| `Paging` | `paginate` and the lists that are read page by page | any table that changes |
| `Accounts` | start of the processes, login codes, cookie, API keys | |
| `AlertDeliveryProofs`, `CatalogueProofs`, `PostureProofs`, `PagingProofs`, `AccountsProofs` | proofs about the module of the name | extend it |
| `MC...` | instances for TLC; `MCAlertEpisodes` adds a history variable | |

The modules cut the system where the code does: `ScanPipeline` owns the links,
and what the others need of it (findings open and close, SBOMs vanish) is a step
of their environment.

## 3. ScanPipeline and FindingLedger

### State

| Variable | In the code |
|---|---|
| `life`, `stamp`, `clock` | a row of `sboms` (absent, uncommitted, committed, deleted), its `uploaded_at` (server default `now()`: the start of the transaction), the database clock |
| `link` | the committed `sbom_vulnerabilities` rows, keyed by (SBOM, finding); a finding is a (purl, vulnerability) pair, `Cve` its vulnerability |
| `queue` | messages `scan_sbom(id)` at the broker |
| `feed` | what Grype would report for an SBOM with its present database |
| `pc`, `sbom`, `report`, `older`, `keep`, `doomed` | the next statement of a task or request and its Python locals |
| `writes` | its uncommitted row changes, which are also its row locks |

### Actions

An action is one SQL statement (with the code up to the next one), one external
call, or one step of the environment.

* *Upload*: `BeginUpload`, then `Upload`, `UploadUnpublished` (the commit
  succeeded, `scan_sbom.delay` raised) or, for a document that is stored already,
  `UploadAgain`.
* *Scan* (`do_scan_sbom`): `StartScan` or `ScanMissing`, `RunGrype` or
  `GrypeFails`, `LinkMatches`, `RetireStale`, then reconciliation.
* *Reconciliation* (`reconcile_vulnerabilities`): `FindOlder` (which returns
  early when there is none), `ReadCurrent`, `CloseOlder`, then `Commit`.
* *Delete* (`delete_sbom`): `BeginDelete`, `DeleteChildren`, `DeleteParents` or
  `ForeignKeyRefuses`, `ReopenSiblings`, then reconciliation.
* *Retention* (`prune_sboms`): `BeginPrune`, `DeleteChildren`, `Retarget`,
  `DeleteParents` or `ForeignKeyRefuses`, `Commit`.
* *Environment*: `Rescan`, `RescanCut`, `FeedUpdate`, `Lost` (a crash or an
  exception), `Redelivered` (late acknowledgement), `DeadlockVictim`.

The database is PostgreSQL at READ COMMITTED, modelled from how the code uses
it: a statement sees the committed rows under its own transaction's writes
(`Seen`, `SeenSboms`); a statement that wants a row another transaction has
written waits (`Blockers`, `At`) and looks at the committed row afterwards; an
insert of a link needs the SBOM row, and holds it against deletion (`Inserting`);
a cycle of waits aborts one member.

### Abstractions

* The loop over the matches of one report is one step, and so is the loop over
  the SBOMs a delete reopens.  A transaction can fail between any two steps, so
  what is lost is only a deadlock with half of such a loop's locks taken.
* The two opening SELECTs of a delete are one step.
* A wait re-reads the whole statement when it ends; PostgreSQL re-evaluates only
  the rows it waited for.  Rows that became visible during the wait are included.
* The queue is an unordered bag with at most `MaxQueued` messages per SBOM; one
  more is the same message again.
* Two uploads never get the same `uploaded_at` (microseconds): ties, which the
  ranking breaks by id, do not occur.
* `Expired` does not change during a behaviour.
* `dependencies` rows and vulnerability metadata are left out; project and
  service rows are in `Catalogue`, the scope of an SBOM is a constant here.

### FindingLedger

The promise about the committed table, with no statements, locks, queues or
faults.  `Store` adds an SBOM; `ScanCommitted(s)` opens and closes findings of
`s` and closes findings of strictly older SBOMs of its scope; `Deleted(s)` takes
the links of `s` and changes only its scope; `Pruned(S)` takes expired SBOMs.
`ScanPipeline!ImplementsLedger` maps `stored` to the committed SBOMs and
`arrival` to `stamp` from the commit on.

### Not kept

These statements of the documentation and the comments do not hold of the code, and the
properties named here hold only where the processes do not meet.

* A delete of the newest SBOM during its scan: the scan goes on, finds no open link of the
  deleted SBOM and closes the findings of the SBOM that is the newest now.
  `LatestClosedOnlyByOwnScan` therefore holds without deletes.
* A delete of the newest SBOM that commits while the retention job waits for its own
  commit leaves the service empty (`app/services/retention.py:29` promises that it
  never is).  `PruneKeepsLatest` and `LinksVanishWithSbom` hold
  without deletes.
* The scan of an older SBOM that commits last leaves open what the newer one no
  longer has; the next rescan closes it (`OpenConverges`).
* A delete reopens the retired findings of the newest SBOM as well
  (the comment at `app/api/v1/sboms.py:247` speaks of older ones), until a rescan.
* A finding that was retired and is reported again for the same SBOM stays
  `fixed`: `_link_vulnerability` returns when a link exists
  (`app/services/vulnerability_scanner.py:193`).

## 4. The other components

### AlertDelivery

`exposed` is the join of open findings with acceptances, `rule` and `notes` are
`alert_rules` and `notifications`.  `pc`, `seen`, `alerts`, `loaded`, `existing`, `added`
and `todo` are the locals and the ORM session of each `do_check_alerts`: the findings and
rules it has read, its notifications as loaded and as changed, those it will insert and
the pairs it has left.  A run is `Start` (reads the findings), `ReadRules` (none
enabled: it returns), `Load`, `FlushResolved` (the autoflush before the next
SELECT, which locks the resolved rows), `Skip`, `Resend` or `Deliver` for each due
pair, and `Commit`, which writes the changed columns over the rows as they are by
then.  `RuleVanished` is the failed flush after a rule was deleted, `Crash` a lost
worker.  `hist` counts attempts and sends per episode and scope for the
properties.  The order of a pair's rows by `created_at` is not kept, so a run with
several of them decides by any one.  When runs overlap twice, a row may combine the
status one of them wrote with the services of another, since a commit writes the changed
columns only; `SentWasDelivered` is stated up to the first overlap.  Rows that are resolved and in nobody's hands
are dropped, which bounds `Ids`.

### Catalogue

Ids are handed out once.  A request is a sequence of SELECTs (`req[q]` keeps what
they found) and one step that writes and commits: `Create`, `Rename`, `DropProject`,
`DropService`, `Store`, `Accept`.  A write that would wait for a lock is a step
taken later; a unique index or foreign key that refuses it ends the request
(`Refused`), as do the 404, 409 and 422 answers.  The ORM cascades delete the
children they have loaded and no others: `Load` is the three SELECTs of a project's
delete, `Count` and `LoadSboms` are the count that refuses a service's delete and the
SELECT of its cascade.  Links are loaded with their SBOM, so a scan that inserts one
afterwards may refuse the delete (`ScannedSince`); which links those are is not kept.
`req[q].before` remembers, for `CountedSbomsStay`, the SBOMs a service had when its delete
was requested.

### Posture

`link` has `fixed_at` as a day, `sbom` the date in the document, past or future, by
which days are rebuilt and the project page picks the newest.  The code writes out what is
open and not accepted in each of its queries, and so does the module: `OnDashboard`
(the cards), `InList` (`build_vuln_subquery`), `OnPage` (the project page, for the SBOMs
in `PageChoices`), `OnSnapshotDay` and `RebuiltOpen` (`do_snapshot_metrics`).
`OpenIn` and `Decided` the two checks of `create_risk_acceptance`, `Chart` the rows the
dashboard reads, the last `snapshot_retention_days` of them.  Commits of scans,
deletes, prunes and decisions are single steps; scans and decisions that
commit after midnight may be dated the day before.  `snapshot_metrics` is `ReadOpen`,
`ReadFixed`, `Upsert`, each at its own commit of the rest.  Two variables are for the
properties only: `behind`, the scopes whose newest SBOM is not the last that was
scanned, and `taken`, the days a snapshot was ever stored for.

### Paging

`step`, `list`, `page`, `total` and `times` are one client (`walk`): the list it reads, the
page, the last count, how often it was given each row.  A page is
`Count` and `Fetch`, between which rows come and go.  Nineteen list operators say
whether a list's ORDER BY is total and how `has_more` is known; equal ones give
the same behaviour and are checked once.  `clamped` marks the lists that `paginate`
cuts; the others skip what the page says.  `Tops` is any set of rows the ORDER BY admits
under LIMIT.

### Accounts

`replica[r]` is the start of one process: `ReadRevision` and `CreateTables` (the
one migration, one transaction), `Retry`, and after `MaxRetries` on with the
start regardless; `FindAdmin`, `Seed`; `Crash` kills it at any of these, and `Restart` is
`restart: on-failure` of `docker-compose/app.yml`.  `req[q]` is a request with a code or a
key between the SELECT that found the row, the UPDATE or DELETE that locks it and the
commit: at once for MCP and gRPC, at the end of the endpoint for REST.  A request with
a key reads the clock twice, for the expiry (`Authenticate`) and for `last_used_at`
(`Stamp`).  Hashes are identities; there is one user and one browser.

## 5. Runs

| Run | Instance | Shows |
|---|---|---|
| `delete_race` | 1 SBOM, 2 findings, 1 scan worker, 2 deletes, 1 Grype update, fairness | `TypeOK`, `LinkIntegrity`, `LinkInv`; every transaction ends although scans and deletes deadlock (`TransactionsEnd`) |
| `two_scopes` | 3 SBOMs of 2 services, 1 worker, 1 delete | every commit is a step of `FindingLedger`, none touches another service's findings, reordered scans never close a newer SBOM's |
| `scan_prune` | 2 expired SBOMs, 2 workers, 1 retention job, 1 fault, 1 Grype update | the newest SBOM is never pruned, no stored SBOM loses its links, the newest SBOM's findings are closed only by its own scan |
| `rescans` | 2 SBOMs, 2 findings of one CVE (one without a purl), 1 worker, 1 fault, 1 Grype update, fairness | every newest SBOM is scanned, open findings converge to Grype's report, links are compared by CVE |
| `alerts` | 1 rule, 1 vulnerability, 2 runs that overlap once, 1 crash, 2 changes of the finding, 1 change of the rule, 2 attempts | bounded rows, attempts and sends (`OneActive`, `RetriesBounded`, `NotRepeated`), `SentWasDelivered`, and `AlertsSettle` under fairness |
| `catalogue` | 2 requests at a time, 2 projects, services and SBOMs, 3 names of which 2 share a slug, 1 document | `Coherent`, `NoTwins`, `CountedSbomsStay` |
| `posture` | 2 SBOMs in 3 scopes of 2 projects, 1 vulnerability, 3 days, 6 changes | project pages, list and dashboard agree once the newest SBOMs are scanned (`CountedIsShown`), a rebuilt day misses nothing that was open in documents dated by then (`RebuiltMissesNothing`) |
| `snapshots` | 1 SBOM, 2 overlapping tasks, 3 days, 2 changes, fairness | the row of the day settles on the findings (`SnapshotSettles`), the chart on exactly the snapshots of the retention window (`ChartSettles`) |
| `paging` | 6 rows of which 2 share a sort key, pages of 2, 3 changes, fairness | `StillListIsRead`, `InsertsHideNothing`, `DeletesRepeatNothing`, `WalksEnd` |
| `accounts` | 2 processes, 1 retry, 2 requests, 1 key, 1 code, 2 failures, fairness | starts that collide, fail and are killed anywhere (`UpIsReady`, `AllComeUp`); `InUseIsStored`; what has lapsed lets nobody in any more (`LapsedShutsOut`); `RequestsEnd` |

Two runs are expected to be violated; each states what the repository says.

| Run | Statement | What happens |
|---|---|---|
| `single_use` | a "one-time code" (`README.md:62`, `docs/development/architecture.md:188`) | two requests find the code unused; the second waits for the first one's UPDATE, overwrites it and signs in too |
| `alert_episode` | SKIP means "already delivered for the current scope" (`app/services/alerting.py:263`) | a rule that is moved to another project keeps the sent row of the old one: the scope is compared by service ids, an SBOM without a service has none, and the vulnerability is skipped in the new project |

Other statements of the repository that the code does not keep, apart from those of
section 3, have no run of their own; the models of their components have the step that
breaks them.

* A risk acceptance: at most one decision per (project, vulnerability), a project row
  subsumes the services (`docs/guide/vulnerabilities.md:96`).  A project decision and a
  service decision check the same empty list and both are stored; the partial indexes see
  one kind each (`Catalogue!CheckDecided`, `Accept`).
* A service with SBOMs cannot be deleted (`app/api/v1/services.py:54`).  An upload that
  commits between the count and the cascade is deleted with the service
  (`Catalogue!Count`, `LoadSboms`); `CountedSbomsStay` is about the SBOMs it had before.
* A past day has what was "detected by then and either still open or fixed only after that
  date" (`app/services/snapshots.py:46`).  The date of detection is the one in the document,
  which may lie ahead; what was open that day is then missing from what is rebuilt for
  it.  `RebuiltMissesNothing` is about the documents dated by then.
* The project scope is "always a valid scope" (`app/api/pages/projects.py:98`).  Once a service of
  the project has a decision, `create_risk_acceptance` answers 409 to it (`Posture!Decided`).
* The modal of the list offers the whole project or one of the services
  (`docs/guide/vulnerabilities.md:74`).  `_active_maps` offers the project only if an SBOM
  without a service has the finding, and for one project only.

`CountedIsShown` asks that the newest SBOM of each scope is the last one scanned there,
or reconciled against, and carries the latest document (`UpToDate`): before that scan the
project page has less than the list, and with an older document uploaded later the page
and the pipeline take different SBOMs for the newest.

Bounds.  A race needs two processes, a chain of reports, retirements and reopenings
two SBOMs, a scope two services or projects: every run has that much of what
its question is about, and one fault where faults matter.  Counters that only
bound an instance (`MaxQueued`, `MaxFaults`, `MaxFeedChanges`, `MaxChanges`,
`MaxExposures`, `MaxUpdates`, `MaxAborts`, `MaxOverlaps`, `LastTime`, `LastDay`,
`MaxRow`, `Ids`) are named `bound` in the modules and given in the cfg files.
Symmetry is used in runs without liveness only, over sets whose members the
constants treat alike.  Deadlock is checked except where a bounded clock, bounded
ids, a client that has finished or processes that are all up let the system stop:
`catalogue`, `posture`, `paging`, `accounts`, `single_use`.

### Fairness

* `ScanPipeline`: beat keeps starting the rescan (weak fairness of `Rescan`);
  RabbitMQ hands out messages in order, so a queued message is received if
  workers become free again and again (strong fairness per message); PostgreSQL
  queues lock waiters, so a process that can run a statement again and again does
  (strong fairness per process).
* `AlertDelivery`: the hourly start of a run, and the steps of a run.
* `Posture`: beat and the workers, and the daily prune.
* `Paging`: requests are answered, and the client asks while `has_more` says so.
* `Accounts`: processes that exit are restarted (`restart: on-failure`), endpoints end,
  and PostgreSQL grants a row's lock in turn (strong fairness of `LockRow`).

Uploads, deletes, decisions, faults and Grype updates are never forced to happen.

## 6. Proofs

TLAPS checks the eight proof modules for all values of the constants, which may be
infinite sets unless said otherwise, under the named assumptions of the modules they
extend.  Each theorem about a property goes the same way: an inductive invariant, a lemma
per action that it is kept, and the property from the invariant.  The invariants of
`LedgerProofs`, `RetentionProofs`, `AlertDeliveryProofs`, `PagingProofs` and
`PostureProofs` hold on the instances of section 5 as well.  Every invariant and every
action property of the runs that hold is a theorem, two groups of them under a condition
that is named with them.

### ScanPipelineProofs

Any number of workers, deletes and prunes; the assumptions are `DataAssumption`,
`ProcAssumption` and `BoundAssumption`.

* `TypeCorrect`: `Spec => []TypeOK`, with the conjunct that a process at a step
  that reads an SBOM has one.
* `LinkInvHolds`: `Spec => []LinkInv`.
* `LinksHaveSboms`: `Spec => []LinkIntegrity`.

`LinkIntegrity` speaks of committed links only and is not inductive: a delete
that commits would have to know what other transactions are about to commit.
`LinkInv` adds what the locks guarantee: no row has two uncommitted writers;
an uncommitted link refers to a stored SBOM; a transaction that has deleted an
SBOM sees no link of it and nobody else touches one; a transaction deletes only
committed links and writes nothing before its first write statement; scans
delete no SBOM.  The proof has a lemma per kind of step.  `UpdateStep` covers the
statements that change existing links, `LinkMatchesStep` the inserts,
`DeleteParentsStep` the point where an SBOM row disappears for its own
transaction, `CommitStep` the only step that changes committed links, and
`RollbackStep`, `QuietStep`, `TargetStep`, `ReadStep` and `OutsideStep` the rest.

### LedgerProofs

* `TxnInvHolds`: `Spec => []TxnInv`.
* `OnlyCommitsOfNewerClose`: `Spec => OnlyOwnScanOrNewerCloses`.
* `Refinement`: `Spec => ImplementsLedger`, so `FindingLedger` under the mapping of
  section 3.

What a commit does was decided by statements that ran long before, so `TxnInv` says what
each kind of transaction still holds: `uploaded_at` is given once and in order; `older`
has only strictly older SBOMs of the scope; a scan has opened absent rows of its own SBOM
and closed open rows of its own or of older ones; a delete has changed rows of its own
scope; a prune has removed rows of expired SBOMs.  `Frame` carries this through the steps
of others: the rows in question are locked (`LinkInv`), and SBOMs keep their stamps.
`Refinement` then has one lemma per kind of commit (`ScanCommitStep`, `DeleteCommitStep`,
`PruneCommitStep`), `StoreStep` for uploads, and `OtherStep` for everything that
leaves the committed tables alone.

### RetentionProofs

* `PruneSparesLatest`, `LinksVanishOnlyWithSbom`, `LatestClosedByOwnScan`: the three
  properties of `scan_prune`, in every behaviour in which no delete commits
  (`Undeleted`): deletes may run, hold locks, wait and fail beside the scans and prunes.

That is the condition under which the code keeps them at all: section 3 names the
committed deletes that break each.  `PruneInv` rests on one idea: what a prune is about to
delete and what a scan is about to close as older is `Obsolete`, there is a newer stored
SBOM in its scope, and that stays so while only obsolete SBOMs are deleted, for the
newest is never obsolete (`ObsoleteStays`, `LatestStays`).

### AlertDeliveryProofs

Any rules, projects, vulnerabilities and runs; the assumption is `AlertAssumption`.

* `AlertTypeCorrect`: `Spec => []TypeOK`, however runs overlap and crash.
* `OneNotification`, `TriedBounded`, `SentOnce`, `SentIsTrue`: `OneActive`,
  `RetriesBounded`, `NotRepeated` and `SentWasDelivered` as long as no two runs have
  overlapped (`Apart`).

`AlertInv` relates a run to the tables: it holds rows of rules it has read, in the slot
where they still are.  The counts need what a run has done and not yet written, so
`Sequential` compares, per pair, the row in the table, the row in the session and the
history: `Single` (one row, and it was told what it says), `Copies` (the session has what
the table has but for the pairs it has visited), `Counts` (attempts and sends fit the row,
up to one per aborted run).  With overlaps two sessions differ from one table, and their
bounds depend on which of them read when; those stay with TLC.

### CatalogueProofs

Any number of requests, names and documents; the assumption is `CatalogueAssumption`.

* `CatalogueTypeCorrect`, `RowsCoherent`, `NoTwinsEver`: `TypeOK`, `Coherent`, `NoTwins`.
* `CountedStay`: `Spec => CountedSbomsStay`.

`Coherent` is not inductive, for a request writes what it has read several SELECTs
before.  `AllSound` adds what it still knows: a service it has found belongs to the
project for as long as it exists, and a row it has loaded is where it was or gone.  For
`CountedSbomsStay` it adds that the SBOMs a service had when its delete was requested are
in it or gone until they are counted, and all gone afterwards; they never come back.
Rows are created once and then only renamed or deleted (`RowsAge`), so what was known
stays known (`SoundStays`).

### PostureProofs

Any scopes, days, tasks and decisions, and finitely many vulnerabilities, since they are
counted; the assumption is `PostureAssumption`.

* `PostureTypeCorrect`: `Spec => []TypeOK`, from `PostureInv`, which has the task's
  partial results in full.
* `PagesShowWhatCounts`: `Spec => []CountedIsShown`, from the invariant `Closed`: where
  the newest SBOM of a scope was scanned last, no older one of the scope keeps open what
  it does not.  A scan and a delete bring that about (`ReconciledCloses`), a prune never
  takes the newest, an upload puts the scope behind.  The page takes the newest SBOMs
  where the dates follow the uploads (`PageTakesNewest`); then what the list has is on the
  page (`ListIsShown`), and the reverse (`ShownIsListed`).
* `NothingForgotten`: `Spec => RebuiltMissesNothing`.  A step changes links and decisions
  in one of two ways (`Accounted`): an SBOM that goes leaves no link, and a scan or a
  decision that writes a past day is in `Rewritten`.  A past day then keeps what it had
  (`DayKept`), and what is open at midnight in documents dated by then has no `fixed_at`
  and so is in the day that ends (`DayEnds`).

### PagingProofs

Any number of rows, keys, page size and changes; the assumption is `PagingAssumption`.

* `StillListRead`, `NothingHidden`, `NothingTwice`: `StillListIsRead`,
  `InsertsHideNothing`, `DeletesRepeatNothing`.
* `PagesNotOverfull`: `Spec => []TypeOK`, with its bound on the rows that were returned.

The properties speak of the end of a walk; `WalkInv` says where a row is before that.
`Position(r)` is the number of rows before `r`.  A page is the rows whose position is in
its window (`FirstRows`, `PageRows`).  Deletes only lower positions, so without inserts what
was returned stays before the window (`NotAgain`); inserts only raise them, so without
deletes what was not returned stays behind it (`NotMissed`), and a row behind it makes
`has_more` true.  `Remembered` relates the count to the table, which shows that
`paginate`'s clamp, on the lists that have it, changes no page that has rows while nobody
inserts, and none at all while nobody deletes.
`Reached` bounds the clamped pages: a page with a row ahead is within the rows that ever
were.

### AccountsProofs

Any number of processes, requests, keys and codes; the assumption is
`AccountsAssumption`.

* `UpReady`: `Spec => []UpIsReady`, from `StartInv`: a process that is about to
  seed has seen the tables, and one that is up has them and the admin user, neither
  of which anything removes.
* `KeyInUse`: `Spec => []InUseIsStored`.
* `AccountsTypeCorrect`: `Spec => []TypeOK`, in which no last use lies in the future and a
  code is used exactly when somebody has signed in with it.

The last two rest on `AccessInv`.  That a key in use is stored is not inductive:
the request that deletes the key must be known to be the only one with its lock
(`HeldOnce`), and to have found it stored.  `AllSound` says what each request still
knows of the row it read, and that the time it will write is over.  `CodesCount` ties
`used` to the sign-ins.  There is one lemma per request action, and most follow from a
general one: `Quieter` (requests end, time passes), `OneRequest` (a request finds a row
or gets a lock) or `OneKey` (the row of a key changes).

### Only model-checked

* Liveness: `TransactionsEnd`, `OpenConverges`, `LatestIsScanned`, `AlertsSettle`,
  `SnapshotSettles`, `ChartSettles`, `WalksEnd`, `AllComeUp`, `RequestsEnd`,
  `LapsedShutsOut`.  Liveness under
  fairness is outside what TLAPS proves here.
* `OneActive`, `RetriesBounded`, `NotRepeated` and `SentWasDelivered` once runs of
  `check_alerts` have overlapped.

## 7. Not modelled

* The SBOM and Grype parsers, the `dependencies` rows and the metadata of the
  `vulnerabilities` rows.  Two scans that update the same metadata rows in
  different orders can deadlock; only link and SBOM rows are locked here.
* `total_dependencies` of the snapshots, which counts the SBOMs created on or
  before the date's midnight and so leaves out the day's own.
* Ties of `uploaded_at`.
* The summary of the REST API, the counts of MCP, the labels of findings, the page of
  one SBOM and the scopes offered to accept a finding in, which are queries of their own.
* SMTP, Slack and Discord beyond success and failure; message texts.
* Templates, forms, response columns, schemas and the arguments that are refused.
* The connection pool, configuration, logging and tracing, health probes, response
  headers: they hold no state a property depends on.
* Seed scripts, backups, the client action and the tests.

Behaviours the models show that no document contradicts: an upload of a document that
another project has stored is answered with that project's SBOM; MCP lists take
`has_more` from the count before the rows, so rows inserted in between can hide the last
page; lists sorted without the id promise nothing for rows that share a key;
`last_used_at` of a key may step back by the time a request waited for its row, and may
lie after the key's expiry.

## 8. Next

Proofs: the counts of `AlertDelivery` beyond the first overlap, which need the order in
which overlapping runs read and committed.
