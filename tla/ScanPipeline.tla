------------------------------ MODULE ScanPipeline ------------------------------
(***************************************************************************)
(* The SBOM ingestion and vulnerability-scanning pipeline of Argus: the     *)
(* upload endpoint, the Celery queue of scan tasks, the scan task with its  *)
(* retire and reconcile steps, the SBOM delete endpoint and the retention   *)
(* job, all over one PostgreSQL database at READ COMMITTED.                 *)
(*                                                                         *)
(* Each task or request is a process that runs one transaction.  An action  *)
(* is one SQL statement (or one external call); its writes stay private in  *)
(* writes[p] until Commit(p), and they lock the rows they touch.            *)
(***************************************************************************)
EXTENDS Naturals, FiniteSets

CONSTANTS
  Sboms,          \* ids an upload may create (rows of table sboms)
  Findings,       \* (dependency purl, CVE) pairs grype can match
  Scope,          \* Scope[s]: the (project, service) the SBOM s belongs to
  Cve,            \* Cve[f]: the vulnerability a finding is about
  NoPurl,         \* findings grype reports on an artifact without a purl
  Workers,        \* Celery worker slots that run scan_sbom
  Deleters,       \* in-flight DELETE /sboms/{id} requests
  Pruners,        \* in-flight prune_old_data tasks
  Expired,        \* SBOMs whose created_at is before the retention cutoff
  FirstFeed,      \* FirstFeed[s]: what grype reports for s at the start
  MaxQueued,      \* bound: queued scan messages per SBOM
  MaxFaults,      \* bound: crashes, lost publishes and failed grype runs
  MaxFeedChanges, \* bound: updates of the grype database
  NoSbom

Procs == Workers \cup Deleters \cup Pruners
Rows  == Sboms \X Findings      \* primary keys of sbom_vulnerabilities

ASSUME DataAssumption ==
  /\ NoSbom \notin Sboms
  /\ DOMAIN Scope = Sboms
  /\ DOMAIN Cve = Findings
  /\ NoPurl \subseteq Findings
  /\ Expired \subseteq Sboms
  /\ FirstFeed \in [Sboms -> SUBSET Findings]

ASSUME ProcAssumption ==
  /\ Workers \cap Deleters = {}
  /\ Workers \cap Pruners = {}
  /\ Deleters \cap Pruners = {}

ASSUME BoundAssumption ==
  /\ MaxQueued \in Nat
  /\ MaxFaults \in Nat
  /\ MaxFeedChanges \in Nat

VARIABLES
  life,       \* life[s]: new, uploading, stored (a committed row) or deleted
  clock,      \* now() of the next upload transaction
  stamp,      \* stamp[s]: uploaded_at of s, 0 before its upload began
  link,       \* committed sbom_vulnerabilities: absent, open or fixed
  queue,      \* queue[s]: scan_sbom(s) messages at the broker
  feed,       \* feed[s]: the findings grype would report for s now
  faults, feedChanges,      \* how much of the two budgets is spent
  pc,         \* pc[p]: the next statement of process p
  sbom,       \* sbom[p]: the SBOM p scans, or the one it reconciles against
  report,     \* report[w]: what grype returned to worker w
  older,      \* older[p]: older_ids of reconcile_vulnerabilities
  keep,       \* keep[p]: current_ids of reconcile_vulnerabilities
  doomed,     \* doomed[p]: the SBOM rows p is deleting
  writes      \* writes[p][r]: p's uncommitted write of row r, or "keep"

shared == <<life, clock, stamp, link, queue>>
world  == <<feed, faults, feedChanges>>
local  == <<pc, sbom, report, older, keep, doomed, writes>>
vars   == <<shared, world, local>>

Stored  == {s \in Sboms : life[s] = "stored"}
Status  == {"absent", "open", "fixed"}
NoWrite == [r \in Rows |-> "keep"]
Steps   == {"idle", "grype", "link", "retire", "older", "current", "close",
            "commit", "children", "retarget", "parents", "reopen"}
\* The statements that read the SBOM the process works on.
Reading == {"grype", "link", "retire", "older", "current", "close"}

TypeOK ==
  /\ life \in [Sboms -> {"new", "uploading", "stored", "deleted"}]
  /\ clock \in Nat
  /\ stamp \in [Sboms -> Nat]
  /\ link \in [Rows -> Status]
  /\ queue \in [Sboms -> Nat]
  /\ feed \in [Sboms -> SUBSET Findings]
  /\ faults \in 0..MaxFaults
  /\ feedChanges \in 0..MaxFeedChanges
  /\ pc \in [Procs -> Steps]
  /\ sbom \in [Procs -> Sboms \cup {NoSbom}]
  /\ report \in [Procs -> SUBSET Findings]
  /\ older \in [Procs -> SUBSET Sboms]
  /\ keep \in [Procs -> SUBSET {Cve[f] : f \in Findings}]
  /\ doomed \in [Procs -> SUBSET Sboms]
  /\ writes \in [Procs -> [Rows -> Status \cup {"keep"}]]
  /\ \A p \in Procs : pc[p] \in Reading => sbom[p] \in Sboms

Init ==
  /\ life = [s \in Sboms |-> "new"]
  /\ clock = 1
  /\ stamp = [s \in Sboms |-> 0]
  /\ link = [r \in Rows |-> "absent"]
  /\ queue = [s \in Sboms |-> 0]
  /\ feed = FirstFeed
  /\ faults = 0
  /\ feedChanges = 0
  /\ pc = [p \in Procs |-> "idle"]
  /\ sbom = [p \in Procs |-> NoSbom]
  /\ report = [p \in Procs |-> {}]
  /\ older = [p \in Procs |-> {}]
  /\ keep = [p \in Procs |-> {}]
  /\ doomed = [p \in Procs |-> {}]
  /\ writes = [p \in Procs |-> NoWrite]

-----------------------------------------------------------------------------
(* The database as a statement of p sees it: the last committed state under *)
(* p's own uncommitted writes.                                              *)

Seen(p, r) == IF writes[p][r] = "keep" THEN link[r] ELSE writes[p][r]

\* The DELETE FROM sboms of p has run and is not committed yet.
Dropped(p) == IF pc[p] \in {"reopen", "older", "current", "close", "commit"}
              THEN doomed[p] ELSE {}

SeenSboms(p) == Stored \ Dropped(p)

InScope(S, s)  == {t \in S : Scope[t] = Scope[s]}
Newest(S)      == {t \in S : \A u \in S : stamp[u] <= stamp[t]}
Latest         == {s \in Stored : s \in Newest(InScope(Stored, s))}

CvesOf(F)       == {Cve[f] : f \in F}
RowsOf(S)       == S \X Findings
WithStatus(p, R, status) == {r \in R : Seen(p, r) = status}

(* The rows the next statement of p inserts, updates or deletes.            *)

NewRows(p) ==
  WithStatus(p, {sbom[p]} \X (report[p] \ NoPurl), "absent")

\* Mutant: findings are compared instead of the CVEs they are about.
StaleFindings(p) ==
  {r \in WithStatus(p, RowsOf({sbom[p]}), "open") : r[2] \notin report[p]}

StaleRows(p) ==
  {r \in WithStatus(p, RowsOf({sbom[p]}), "open") : Cve[r[2]] \notin CvesOf(report[p])}

SupersededRows(p) ==
  {r \in WithStatus(p, RowsOf(older[p]), "open") : Cve[r[2]] \notin keep[p]}

ChildRows(p) == {r \in RowsOf(doomed[p]) : Seen(p, r) # "absent"}

\* Mutant: the query for the remaining SBOMs has lost its scope.
FixedAnywhere(p) == WithStatus(p, RowsOf(SeenSboms(p)), "fixed")

FixedSiblings(p) ==
  {r \in RowsOf(SeenSboms(p)) :
     /\ Seen(p, r) = "fixed"
     /\ \E v \in doomed[p] : Scope[r[1]] = Scope[v]}

Wanted(p) ==
  CASE pc[p] = "link"     -> NewRows(p)
    [] pc[p] = "retire"   -> StaleRows(p)
    [] pc[p] = "close"    -> SupersededRows(p)
    [] pc[p] = "children" -> ChildRows(p)
    [] pc[p] = "reopen"   -> FixedSiblings(p)
    [] OTHER              -> {}

\* An inserted link holds a key-share lock on its SBOM row (foreign key).
Inserting(p, s) ==
  \E f \in Findings :
    link[<<s, f>>] = "absent" /\ writes[p][<<s, f>>] \in {"open", "fixed"}

\* The processes whose locks the next statement of p has to wait for.
Blockers(p) ==
  {q \in Procs \ {p} :
     \/ \E r \in Wanted(p) : writes[q][r] # "keep"
     \/ pc[p] = "link" /\ NewRows(p) # {} /\ sbom[p] \in Dropped(q)
     \/ pc[p] = "parents" /\ \E s \in doomed[p] : s \in Dropped(q) \/ Inserting(q, s)}

At(p, step) == pc[p] = step /\ Blockers(p) = {}
GoTo(p, step) == pc' = [pc EXCEPT ![p] = step]
Write(p, R, status) ==
  writes' = [writes EXCEPT ![p] = [r \in Rows |-> IF r \in R THEN status ELSE @[r]]]

\* The session closes: whatever p held in memory and every lock is gone.
Reset(p) ==
  /\ pc' = [pc EXCEPT ![p] = "idle"]
  /\ sbom' = [sbom EXCEPT ![p] = NoSbom]
  /\ report' = [report EXCEPT ![p] = {}]
  /\ older' = [older EXCEPT ![p] = {}]
  /\ keep' = [keep EXCEPT ![p] = {}]
  /\ doomed' = [doomed EXCEPT ![p] = {}]
  /\ writes' = [writes EXCEPT ![p] = NoWrite]

-----------------------------------------------------------------------------
(* Uploads, the broker and the grype database.                              *)

Enqueue(S) ==
  queue' = [s \in Sboms |->
              IF s \in S /\ queue[s] < MaxQueued THEN queue[s] + 1 ELSE queue[s]]

Fault ==
  /\ faults < MaxFaults
  /\ faults' = faults + 1
  /\ UNCHANGED <<feed, feedChanges>>

\* The upload's transaction starts: now(), the server default of uploaded_at,
\* is fixed here, however late the row is committed.
BeginUpload(s) ==
  /\ life[s] = "new"
  /\ life' = [life EXCEPT ![s] = "uploading"]
  /\ stamp' = [stamp EXCEPT ![s] = clock]
  /\ clock' = clock + 1
  /\ UNCHANGED <<link, queue, world, local>>

CommitUpload(s) ==
  /\ life[s] = "uploading"
  /\ life' = [life EXCEPT ![s] = "stored"]
  /\ UNCHANGED <<clock, stamp, link, local>>

\* The row is committed, then scan_sbom.delay publishes the scan task.
Upload(s) == CommitUpload(s) /\ Enqueue({s}) /\ UNCHANGED world

\* scan_sbom.delay raises after the commit: the row stays, no scan is queued.
UploadUnpublished(s) == CommitUpload(s) /\ Fault /\ UNCHANGED queue

\* The same document again: the sha256 lookup finds s, and s is queued again.
UploadAgain(s) ==
  /\ s \in Stored
  /\ Enqueue({s})
  /\ UNCHANGED <<life, clock, stamp, link, world, local>>

\* Mutant: the ranking is by ascending upload time.
RescanSuperseded ==
  /\ Enqueue({s \in Stored : \A t \in InScope(Stored, s) : stamp[s] <= stamp[t]})
  /\ UNCHANGED <<life, clock, stamp, link, world, local>>

Rescan ==
  /\ Enqueue(Latest)
  /\ UNCHANGED <<life, clock, stamp, link, world, local>>

\* The rescan task dies while it publishes: only some SBOMs are queued.
RescanCut ==
  /\ Fault
  /\ \E S \in SUBSET Latest : S # Latest /\ Enqueue(S)
  /\ UNCHANGED <<life, clock, stamp, link, local>>

FeedUpdate(s) ==
  /\ feedChanges < MaxFeedChanges
  /\ feedChanges' = feedChanges + 1
  /\ \E F \in SUBSET Findings \ {feed[s]} : feed' = [feed EXCEPT ![s] = F]
  /\ UNCHANGED <<faults, shared, local>>

-----------------------------------------------------------------------------
(* The scan task.                                                           *)

\* Mutant: a message that was acknowledged already is taken once more.
ReceiveTwice(w, s) ==
  /\ pc[w] = "idle"
  /\ queue' = [queue EXCEPT ![s] = @ - 1]
  /\ UNCHANGED <<life, clock, stamp, link, world, report, older, keep, doomed, writes>>

Receive(w, s) ==
  /\ pc[w] = "idle"
  /\ queue[s] > 0
  /\ queue' = [queue EXCEPT ![s] = @ - 1]
  /\ UNCHANGED <<life, clock, stamp, link, world, report, older, keep, doomed, writes>>

\* The SBOM is gone: the task returns.
ScanMissing(w, s) == Receive(w, s) /\ s \notin Stored /\ UNCHANGED <<pc, sbom>>

StartScan(w, s) ==
  /\ Receive(w, s)
  /\ s \in Stored
  /\ sbom' = [sbom EXCEPT ![w] = s]
  /\ GoTo(w, "grype")

RunGrype(w) ==
  /\ At(w, "grype")
  /\ report' = [report EXCEPT ![w] = feed[sbom[w]]]
  /\ GoTo(w, "link")
  /\ UNCHANGED <<shared, world, sbom, older, keep, doomed, writes>>

\* scan_with_grype returns None: the task returns before it writes anything.
GrypeFails(w) ==
  /\ At(w, "grype")
  /\ Fault
  /\ Reset(w)
  /\ UNCHANGED shared

\* Mutant: no foreign key guards the insert.
LinkMatchesUnchecked(w) ==
  /\ At(w, "link")
  /\ Write(w, NewRows(w), "open")
  /\ GoTo(w, "retire")
  /\ UNCHANGED <<shared, world, sbom, report, older, keep, doomed>>

\* Every match without a link gets an open one.  An existing link is left as
\* it is, and the foreign-key error of a deleted SBOM is swallowed.
LinkMatches(w) ==
  /\ At(w, "link")
  /\ IF sbom[w] \in Stored THEN Write(w, NewRows(w), "open") ELSE UNCHANGED writes
  /\ GoTo(w, "retire")
  /\ UNCHANGED <<shared, world, sbom, report, older, keep, doomed>>

\* Mutant: the scan links what it found and retires nothing.
RetireNothing(w) ==
  /\ At(w, "retire")
  /\ GoTo(w, "older")
  /\ UNCHANGED <<shared, world, sbom, report, older, keep, doomed, writes>>

RetireStale(w) ==
  /\ At(w, "retire")
  /\ Write(w, StaleRows(w), "fixed")
  /\ GoTo(w, "older")
  /\ UNCHANGED <<shared, world, sbom, report, older, keep, doomed>>

(* reconcile_vulnerabilities, called by a scan and by a delete.             *)

\* Mutants: without the uploaded_at condition, and without the scope.
OtherSboms(p)    == InScope(SeenSboms(p), sbom[p]) \ {sbom[p]}
OlderAnywhere(p) == {t \in SeenSboms(p) : stamp[t] < stamp[sbom[p]]}

OlderSboms(p) ==
  {t \in InScope(SeenSboms(p), sbom[p]) : stamp[t] < stamp[sbom[p]]}

FindOlder(p) ==
  /\ At(p, "older")
  /\ older' = [older EXCEPT ![p] = OlderSboms(p)]
  /\ GoTo(p, IF OlderSboms(p) = {} THEN "commit" ELSE "current")
  /\ UNCHANGED <<shared, world, sbom, report, keep, doomed, writes>>

ReadCurrent(p) ==
  /\ At(p, "current")
  /\ keep' = [keep EXCEPT ![p] =
       {Cve[r[2]] : r \in WithStatus(p, RowsOf({sbom[p]}), "open")}]
  /\ GoTo(p, "close")
  /\ UNCHANGED <<shared, world, sbom, report, older, doomed, writes>>

CloseOlder(p) ==
  /\ At(p, "close")
  /\ Write(p, SupersededRows(p), "fixed")
  /\ GoTo(p, "commit")
  /\ UNCHANGED <<shared, world, sbom, report, older, keep, doomed>>

Commit(p) ==
  /\ At(p, "commit")
  /\ link' = [r \in Rows |-> Seen(p, r)]
  /\ life' = [s \in Sboms |-> IF s \in Dropped(p) THEN "deleted" ELSE life[s]]
  /\ Reset(p)
  /\ UNCHANGED <<clock, stamp, queue, world>>

-----------------------------------------------------------------------------
(* DELETE /sboms/{id} and the retention job.                                *)

\* The two SELECTs of the handler: the SBOM, and the newest one it leaves.
BeginDelete(d, s) ==
  LET rest == Newest(InScope(Stored \ {s}, s)) IN
  /\ pc[d] = "idle"
  /\ s \in Stored
  /\ doomed' = [doomed EXCEPT ![d] = {s}]
  /\ sbom' = [sbom EXCEPT ![d] = IF rest = {} THEN NoSbom ELSE CHOOSE t \in rest : TRUE]
  /\ GoTo(d, "children")
  /\ UNCHANGED <<shared, world, report, older, keep, writes>>

\* Mutant: the newest SBOM is not spared (no rn > 1).
ExpiredSboms == Expired \cap Stored

PruneTargets == Expired \cap (Stored \ Latest)

\* Mutant: the first DELETE has lost the rn > 1 the third one still has.
BeginPruneExpired(p) ==
  /\ pc[p] = "idle"
  /\ ExpiredSboms # {}
  /\ doomed' = [doomed EXCEPT ![p] = ExpiredSboms]
  /\ GoTo(p, "children")
  /\ UNCHANGED <<shared, world, sbom, report, older, keep, writes>>

BeginPrune(p) ==
  /\ pc[p] = "idle"
  /\ PruneTargets # {}
  /\ doomed' = [doomed EXCEPT ![p] = PruneTargets]
  /\ GoTo(p, "children")
  /\ UNCHANGED <<shared, world, sbom, report, older, keep, writes>>

DeleteChildren(p) ==
  /\ At(p, "children")
  /\ Write(p, ChildRows(p), "absent")
  /\ GoTo(p, IF p \in Deleters THEN "parents" ELSE "retarget")
  /\ UNCHANGED <<shared, world, sbom, report, older, keep, doomed>>

\* The third DELETE of prune_sboms evaluates its subquery afresh.
Retarget(p) ==
  /\ At(p, "retarget")
  /\ doomed' = [doomed EXCEPT ![p] = PruneTargets]
  /\ GoTo(p, "parents")
  /\ UNCHANGED <<shared, world, sbom, report, older, keep, writes>>

\* Mutant: no foreign key keeps an SBOM that has got new links.
OrphaningDeleteParents(p) ==
  /\ At(p, "parents")
  /\ GoTo(p, IF p \in Deleters THEN "reopen" ELSE "commit")
  /\ UNCHANGED <<shared, world, sbom, report, older, keep, doomed, writes>>

DeleteParents(p) ==
  /\ At(p, "parents")
  /\ ChildRows(p) = {}
  /\ GoTo(p, IF p \in Deleters THEN "reopen" ELSE "commit")
  /\ UNCHANGED <<shared, world, sbom, report, older, keep, doomed, writes>>

\* Mutant: the error is swallowed and the session stays open.
ForeignKeyHangs(p) ==
  /\ At(p, "parents")
  /\ ChildRows(p) # {}
  /\ UNCHANGED vars

\* A link committed since the children were deleted: the foreign key refuses,
\* and the whole transaction is rolled back.
ForeignKeyRefuses(p) ==
  /\ At(p, "parents")
  /\ ChildRows(p) # {}
  /\ Reset(p)
  /\ UNCHANGED <<shared, world>>

ReopenSiblings(d) ==
  /\ At(d, "reopen")
  /\ Write(d, FixedSiblings(d), "open")
  /\ GoTo(d, IF sbom[d] = NoSbom THEN "commit" ELSE "older")
  /\ UNCHANGED <<shared, world, sbom, report, older, keep, doomed>>

-----------------------------------------------------------------------------
(* Failures.  A task or request that raises, or whose process is killed, is  *)
(* rolled back; a scan task whose host is lost is delivered again, because   *)
(* tasks are acknowledged late.                                             *)

Lost(p) ==
  /\ pc[p] # "idle"
  /\ Fault
  /\ Reset(p)
  /\ UNCHANGED shared

Redelivered(w) ==
  /\ pc[w] # "idle"
  /\ Fault
  /\ Enqueue({sbom[w]})
  /\ Reset(w)
  /\ UNCHANGED <<life, clock, stamp, link>>

\* p waits in a cycle of lock waits: PostgreSQL aborts one of its members.
Deadlocked(p) ==
  \E C \in SUBSET Procs :
    /\ p \in C
    /\ \A q \in C : Blockers(q) \cap C # {} /\ \E r \in C : q \in Blockers(r)

DeadlockVictim(p) ==
  /\ Deadlocked(p)
  /\ Reset(p)
  /\ UNCHANGED <<shared, world>>

-----------------------------------------------------------------------------
Statement(p) ==
  \/ FindOlder(p) \/ ReadCurrent(p) \/ CloseOlder(p) \/ Commit(p)
  \/ DeadlockVictim(p)

ScanStep(w) ==
  RunGrype(w) \/ LinkMatches(w) \/ RetireStale(w) \/ Statement(w)

DeleteStep(d) ==
  DeleteChildren(d) \/ DeleteParents(d) \/ ForeignKeyRefuses(d) \/ ReopenSiblings(d)
  \/ Statement(d)

PruneStep(p) ==
  DeleteChildren(p) \/ Retarget(p) \/ DeleteParents(p) \/ ForeignKeyRefuses(p)
  \/ Statement(p)

Next ==
  \/ \E s \in Sboms : BeginUpload(s) \/ Upload(s) \/ UploadUnpublished(s) \/ UploadAgain(s)
  \/ Rescan \/ RescanCut
  \/ \E s \in Sboms : FeedUpdate(s)
  \/ \E w \in Workers : (\E s \in Sboms : ScanMissing(w, s) \/ StartScan(w, s))
                        \/ ScanStep(w) \/ GrypeFails(w) \/ Redelivered(w)
  \/ \E d \in Deleters : (\E s \in Sboms : BeginDelete(d, s)) \/ DeleteStep(d)
  \/ \E p \in Pruners : BeginPrune(p) \/ PruneStep(p)
  \/ \E p \in Procs : Lost(p)

Spec == Init /\ [][Next]_vars

(* Beat keeps firing the rescan, the broker hands every message out in the   *)
(* order it came (strong fairness per message), and a statement whose lock   *)
(* wait is queued behind others is served (strong fairness per process).     *)
Fairness ==
  /\ WF_vars(Rescan)
  /\ \A s \in Sboms : SF_vars(\E w \in Workers : ScanMissing(w, s) \/ StartScan(w, s))
  /\ \A w \in Workers : SF_vars(ScanStep(w))
  /\ \A d \in Deleters : SF_vars(DeleteStep(d))
  /\ \A p \in Pruners : SF_vars(PruneStep(p))

FairSpec == Spec /\ Fairness

-----------------------------------------------------------------------------
(* Properties.                                                              *)

Committing(p) == pc[p] = "commit" /\ pc'[p] = "idle" /\ faults' = faults

\* A link row belongs to a stored SBOM, whatever scans, deletes and prunes
\* interleave: a scan in flight never leaves links of an SBOM deleted under it.
LinkIntegrity == \A r \in Rows : link[r] # "absent" => r[1] \in Stored

(* Why LinkIntegrity holds: the locks.                                      *)

\* No row has uncommitted writes of two transactions.
LocksExclusive ==
  \A p, q \in Procs : \A r \in Rows :
    p # q => writes[p][r] = "keep" \/ writes[q][r] = "keep"

\* The SBOM an uncommitted link refers to is stored.
InsertsHaveSbom ==
  \A p \in Procs : \A r \in Rows :
    writes[p][r] \in {"open", "fixed"} => r[1] \in Stored

\* A transaction that deleted an SBOM row sees no link of it, and no other
\* transaction touches one.
DroppedAreBare ==
  \A p \in Procs : \A r \in Rows :
    r[1] \in Dropped(p) =>
      /\ Seen(p, r) = "absent"
      /\ \A q \in Procs \ {p} : writes[q][r] = "keep"

\* Before these statements a transaction has written nothing.
Unwritten == {"idle", "grype", "link", "children"}

\* Only committed rows are deleted, by transactions that have not written yet.
DeletesAreOfCommitted ==
  \A p \in Procs :
    /\ pc[p] \in Unwritten => writes[p] = NoWrite
    /\ \A r \in Rows : writes[p][r] = "absent" => link[r] # "absent"

ScansDeleteNothing == \A w \in Workers : doomed[w] = {}

\* The inductive invariant behind LinkIntegrity: under every interleaving the
\* row locks and the key-share locks keep uncommitted links, uncommitted
\* deletions and the stored SBOMs consistent with each other.
LinkInv ==
  /\ LinkIntegrity
  /\ LocksExclusive
  /\ InsertsHaveSbom
  /\ DroppedAreBare
  /\ DeletesAreOfCommitted
  /\ ScansDeleteNothing

\* An open finding is only ever closed by the commit of a transaction that
\* scanned its own SBOM, or that reconciled its scope against an SBOM uploaded
\* strictly later: late or reordered scans never close a newer SBOM's findings,
\* and never another service's.
OnlyOwnScanOrNewerCloses ==
  [][\A r \in Rows : link[r] = "open" /\ link'[r] = "fixed" =>
       \E p \in Workers \cup Deleters :
         /\ Committing(p)
         /\ \/ p \in Workers /\ r[1] = sbom[p]
            \/ /\ sbom[p] # NoSbom
               /\ Scope[sbom[p]] = Scope[r[1]]
               /\ stamp[r[1]] < stamp[sbom[p]]]_vars

\* A finding of the newest SBOM of a scope is only marked fixed by a scan of
\* that SBOM in which grype did not report its CVE.
LatestClosedOnlyByOwnScan ==
  [][\A r \in Rows : link[r] = "open" /\ link'[r] = "fixed" /\ r[1] \in Latest =>
       \E w \in Workers :
         Committing(w) /\ sbom[w] = r[1] /\ Cve[r[2]] \notin CvesOf(report[w])]_vars

\* A finding's row disappears only together with its SBOM: no interleaving of
\* the statements of a delete or a prune leaves a stored SBOM stripped of links.
LinksVanishWithSbom ==
  [][\A r \in Rows : link[r] # "absent" /\ link'[r] = "absent" => r[1] \notin Stored']_vars

\* The retention job never removes the newest SBOM of a scope.
PruneKeepsLatest ==
  [][\A p \in Pruners : Committing(p) => Latest \subseteq Stored']_vars

\* Every SBOM that stays the newest of its scope is scanned to the end, even if
\* its scan was never published, was lost with a worker or failed in grype: the
\* periodic rescan makes up for it.
LatestIsScanned ==
  \A s \in Sboms :
    s \in Latest ~> s \notin Latest \/ \E w \in Workers : sbom[w] = s /\ pc[w] = "commit"

\* Once uploads, deletes and grype updates stop, the rescans bring every scope
\* to a state where only CVEs grype reports for its newest SBOM are open.
OpenConverges ==
  <>[](\A r \in Rows : \A s \in Latest :
         link[r] = "open" /\ Scope[s] = Scope[r[1]] => Cve[r[2]] \in CvesOf(feed[s]))

\* No transaction waits for ever: lock waits end, in a commit or in an abort.
TransactionsEnd == \A p \in Procs : pc[p] # "idle" ~> pc[p] = "idle"

\* The committed database is a FindingLedger.  An SBOM arrives with its commit.
Ledger == INSTANCE FindingLedger WITH
  stored  <- Stored,
  arrival <- [s \in Sboms |-> IF life[s] \in {"stored", "deleted"} THEN stamp[s] ELSE 0]

\* Every committed transaction changes findings the way the ledger allows its
\* kind: a scan opens its own and closes its own or older ones of its scope; a
\* delete moves only the findings of its scope; a prune drops expired ones.
ImplementsLedger == Ledger!LedgerSpec
=============================================================================
