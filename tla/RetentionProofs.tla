----------------------------- MODULE RetentionProofs -----------------------------
(***************************************************************************)
(* Theorems about ScanPipeline until a delete request commits: scans and    *)
(* retention jobs keep the newest SBOM of every scope and its findings.     *)
(* After that none of the three holds, because the newest SBOM a scan or a  *)
(* prune relies on can be gone before it commits.                           *)
(***************************************************************************)
EXTENDS LedgerProofs

-----------------------------------------------------------------------------
(* No delete has committed: there may be some that run, wait or fail.       *)

NoDelete  == \A d \in Deleters : ~Commit(d)
Undeleted == [][NoDelete]_vars

LEMMA NotEvenStuttering ==
  ASSUME TypeOK, [NoDelete]_vars
  PROVE  NoDelete
  <1> SUFFICES ASSUME NEW d \in Deleters, Commit(d), UNCHANGED vars
               PROVE  FALSE
    BY DEF NoDelete
  <1>1. pc[d] = "commit" /\ pc' = pc /\ d \in Procs
    BY DEF Commit, At, vars, local, Procs
  <1>2. pc'[d] = "idle"
    BY <1>1 DEF Commit, Reset, TypeOK
  <1>3. QED
    BY <1>1, <1>2

-----------------------------------------------------------------------------
(* What scans and prunes rely on.                                           *)

\* A newer SBOM of its scope is stored.
Obsolete(t) == \E u \in Stored : Scope[u] = Scope[t] /\ stamp[t] < stamp[u]

\* Every scope that has an SBOM has a newest one.
HasLatest == \A s \in Stored : \E u \in Latest : Scope[u] = Scope[s]

PrunedAreObsolete ==
  /\ \A p \in Pruners : \A t \in doomed[p] : Obsolete(t)
  /\ \A s \in Known \ Stored : Obsolete(s)

OlderAreObsolete == \A w \in Workers : \A t \in older[w] : Obsolete(t)

\* A row of its own SBOM was closed because grype did not report its CVE.
ClosedAreStale ==
  \A w \in Workers : \A r \in Rows :
    writes[w][r] = "fixed" /\ r[1] = sbom[w] => Cve[r[2]] \notin CvesOf(report[w])

\* Links that are removed belong to SBOMs that are removed.
ChildrenOfDoomed ==
  \A p \in Pruners : \A r \in Rows : writes[p][r] = "absent" => r[1] \in doomed[p]

PruneInv == HasLatest /\ PrunedAreObsolete /\ OlderAreObsolete /\ ClosedAreStale /\ ChildrenOfDoomed

LEMMA PruneInit == Init => PruneInv
  <1> SUFFICES ASSUME Init PROVE PruneInv
    OBVIOUS
  <1>1. /\ Stored = {} /\ Known = {}
        /\ \A p \in Procs : older[p] = {} /\ doomed[p] = {}
                            /\ \A r \in Rows : writes[p][r] = "keep"
    BY DEF Init, Stored, Known, NoWrite
  <1>2. QED
    BY <1>1 DEF PruneInv, HasLatest, PrunedAreObsolete, OlderAreObsolete, ClosedAreStale,
                ChildrenOfDoomed, Procs

\* The newest SBOMs, spelled out.
LEMMA LatestIs ==
  ASSUME NEW s
  PROVE  s \in Latest <=>
           s \in Stored /\ \A u \in Stored : Scope[u] = Scope[s] => stamp[u] <= stamp[s]
  BY DEF Latest, Newest, InScope

LEMMA LatestNotObsolete ==
  ASSUME TypeOK, NEW s \in Latest
  PROVE  ~ Obsolete(s)
  BY LatestIs DEF Obsolete, TypeOK, Stored

LEMMA ObsoleteIfNotLatest ==
  ASSUME TypeOK, NEW s \in Stored \ Latest
  PROVE  Obsolete(s)
  BY LatestIs DEF Obsolete, TypeOK, Stored

\* Only obsolete SBOMs D vanish in this step.
Sheds(D) ==
  /\ Stored \ D \subseteq Stored'
  /\ \A t \in D : Obsolete(t)

\* An SBOM that was obsolete stays obsolete: the newest SBOM of its scope is there.
LEMMA ObsoleteStays ==
  ASSUME TypeOK, HasLatest, NEW D, Sheds(D), KnownStay, NEW t \in Known, Obsolete(t)
  PROVE  Obsolete(t)'
  <1>1. PICK u \in Stored : Scope[u] = Scope[t] /\ stamp[t] < stamp[u]
    BY DEF Obsolete
  <1>2. PICK v \in Latest : Scope[v] = Scope[u]
    BY DEF HasLatest
  <1>3. v \in Stored /\ v \notin D /\ stamp[u] <= stamp[v]
    BY <1>2, LatestIs, LatestNotObsolete DEF Sheds
  <1>4. v \in Stored' /\ v \in Known /\ v \in Sboms /\ u \in Sboms /\ t \in Sboms
    BY <1>3 DEF Sheds, Stored, Known
  <1>5. stamp'[v] = stamp[v] /\ stamp'[t] = stamp[t]
    BY <1>4 DEF KnownStay
  <1>6. stamp[t] < stamp[v]
    BY <1>1, <1>3, <1>4 DEF TypeOK
  <1>7. QED
    BY <1>1, <1>2, <1>4, <1>5, <1>6 DEF Obsolete

\* A scope keeps a newest SBOM while obsolete ones go and one may arrive.
LEMMA LatestStays ==
  ASSUME TypeOK, TypeOK', HasLatest, NEW D, Sheds(D), KnownStay,
         NEW x, Stored' \subseteq Stored \cup {x}
  PROVE  HasLatest'
  <1> SUFFICES ASSUME NEW s \in Stored' PROVE \E u \in Latest' : Scope[u] = Scope[s]
    BY DEF HasLatest
  <1>0. \A u : u \in Latest' <=>
          u \in Stored' /\ \A v \in Stored' : Scope[v] = Scope[u] => stamp'[v] <= stamp'[u]
    BY DEF Latest, Newest, InScope
  <1>1. \A u \in Stored : stamp'[u] = stamp[u] /\ u \in Sboms /\ stamp[u] \in Nat
    BY DEF KnownStay, Stored, Known, TypeOK
  <1>2. \A u \in Stored' : stamp'[u] \in Nat
    BY DEF Stored, TypeOK
  <1>3. CASE \E y \in Stored : Scope[y] = Scope[s]
    <2>1. PICK u \in Latest : Scope[u] = Scope[s]
      BY <1>3 DEF HasLatest
    <2>2. /\ u \in Stored /\ u \in Stored'
          /\ \A v \in Stored : Scope[v] = Scope[u] => stamp[v] <= stamp[u]
      BY LatestIs, LatestNotObsolete DEF Sheds
    <2>3. CASE x \in Stored' /\ Scope[x] = Scope[s] /\ ~ (stamp'[x] <= stamp'[u])
      <3>1. \A v \in Stored' : Scope[v] = Scope[x] => stamp'[v] <= stamp'[x]
        BY <1>1, <1>2, <2>1, <2>2, <2>3
      <3>2. QED
        BY <1>0, <2>3, <3>1
    <2>4. CASE ~ (x \in Stored' /\ Scope[x] = Scope[s] /\ ~ (stamp'[x] <= stamp'[u]))
      <3>1. \A v \in Stored' : Scope[v] = Scope[u] => stamp'[v] <= stamp'[u]
        BY <1>1, <1>2, <2>1, <2>2, <2>4
      <3>2. QED
        BY <1>0, <2>1, <2>2, <3>1
    <2>5. QED
      BY <2>3, <2>4
  <1>4. CASE ~ \E y \in Stored : Scope[y] = Scope[s]
    <2>1. s = x /\ \A v \in Stored' : Scope[v] = Scope[s] => v = s
      BY <1>4
    <2>2. QED
      BY <1>0, <1>2, <2>1
  <1>5. QED
    BY <1>3, <1>4

-----------------------------------------------------------------------------
(* Every step sheds obsolete SBOMs only.                                     *)

LEMMA NextKnownStay ==
  ASSUME TypeOK, LinkInv, TxnInv, [Next]_vars
  PROVE  KnownStay
  <1>1. CASE \E p \in Procs : Commit(p)
    BY <1>1 DEF TxnInv, Txn, Found, Dropped, Commit, KnownStay, Known
  <1>2. CASE \E s \in Sboms : BeginUpload(s) \/ CommitUpload(s)
    BY <1>2 DEF TypeOK, BeginUpload, CommitUpload, KnownStay, Known
  <1>3. QED
    BY <1>1, <1>2, SbomsChangeAtCommit DEF KnownStay, Known

\* The SBOMs a commit deletes are those of a prune.
LEMMA NextSheds ==
  ASSUME NoDelete, TypeOK, LinkInv, TxnInv, PruneInv, [Next]_vars
  PROVE  \E D : /\ Sheds(D) /\ D \subseteq Known
                /\ Known' \ Stored' \subseteq (Known \ Stored) \cup D
                /\ \E x : Stored' \subseteq Stored \cup {x}
  <1>1. ASSUME NEW p \in Procs, Commit(p)
        PROVE  /\ Sheds(doomed[p]) /\ doomed[p] \subseteq Known
               /\ Known' \ Stored' \subseteq (Known \ Stored) \cup doomed[p]
               /\ Stored' \subseteq Stored
    <2>1. p \in Workers => doomed[p] = {}
      BY DEF LinkInv, ScansDeleteNothing
    <2>2. p \in Pruners => \A t \in doomed[p] : Obsolete(t)
      BY DEF PruneInv, PrunedAreObsolete
    <2>3. doomed[p] \subseteq Known
      BY DEF TxnInv, Txn, Found
    <2>4. Stored' = Stored \ doomed[p]
      BY <1>1, LedgerAtCommit
    <2>5. Known' = Known
      BY <1>1, <2>3 DEF Commit, Known, Dropped
    <2>6. p \in Workers \/ p \in Pruners
      BY <1>1 DEF NoDelete, Procs
    <2>7. QED
      BY <2>1, <2>2, <2>3, <2>4, <2>5, <2>6 DEF Sheds
  <1>2. ASSUME NEW s \in Sboms, BeginUpload(s) \/ CommitUpload(s)
        PROVE  /\ Sheds({}) /\ Known' \ Stored' \subseteq Known \ Stored
               /\ Stored' \subseteq Stored \cup {s}
    BY <1>2 DEF TypeOK, BeginUpload, CommitUpload, Sheds, Known, Stored
  <1>3. CASE UNCHANGED <<life, stamp>>
    <2>1. Sheds({}) /\ Known' \ Stored' = Known \ Stored /\ Stored' \subseteq Stored
      BY <1>3 DEF Sheds, Known, Stored
    <2>2. QED
      BY <2>1
  <1>4. CASE \E p \in Procs : Commit(p)
    BY <1>1, <1>4
  <1>5. CASE \E s \in Sboms : BeginUpload(s) \/ CommitUpload(s)
    BY <1>2, <1>5
  <1>6. QED
    BY <1>3, <1>4, <1>5, SbomsChangeAtCommit

\* What a step does to the process q: nothing, its end, or a statement of q.
LEMMA StepsOfProcess ==
  ASSUME TypeOK, [Next]_vars, NEW q \in Procs
  PROVE  \/ Undisturbed(q) \/ Reset(q)
         \/ FindOlder(q) \/ ReadCurrent(q) \/ CloseOlder(q)
         \/ q \in Workers /\ \/ \E s \in Sboms : StartScan(q, s)
                             \/ RunGrype(q) \/ LinkMatches(q) \/ RetireStale(q)
         \/ q \in Deleters
         \/ q \in Pruners /\ \/ BeginPrune(q) \/ Retarget(q)
                             \/ DeleteChildren(q) \/ DeleteParents(q)
  <1>1. ASSUME NEW p \in Procs, Statement(p), p # q PROVE Undisturbed(q)
    BY <1>1 DEF Statement, FindOlder, ReadCurrent, CloseOlder, Commit, DeadlockVictim,
                Reset, Write, GoTo, Undisturbed, TypeOK
  <1>2. ASSUME Statement(q)
        PROVE  Reset(q) \/ FindOlder(q) \/ ReadCurrent(q) \/ CloseOlder(q)
    BY <1>2 DEF Statement, Commit, DeadlockVictim
  <1>3. CASE UNCHANGED local
    BY <1>3 DEF local, Undisturbed
  <1>4. ASSUME NEW s \in Sboms,
               BeginUpload(s) \/ Upload(s) \/ UploadUnpublished(s) \/ UploadAgain(s)
               \/ FeedUpdate(s)
        PROVE  UNCHANGED local
    BY <1>4 DEF BeginUpload, Upload, UploadUnpublished, CommitUpload, UploadAgain, FeedUpdate
  <1>5. CASE Rescan \/ RescanCut \/ UNCHANGED vars
    BY <1>3, <1>5 DEF Rescan, RescanCut, vars
  <1>6. ASSUME NEW w \in Workers, (\E s \in Sboms : ScanMissing(w, s) \/ StartScan(w, s))
                                  \/ ScanStep(w) \/ GrypeFails(w) \/ Redelivered(w)
        PROVE  \/ Undisturbed(q) \/ Reset(q)
               \/ FindOlder(q) \/ ReadCurrent(q) \/ CloseOlder(q)
               \/ q \in Workers /\ \/ \E s \in Sboms : StartScan(q, s)
                                   \/ RunGrype(q) \/ LinkMatches(q) \/ RetireStale(q)
    <2>0. w \in Procs
      BY DEF Procs
    <2>1. ASSUME NEW s \in Sboms, ScanMissing(w, s) PROVE Undisturbed(q)
      BY <2>1 DEF ScanMissing, Receive, Undisturbed
    <2>2. ASSUME NEW s \in Sboms, StartScan(w, s), w # q PROVE Undisturbed(q)
      BY <2>2 DEF StartScan, Receive, GoTo, Undisturbed, TypeOK
    <2>3. ASSUME RunGrype(w) \/ LinkMatches(w) \/ RetireStale(w), w # q PROVE Undisturbed(q)
      BY <2>3 DEF RunGrype, LinkMatches, RetireStale, Write, GoTo, Undisturbed, TypeOK
    <2>4. ASSUME GrypeFails(w) \/ Redelivered(w), w # q PROVE Undisturbed(q)
      BY <2>0, <2>4, ResetTxn DEF GrypeFails, Redelivered
    <2>5. GrypeFails(q) \/ Redelivered(q) => Reset(q)
      BY DEF GrypeFails, Redelivered
    <2>6. QED
      BY <1>1, <1>2, <1>6, <2>0, <2>1, <2>2, <2>3, <2>4, <2>5 DEF ScanStep
  <1>7. ASSUME NEW d \in Deleters, (\E s \in Sboms : BeginDelete(d, s)) \/ DeleteStep(d), d # q
        PROVE  Undisturbed(q)
    <2>0. d \in Procs
      BY DEF Procs
    <2>1. ForeignKeyRefuses(d) => Undisturbed(q)
      BY <1>7, <2>0, ResetTxn DEF ForeignKeyRefuses
    <2>2. (\E s \in Sboms : BeginDelete(d, s)) => Undisturbed(q)
      BY <1>7 DEF BeginDelete, GoTo, Undisturbed, TypeOK
    <2>3. DeleteChildren(d) \/ DeleteParents(d) \/ ReopenSiblings(d) => Undisturbed(q)
      BY <1>7 DEF DeleteChildren, DeleteParents, ReopenSiblings, Write, GoTo, Undisturbed, TypeOK
    <2>4. QED
      BY <1>1, <1>7, <2>0, <2>1, <2>2, <2>3 DEF DeleteStep
  <1>8. ASSUME NEW p \in Pruners, BeginPrune(p) \/ PruneStep(p)
        PROVE  \/ Undisturbed(q) \/ Reset(q)
               \/ FindOlder(q) \/ ReadCurrent(q) \/ CloseOlder(q)
               \/ q \in Pruners /\ \/ BeginPrune(q) \/ Retarget(q)
                                   \/ DeleteChildren(q) \/ DeleteParents(q)
    <2>0. p \in Procs
      BY DEF Procs
    <2>1. ForeignKeyRefuses(p) /\ p # q => Undisturbed(q)
      BY <2>0, ResetTxn DEF ForeignKeyRefuses
    <2>2. ForeignKeyRefuses(q) => Reset(q)
      BY DEF ForeignKeyRefuses
    <2>3. (BeginPrune(p) \/ Retarget(p)) /\ p # q => Undisturbed(q)
      BY DEF BeginPrune, Retarget, GoTo, Undisturbed, TypeOK
    <2>4. (DeleteChildren(p) \/ DeleteParents(p)) /\ p # q => Undisturbed(q)
      BY DEF DeleteChildren, DeleteParents, Write, GoTo, Undisturbed, TypeOK
    <2>5. QED
      BY <1>1, <1>2, <1>8, <2>0, <2>1, <2>2, <2>3, <2>4 DEF PruneStep
  <1>9. ASSUME NEW p \in Procs, Lost(p) PROVE Undisturbed(q) \/ Reset(q)
    BY <1>9, ResetTxn DEF Lost
  <1>10. QED
    BY <1>3, <1>4, <1>5, <1>6, <1>7, <1>8, <1>9 DEF Next

-----------------------------------------------------------------------------
(* PruneInv is inductive, part by part.                                      *)

\* An SBOM a scan has found older than its own is obsolete, even when its own SBOM
\* has been pruned since: then that one is obsolete itself.
LEMMA OlderSbomsObsolete ==
  ASSUME TypeOK, TxnInv, PruneInv, NEW w \in Workers, FindOlder(w), NEW t \in OlderSboms(w)
  PROVE  Obsolete(t) /\ t \in Known
  <1>1. w \in Procs /\ sbom[w] \in Known /\ sbom[w] \in Sboms
    BY DataAssumption DEF Procs, TxnInv, Txn, Found, FindOlder, At, TypeOK, Reading
  <1>2. t \in Stored /\ Scope[t] = Scope[sbom[w]] /\ stamp[t] < stamp[sbom[w]]
    BY DEF OlderSboms, InScope, SeenSboms
  <1>3. CASE sbom[w] \in Stored
    BY <1>2, <1>3 DEF Obsolete, Stored, Known
  <1>4. CASE sbom[w] \notin Stored
    <2>1. Obsolete(sbom[w])
      BY <1>1, <1>4 DEF PruneInv, PrunedAreObsolete
    <2>2. PICK u \in Stored : Scope[u] = Scope[sbom[w]] /\ stamp[sbom[w]] < stamp[u]
      BY <2>1 DEF Obsolete
    <2>3. stamp[t] < stamp[u]
      BY <1>1, <1>2, <2>2 DEF TypeOK, Stored
    <2>4. QED
      BY <1>2, <2>2, <2>3 DEF Obsolete, Stored, Known
  <1>5. QED
    BY <1>3, <1>4

\* Which SBOMs a scan holds for older, and which a prune is about to delete.
LEMMA OlderChanges ==
  ASSUME TypeOK, [Next]_vars, NEW w \in Workers
  PROVE  \/ older'[w] \subseteq older[w]
         \/ FindOlder(w) /\ older'[w] = OlderSboms(w)
  <1>1. w \in Procs /\ w \notin Deleters /\ w \notin Pruners
    BY ProcAssumption DEF Procs
  <1>2. FindOlder(w) => older'[w] = OlderSboms(w)
    BY <1>1 DEF FindOlder, TypeOK
  <1>3. Undisturbed(w) \/ Reset(w) \/ UNCHANGED older => older'[w] \subseteq older[w]
    BY <1>1 DEF Undisturbed, Reset, TypeOK
  <1>4. QED
    BY <1>1, <1>2, <1>3, StepsOfProcess DEF ReadCurrent, CloseOlder, StartScan, Receive,
                                            RunGrype, LinkMatches, RetireStale

LEMMA DoomedChanges ==
  ASSUME TypeOK, [Next]_vars, NEW p \in Pruners
  PROVE  \/ doomed'[p] \subseteq doomed[p]
         \/ doomed'[p] = PruneTargets /\ UNCHANGED <<life, stamp>>
  <1>1. p \in Procs /\ p \notin Deleters /\ p \notin Workers
    BY ProcAssumption DEF Procs
  <1>2. BeginPrune(p) \/ Retarget(p) => doomed'[p] = PruneTargets /\ UNCHANGED <<life, stamp>>
    BY <1>1 DEF BeginPrune, Retarget, TypeOK, shared
  <1>3. Undisturbed(p) \/ Reset(p) \/ UNCHANGED doomed => doomed'[p] \subseteq doomed[p]
    BY <1>1 DEF Undisturbed, Reset, TypeOK
  <1>4. QED
    BY <1>1, <1>2, <1>3, StepsOfProcess DEF FindOlder, ReadCurrent, CloseOlder,
                                            DeleteChildren, DeleteParents

LEMMA ObsoleteStep ==
  ASSUME NoDelete, TypeOK, TypeOK', LinkInv, TxnInv, PruneInv, [Next]_vars
  PROVE  HasLatest' /\ PrunedAreObsolete' /\ OlderAreObsolete'
  <1>1. PICK D : /\ Sheds(D) /\ D \subseteq Known
                 /\ Known' \ Stored' \subseteq (Known \ Stored) \cup D
                 /\ \E x : Stored' \subseteq Stored \cup {x}
    BY NextSheds
  <1>2. KnownStay /\ HasLatest
    BY NextKnownStay DEF PruneInv
  <1>3. \A t \in Known : Obsolete(t) => Obsolete(t)'
    BY <1>1, <1>2, ObsoleteStays
  <1>4. HasLatest'
    BY <1>1, <1>2, LatestStays
  <1>5. \A s \in Known' \ Stored' : Obsolete(s)'
    BY <1>1, <1>3 DEF Sheds, PruneInv, PrunedAreObsolete
  <1>6. ASSUME NEW p \in Pruners, NEW t \in doomed'[p] PROVE Obsolete(t)'
    <2>1. CASE t \in doomed[p]
      BY <1>3, <2>1 DEF PruneInv, PrunedAreObsolete, TxnInv, Txn, Found, Procs
    <2>2. CASE t \in PruneTargets /\ UNCHANGED <<life, stamp>>
      <3>1. t \in Stored \ Latest /\ t \in Known
        BY <2>2 DEF PruneTargets, Stored, Known
      <3>2. QED
        BY <1>3, <3>1, ObsoleteIfNotLatest
    <2>3. QED
      BY <1>6, <2>1, <2>2, DoomedChanges
  <1>7. ASSUME NEW w \in Workers, NEW t \in older'[w] PROVE Obsolete(t)'
    <2>1. CASE t \in older[w]
      BY <1>3, <2>1 DEF PruneInv, OlderAreObsolete, TxnInv, Txn, Found, Procs
    <2>2. CASE FindOlder(w) /\ t \in OlderSboms(w)
      BY <1>3, <2>2, OlderSbomsObsolete
    <2>3. QED
      BY <1>7, <2>1, <2>2, OlderChanges
  <1>8. QED
    BY <1>4, <1>5, <1>6, <1>7 DEF PrunedAreObsolete, OlderAreObsolete

\* A scan closes rows of its own SBOM in RetireStale only.
LEMMA ClosedStep ==
  ASSUME TypeOK, LinkInv, TxnInv, PruneInv, [Next]_vars
  PROVE  ClosedAreStale'
  <1> SUFFICES ASSUME NEW w \in Workers, NEW r \in Rows, writes'[w][r] = "fixed", r[1] = sbom'[w]
               PROVE  Cve[r[2]] \notin CvesOf(report'[w])
    BY DEF ClosedAreStale, Rows, CvesOf
  <1>0. w \in Procs /\ w \notin Deleters /\ w \notin Pruners /\ Found(w) /\ ScanOf(w)
    BY ProcAssumption DEF Procs, TxnInv, Txn
  <1>1. writes[w][r] = "fixed" /\ r[1] = sbom[w] => Cve[r[2]] \notin CvesOf(report[w])
    BY DEF PruneInv, ClosedAreStale
  <1>2. CASE Undisturbed(w)
    BY <1>1, <1>2 DEF Undisturbed
  <1>3. CASE FindOlder(w) \/ ReadCurrent(w)
    BY <1>1, <1>3 DEF FindOlder, ReadCurrent
  <1>4. CASE Reset(w)
    BY <1>0, <1>4 DEF Reset, NoWrite, TypeOK
  <1>5. CASE (\E s \in Sboms : StartScan(w, s)) \/ RunGrype(w)
    <2>1. writes[w] = NoWrite /\ writes' = writes
      BY <1>0, <1>5 DEF StartScan, Receive, RunGrype, At, LinkInv, DeletesAreOfCommitted, Unwritten
    <2>2. QED
      BY <2>1 DEF NoWrite
  <1>6. CASE LinkMatches(w)
    <2>1. writes[w] = NoWrite /\ (writes' = writes \/ Write(w, NewRows(w), "open"))
      BY <1>0, <1>6 DEF LinkMatches, At, LinkInv, DeletesAreOfCommitted, Unwritten
    <2>2. writes'[w][r] \in {"keep", "open"}
      BY <1>0, <2>1 DEF NoWrite, Write, TypeOK
    <2>3. QED
      BY <2>2
  <1>7. CASE RetireStale(w)
    <2>1. sbom' = sbom /\ report' = report /\ Write(w, StaleRows(w), "fixed")
      BY <1>7 DEF RetireStale
    <2>2. r \in StaleRows(w) \/ writes'[w][r] = writes[w][r]
      BY <1>0, <2>1 DEF Write, TypeOK
    <2>3. QED
      BY <1>1, <2>1, <2>2 DEF StaleRows, WithStatus
  <1>8. CASE CloseOlder(w)
    <2>1. sbom' = sbom /\ report' = report /\ Write(w, SupersededRows(w), "fixed")
      BY <1>8 DEF CloseOlder
    <2>2. r \in SupersededRows(w) \/ writes'[w][r] = writes[w][r]
      BY <1>0, <2>1 DEF Write, TypeOK
    <2>3. r \in SupersededRows(w) => r[1] \in older[w]
      BY DEF SupersededRows, WithStatus, RowsOf
    <2>4. r \notin SupersededRows(w)
      BY <1>0, <2>1, <2>3 DEF Found, TypeOK
    <2>5. QED
      BY <1>1, <2>1, <2>2, <2>4
  <1>9. QED
    BY <1>0, <1>2, <1>3, <1>4, <1>5, <1>6, <1>7, <1>8, StepsOfProcess

\* The links a prune has removed stay links of the SBOMs it removes: those it had
\* found first are still stored, expired and obsolete when it looks again.
LEMMA ChildrenStep ==
  ASSUME TypeOK, LinkInv, TxnInv, PruneInv, [Next]_vars
  PROVE  ChildrenOfDoomed'
  <1> SUFFICES ASSUME NEW p \in Pruners, NEW r \in Rows, writes'[p][r] = "absent"
               PROVE  r[1] \in doomed'[p]
    BY DEF ChildrenOfDoomed, Rows
  <1>0. p \in Procs /\ p \notin Deleters /\ p \notin Workers /\ PruneOf(p)
    BY ProcAssumption DEF Procs, TxnInv, Txn
  <1>1. writes[p][r] = "absent" => r[1] \in doomed[p]
    BY DEF PruneInv, ChildrenOfDoomed
  <1>2. CASE Undisturbed(p)
    BY <1>1, <1>2 DEF Undisturbed
  <1>3. CASE DeleteParents(p)
    BY <1>1, <1>3 DEF DeleteParents
  <1>4. CASE Reset(p)
    BY <1>0, <1>4 DEF Reset, NoWrite, TypeOK
  <1>5. CASE BeginPrune(p)
    <2>1. writes[p] = NoWrite /\ writes' = writes
      BY <1>0, <1>5 DEF BeginPrune, LinkInv, DeletesAreOfCommitted, Unwritten
    <2>2. QED
      BY <2>1 DEF NoWrite
  <1>6. CASE DeleteChildren(p)
    <2>1. doomed' = doomed /\ Write(p, ChildRows(p), "absent")
      BY <1>6 DEF DeleteChildren
    <2>2. r \in ChildRows(p) \/ writes'[p][r] = writes[p][r]
      BY <1>0, <2>1 DEF Write, TypeOK
    <2>3. QED
      BY <1>1, <2>1, <2>2 DEF ChildRows, RowsOf
  <1>7. CASE Retarget(p)
    <2>1. writes[p][r] = "absent" /\ doomed'[p] = PruneTargets
      BY <1>0, <1>7 DEF Retarget, TypeOK
    <2>2. r[1] \in Stored /\ r[1] \in Expired
      BY <1>0, <2>1 DEF LinkInv, LinkIntegrity, DeletesAreOfCommitted, PruneOf
    <2>3. r[1] \notin Latest
      BY <1>1, <2>1, LatestNotObsolete DEF PruneInv, PrunedAreObsolete
    <2>4. QED
      BY <2>1, <2>2, <2>3 DEF PruneTargets
  <1>8. CASE FindOlder(p) \/ ReadCurrent(p) \/ CloseOlder(p)
    BY <1>0, <1>8 DEF FindOlder, ReadCurrent, CloseOlder, At, PruneOf, PruneSteps
  <1>9. QED
    BY <1>0, <1>2, <1>3, <1>4, <1>5, <1>6, <1>7, <1>8, StepsOfProcess

LEMMA PruneInvStep ==
  TypeOK /\ LinkInv /\ TxnInv /\ PruneInv /\ [Next]_vars /\ [NoDelete]_vars => PruneInv'
  <1> SUFFICES ASSUME TypeOK, LinkInv, TxnInv, PruneInv, [Next]_vars, [NoDelete]_vars PROVE PruneInv'
    OBVIOUS
  <1>1. TypeOK' /\ NoDelete
    BY NextTyped, NotEvenStuttering
  <1>2. QED
    BY <1>1, ObsoleteStep, ClosedStep, ChildrenStep DEF PruneInv

-----------------------------------------------------------------------------
(* What scans and prunes keep until a delete commits.                        *)

\* Scans and prunes keep a newest SBOM in every scope, and everything that is about
\* to be closed or pruned is obsolete, or closed by its own scan.
THEOREM PruneInvHolds == Spec /\ Undeleted => []PruneInv
  BY InitTyped, NextTyped, LinkInit, LinkStep, TxnInit, TxnStep, PruneInit, PruneInvStep,
     PTL DEF Spec, Undeleted

\* Until a delete commits no prune removes the newest SBOM of a scope.
THEOREM PruneSparesLatest == Spec /\ Undeleted => PruneKeepsLatest
  <1>1. ASSUME TypeOK, LinkInv, TxnInv, PruneInv, [Next]_vars, [NoDelete]_vars
        PROVE  \A p \in Pruners : Committing(p) => Latest \subseteq Stored'
    <2>1. PICK D : Sheds(D)
      BY <1>1, NextSheds, NotEvenStuttering
    <2>2. Latest \subseteq Stored'
      BY <1>1, <2>1, LatestNotObsolete, LatestIs DEF Sheds
    <2>3. QED
      BY <2>2
  <1>2. QED
    BY <1>1, InitTyped, NextTyped, LinkInit, LinkStep, TxnInit, TxnStep, PruneInit,
       PruneInvStep, PTL DEF Spec, Undeleted, PruneKeepsLatest

\* Until a delete commits a finding's row disappears only together with its SBOM,
\* although the prune chooses its SBOMs a second time between the two deletions.
THEOREM LinksVanishOnlyWithSbom == Spec /\ Undeleted => LinksVanishWithSbom
  <1> DEFINE Act == \A r \in Rows : link[r] # "absent" /\ link'[r] = "absent" => r[1] \notin Stored'
  <1>1. ASSUME TypeOK, LinkInv, TxnInv, PruneInv, [Next]_vars, [NoDelete]_vars PROVE Act
    <2> SUFFICES ASSUME NEW r \in Rows, link[r] # "absent", link'[r] = "absent"
                 PROVE  r[1] \notin Stored'
      OBVIOUS
    <2>1. PICK p \in Procs : Commit(p)
      BY <1>1, LinksChangeAtCommit
    <2>2. writes[p][r] = "absent" /\ Stored' = Stored \ doomed[p]
      BY <1>1, <2>1, LedgerAtCommit DEF Seen
    <2>3. p \in Pruners
      <3>1. p \notin Deleters
        BY <1>1, <2>1, NotEvenStuttering DEF NoDelete
      <3>2. QED
        BY <1>1, <2>2, <3>1 DEF TxnInv, Txn, ScanOf, ScanMade, Procs
    <2>4. QED
      BY <1>1, <2>2, <2>3 DEF PruneInv, ChildrenOfDoomed
  <1>2. QED
    BY <1>1, InitTyped, NextTyped, LinkInit, LinkStep, TxnInit, TxnStep, PruneInit,
       PruneInvStep, PTL DEF Spec, Undeleted, LinksVanishWithSbom

\* Until a delete commits a finding of the newest SBOM of a scope is closed only by a
\* scan of that SBOM whose report has not its CVE: no scan of another SBOM, however
\* late, and no prune touches it.
THEOREM LatestClosedByOwnScan == Spec /\ Undeleted => LatestClosedOnlyByOwnScan
  <1> DEFINE Closes(r) == \E w \in Workers :
                Committing(w) /\ sbom[w] = r[1] /\ Cve[r[2]] \notin CvesOf(report[w])
             Act == \A r \in Rows :
                link[r] = "open" /\ link'[r] = "fixed" /\ r[1] \in Latest => Closes(r)
  <1>1. ASSUME TypeOK, LinkInv, TxnInv, PruneInv, [Next]_vars, [NoDelete]_vars PROVE Act
    <2> SUFFICES ASSUME NEW r \in Rows, link[r] = "open", link'[r] = "fixed", r[1] \in Latest
                 PROVE  Closes(r)
      OBVIOUS
    <2>1. PICK p \in Procs : Commit(p)
      BY <1>1, LinksChangeAtCommit
    <2>2. /\ p \in Workers /\ Committing(p) /\ writes[p][r] = "fixed"
          /\ r[1] = sbom[p] \/ r[1] \in older[p]
      <3>1. p \notin Deleters
        BY <1>1, <2>1, NotEvenStuttering DEF NoDelete
      <3>2. QED
        BY <1>1, <2>1, <3>1, CommitCloses DEF Commit, Seen
    <2>3. r[1] \notin older[p]
      BY <1>1, <2>2, LatestNotObsolete DEF PruneInv, OlderAreObsolete
    <2>4. QED
      BY <1>1, <2>2, <2>3 DEF PruneInv, ClosedAreStale
  <1>2. QED
    BY <1>1, InitTyped, NextTyped, LinkInit, LinkStep, TxnInit, TxnStep, PruneInit,
       PruneInvStep, PTL DEF Spec, Undeleted, LatestClosedOnlyByOwnScan
=============================================================================
