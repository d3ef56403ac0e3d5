------------------------------ MODULE LedgerProofs ------------------------------
(***************************************************************************)
(* Theorems about what the transactions of ScanPipeline may do to findings: *)
(* its action properties and the refinement of FindingLedger, for every set *)
(* of SBOMs, findings and processes and for every value of the bounds.      *)
(***************************************************************************)
EXTENDS ScanPipelineProofs

-----------------------------------------------------------------------------
(* What a transaction holds before it commits.                              *)

Known == {s \in Sboms : life[s] \in {"stored", "deleted"}}

\* uploaded_at is given once, in the order of the clock.
Stamped ==
  \A s \in Sboms : /\ stamp[s] < clock
                   /\ life[s] = "new" <=> stamp[s] = 0

\* Each kind of process has statements of its own.
ScanSteps   == {"idle", "grype", "link", "retire", "older", "current", "close", "commit"}
DeleteSteps == {"idle", "children", "parents", "reopen", "older", "current", "close", "commit"}
PruneSteps  == {"idle", "children", "retarget", "parents", "commit"}

\* A process works on SBOMs that are stored, or were when it found them; older_ids
\* are strictly older SBOMs of the scope, none of which it is deleting itself.
Found(p) ==
  /\ sbom[p] \in Known \cup {NoSbom} /\ doomed[p] \subseteq Known
  /\ older[p] # {} => pc[p] \in {"current", "close", "commit"} /\ sbom[p] \in Known
  /\ \A t \in older[p] : /\ t \in Known /\ t \notin doomed[p]
                         /\ Scope[t] = Scope[sbom[p]] /\ stamp[t] < stamp[sbom[p]]

\* A scan has opened rows of its SBOM that were absent, for what grype reported,
\* and closed open rows of its SBOM or of older ones.
ScanMade(w, r) ==
  /\ writes[w][r] # "absent"
  /\ writes[w][r] = "open" => r[1] = sbom[w] /\ link[r] = "absent" /\ r[2] \in report[w]
  /\ writes[w][r] = "fixed" => link[r] = "open" /\ (r[1] = sbom[w] \/ r[1] \in older[w])

ScanOf(w) ==
  /\ pc[w] \in ScanSteps
  /\ pc[w] # "idle" => sbom[w] \in Known
  /\ \A r \in Rows : ScanMade(w, r)

\* A delete has removed rows of its SBOM, and reopened or closed rows of others in
\* its scope.
DeleteMade(d, r) ==
  /\ writes[d][r] = "absent" => r[1] \in doomed[d]
  /\ writes[d][r] \in {"open", "fixed"} =>
       /\ r[1] \notin doomed[d] /\ link[r] # "absent"
       /\ \A s \in doomed[d] : Scope[r[1]] = Scope[s]
  /\ writes[d][r] = "fixed" => r[1] \in older[d]

DeleteOf(d) ==
  /\ pc[d] \in DeleteSteps
  /\ pc[d] # "idle" => \E s \in Sboms : doomed[d] = {s} /\ (sbom[d] # NoSbom => Scope[sbom[d]] = Scope[s])
  /\ \A r \in Rows : DeleteMade(d, r)

\* A prune has removed rows of expired SBOMs.
PruneOf(p) ==
  /\ pc[p] \in PruneSteps
  /\ doomed[p] \subseteq Expired
  /\ \A r \in Rows : writes[p][r] # "keep" => writes[p][r] = "absent" /\ r[1] \in Expired

Txn(p) ==
  /\ Found(p)
  /\ p \in Workers => ScanOf(p)
  /\ p \in Deleters => DeleteOf(p)
  /\ p \in Pruners => PruneOf(p)

TxnInv == Stamped /\ \A p \in Procs : Txn(p)

LEMMA TxnInit == Init => TxnInv
  <1> SUFFICES ASSUME Init PROVE TxnInv
    OBVIOUS
  <1>1. Stamped
    BY DEF Init, Stamped
  <1>2. ASSUME NEW p \in Procs PROVE Txn(p)
    <2>1. /\ pc[p] = "idle" /\ sbom[p] = NoSbom /\ older[p] = {} /\ doomed[p] = {}
          /\ \A r \in Rows : writes[p][r] = "keep"
      BY DEF Init, NoWrite
    <2>2. Found(p)
      BY <2>1 DEF Found
    <2>3. ScanOf(p) /\ DeleteOf(p) /\ PruneOf(p)
      BY <2>1 DEF ScanOf, ScanMade, DeleteOf, DeleteMade, PruneOf,
                  ScanSteps, DeleteSteps, PruneSteps
    <2>4. QED
      BY <2>2, <2>3 DEF Txn
  <1>3. QED
    BY <1>1, <1>2 DEF TxnInv

\* What q remembers and has written is left alone.
Undisturbed(q) ==
  /\ pc'[q] = pc[q] /\ sbom'[q] = sbom[q] /\ report'[q] = report[q]
  /\ older'[q] = older[q] /\ doomed'[q] = doomed[q] /\ writes'[q] = writes[q]

\* Committed SBOMs stay known, with the uploaded_at they have.
KnownStay == Known \subseteq Known' /\ \A s \in Known : stamp'[s] = stamp[s]

\* Nobody else commits a row that q has locked.
LEMMA Frame ==
  ASSUME TypeOK, NEW q \in Procs, Txn(q), Undisturbed(q), KnownStay,
         \A r \in Rows : writes[q][r] # "keep" => link'[r] = link[r]
  PROVE  Txn(q)'
  <1>1. Found(q)'
    BY DEF Txn, Found, Undisturbed, KnownStay
  <1>2. ScanOf(q) => ScanOf(q)'
    BY DEF ScanOf, ScanMade, Undisturbed, KnownStay, Rows
  <1>3. DeleteOf(q) => DeleteOf(q)'
    BY DEF DeleteOf, DeleteMade, Undisturbed, Rows
  <1>4. PruneOf(q) => PruneOf(q)'
    BY DEF PruneOf, Undisturbed, Rows
  <1>5. QED
    BY <1>1, <1>2, <1>3, <1>4 DEF Txn

LEMMA ResetTxn ==
  ASSUME TypeOK, NEW p \in Procs, Reset(p)
  PROVE  Txn(p)' /\ \A q \in Procs \ {p} : Undisturbed(q)
  <1>1. /\ pc'[p] = "idle" /\ sbom'[p] = NoSbom /\ older'[p] = {} /\ doomed'[p] = {}
        /\ \A r \in Rows : writes'[p][r] = "keep"
    BY DEF TypeOK, Reset, NoWrite
  <1>2. Found(p)'
    BY <1>1 DEF Found
  <1>3. ScanOf(p)' /\ DeleteOf(p)' /\ PruneOf(p)'
    BY <1>1 DEF ScanOf, ScanMade, DeleteOf, DeleteMade, PruneOf, Rows,
                ScanSteps, DeleteSteps, PruneSteps
  <1>4. \A q \in Procs \ {p} : Undisturbed(q)
    BY DEF TypeOK, Reset, Undisturbed
  <1>5. QED
    BY <1>2, <1>3, <1>4 DEF Txn

\* A statement of p that commits nothing.
LEMMA OwnStep ==
  ASSUME TypeOK, TxnInv, NEW p \in Procs, Txn(p)', UNCHANGED <<life, clock, stamp, link>>,
         \A q \in Procs \ {p} : Undisturbed(q)
  PROVE  TxnInv'
  <1>1. Stamped'
    BY DEF TxnInv, Stamped
  <1>2. KnownStay
    BY DEF KnownStay, Known
  <1>3. \A q \in Procs \ {p} : Txn(q)'
    BY <1>2, Frame DEF TxnInv
  <1>4. QED
    BY <1>1, <1>3 DEF TxnInv

\* How a statement of p that writes the rows R changes its writes.
LEMMA WroteRows ==
  ASSUME TypeOK, NEW p \in Procs, NEW R \in SUBSET Rows, NEW st \in Status, Write(p, R, st)
  PROVE  /\ \A r \in Rows : writes'[p][r] = IF r \in R THEN st ELSE writes[p][r]
         /\ \A q \in Procs \ {p} : writes'[q] = writes[q]
  BY DEF TypeOK, Write

LEMMA WorkerTxn ==
  ASSUME TypeOK, LinkInv, TxnInv, NEW w \in Workers,
         RunGrype(w) \/ LinkMatches(w) \/ RetireStale(w)
  PROVE  TxnInv'
  <1>0. w \in Procs /\ w \notin Deleters /\ w \notin Pruners /\ Found(w) /\ ScanOf(w)
    BY ProcAssumption DEF Procs, TxnInv, Txn
  <1>1. UNCHANGED <<life, clock, stamp, link, sbom, older, doomed>>
    BY DEF RunGrype, LinkMatches, RetireStale, shared
  <1>2. pc[w] \in {"grype", "link", "retire"} /\ pc'[w] \in {"link", "retire", "older"}
    BY <1>0 DEF TypeOK, RunGrype, LinkMatches, RetireStale, At, GoTo
  <1>3. Found(w)'
    BY <1>0, <1>1, <1>2 DEF Found, Known
  <1>4. sbom[w] \in Sboms
    BY <1>0, <1>2 DEF TypeOK, Reading
  <1>5. CASE RunGrype(w)
    <2>1. writes[w] = NoWrite /\ UNCHANGED writes
      BY <1>0, <1>5 DEF RunGrype, At, LinkInv, DeletesAreOfCommitted, Unwritten
    <2>2. ScanOf(w)'
      BY <1>0, <1>1, <1>2, <2>1 DEF ScanOf, ScanMade, ScanSteps, NoWrite, Known, Rows
    <2>3. \A q \in Procs \ {w} : Undisturbed(q)
      BY <1>1, <1>5 DEF TypeOK, RunGrype, GoTo, Undisturbed
    <2>4. QED
      BY <1>0, <1>1, <1>3, <2>2, <2>3, OwnStep DEF Txn
  <1>6. CASE LinkMatches(w)
    <2>1. writes[w] = NoWrite
      BY <1>0, <1>6 DEF LinkMatches, At, LinkInv, DeletesAreOfCommitted, Unwritten
    <2>2. NewRows(w) \in SUBSET Rows
      BY <1>0, <1>4 DEF NewRows, WithStatus, Rows, TypeOK
    <2>3. \A r \in NewRows(w) : r[1] = sbom[w] /\ link[r] = "absent" /\ r[2] \in report[w]
      BY <2>1, <2>2 DEF NewRows, WithStatus, Seen, NoWrite
    <2>4. /\ \A r \in Rows : \/ writes'[w][r] = "keep"
                             \/ r \in NewRows(w) /\ writes'[w][r] = "open"
          /\ \A q \in Procs \ {w} : writes'[q] = writes[q]
      <3>0. \A r \in Rows : writes[w][r] = "keep"
        BY <2>1 DEF NoWrite
      <3>1. CASE sbom[w] \in Stored
        <4>1. Write(w, NewRows(w), "open")
          BY <1>6, <3>1 DEF LinkMatches
        <4>2. "open" \in Status
          BY DEF Status
        <4>3. QED
          BY <1>0, <2>2, <3>0, <4>1, <4>2, WroteRows
      <3>2. CASE sbom[w] \notin Stored
        <4>1. UNCHANGED writes
          BY <1>6, <3>2 DEF LinkMatches
        <4>2. QED
          BY <3>0, <4>1
      <3>3. QED
        BY <3>1, <3>2
    <2>5. UNCHANGED report
      BY <1>6 DEF LinkMatches
    <2>6. ScanOf(w)'
      BY <1>0, <1>1, <1>2, <2>3, <2>4, <2>5 DEF ScanOf, ScanMade, ScanSteps, Known, Rows
    <2>7. \A q \in Procs \ {w} : Undisturbed(q)
      BY <1>1, <1>6, <2>4, <2>5 DEF TypeOK, LinkMatches, GoTo, Undisturbed
    <2>8. QED
      BY <1>0, <1>1, <1>3, <2>6, <2>7, OwnStep DEF Txn
  <1>7. CASE RetireStale(w)
    <2>1. StaleRows(w) \in SUBSET Rows
      BY <1>4 DEF StaleRows, WithStatus, RowsOf, Rows
    <2>2. \A r \in StaleRows(w) : r[1] = sbom[w] /\ r[2] \notin report[w] /\ Seen(w, r) = "open"
      BY <2>1 DEF StaleRows, WithStatus, RowsOf, CvesOf
    <2>3. \A r \in StaleRows(w) : link[r] = "open"
      BY <1>0, <2>1, <2>2 DEF Seen, ScanOf, ScanMade
    <2>4. /\ \A r \in Rows : writes'[w][r] = IF r \in StaleRows(w) THEN "fixed" ELSE writes[w][r]
          /\ \A q \in Procs \ {w} : writes'[q] = writes[q]
      BY <1>0, <1>7, <2>1, WroteRows DEF RetireStale, Status
    <2>5. UNCHANGED report
      BY <1>7 DEF RetireStale
    <2>6. ScanOf(w)'
      BY <1>0, <1>1, <1>2, <2>2, <2>3, <2>4, <2>5 DEF ScanOf, ScanMade, ScanSteps, Known, Rows
    <2>7. \A q \in Procs \ {w} : Undisturbed(q)
      BY <1>1, <1>7, <2>4, <2>5 DEF TypeOK, RetireStale, GoTo, Undisturbed
    <2>8. QED
      BY <1>0, <1>1, <1>3, <2>6, <2>7, OwnStep DEF Txn
  <1>8. QED
    BY <1>5, <1>6, <1>7

\* The SELECTs of reconcile_vulnerabilities.
LEMMA ReconcileTxn ==
  ASSUME TypeOK, LinkInv, TxnInv, NEW p \in Procs, FindOlder(p) \/ ReadCurrent(p)
  PROVE  TxnInv'
  <1>1. Found(p) /\ Txn(p) /\ sbom[p] \in Sboms /\ p \notin Pruners
    BY ProcAssumption DEF TxnInv, Txn, FindOlder, ReadCurrent, At, TypeOK, Reading,
                          PruneOf, PruneSteps
  <1>2. UNCHANGED <<life, clock, stamp, link, sbom, report, doomed, writes>>
    BY DEF FindOlder, ReadCurrent, shared
  <1>3. /\ pc[p] \in {"older", "current"} /\ pc'[p] \in {"current", "close", "commit"}
        /\ older[p] \subseteq older'[p]
    BY <1>1 DEF TypeOK, FindOlder, ReadCurrent, At, GoTo, Found
  <1>4. Found(p)'
    <2>1. sbom[p] \in Known
      BY <1>1, DataAssumption DEF Found
    <2>2. \A t \in older'[p] : /\ t \in Known /\ t \notin doomed[p]
                               /\ Scope[t] = Scope[sbom[p]] /\ stamp[t] < stamp[sbom[p]]
      <3>1. CASE FindOlder(p)
        <4>1. older'[p] = OlderSboms(p) /\ Dropped(p) = doomed[p]
          BY <3>1 DEF TypeOK, FindOlder, At, Dropped
        <4>2. QED
          BY <4>1 DEF OlderSboms, InScope, SeenSboms, Stored, Known
      <3>2. CASE ReadCurrent(p)
        BY <1>1, <3>2 DEF ReadCurrent, Found
      <3>3. QED
        BY <3>1, <3>2
    <2>3. QED
      BY <1>1, <1>2, <1>3, <2>1, <2>2 DEF Found, Known
  <1>5. p \in Workers => ScanOf(p)'
    BY <1>1, <1>2, <1>3 DEF Txn, ScanOf, ScanMade, ScanSteps, Known, Rows
  <1>6. p \in Deleters => DeleteOf(p)'
    BY <1>1, <1>2, <1>3 DEF Txn, DeleteOf, DeleteMade, DeleteSteps, Rows
  <1>7. \A q \in Procs \ {p} : Undisturbed(q)
    BY DEF TypeOK, FindOlder, ReadCurrent, GoTo, Undisturbed
  <1>8. QED
    BY <1>1, <1>2, <1>4, <1>5, <1>6, <1>7, OwnStep DEF Txn

\* The rows a process closes in older SBOMs were open before it started.
LEMMA CloseOlderTxn ==
  ASSUME TypeOK, LinkInv, TxnInv, NEW p \in Procs, CloseOlder(p)
  PROVE  TxnInv'
  <1>1. Found(p) /\ Txn(p) /\ sbom[p] \in Sboms /\ p \notin Pruners
    BY ProcAssumption DEF TxnInv, Txn, CloseOlder, At, TypeOK, Reading, PruneOf, PruneSteps
  <1>2. UNCHANGED <<life, clock, stamp, link, sbom, report, older, doomed>>
    BY DEF CloseOlder, shared
  <1>3. pc[p] = "close" /\ pc'[p] = "commit"
    BY DEF TypeOK, CloseOlder, At, GoTo
  <1>4. SupersededRows(p) \in SUBSET Rows
    BY DEF SupersededRows, WithStatus, RowsOf, Rows, TypeOK
  <1>5. \A r \in SupersededRows(p) : r[1] \in older[p] /\ Seen(p, r) = "open"
    BY DEF SupersededRows, WithStatus, RowsOf
  <1>6. /\ \A r \in Rows : writes'[p][r] = IF r \in SupersededRows(p) THEN "fixed" ELSE writes[p][r]
        /\ \A q \in Procs \ {p} : writes'[q] = writes[q]
    BY <1>4, WroteRows DEF CloseOlder, Status
  <1>7. Found(p)'
    BY <1>1, <1>2, <1>3 DEF Found, Known
  <1>8. ASSUME p \in Workers PROVE ScanOf(p)'
    <2>1. ScanOf(p)
      BY <1>1, <1>8 DEF Txn
    <2>2. ASSUME NEW r \in SupersededRows(p) PROVE link[r] = "open"
      <3>1. r[1] # sbom[p]
        BY <1>1, <1>5, <2>2 DEF Found, TypeOK
      <3>2. QED
        BY <1>4, <1>5, <2>1, <3>1 DEF ScanOf, ScanMade, Seen
    <2>3. QED
      BY <1>2, <1>3, <1>5, <1>6, <2>1, <2>2 DEF ScanOf, ScanMade, ScanSteps, Known, Rows
  <1>9. ASSUME p \in Deleters PROVE DeleteOf(p)'
    <2>1. DeleteOf(p)
      BY <1>1, <1>9 DEF Txn
    <2>2. PICK s \in Sboms : doomed[p] = {s} /\ (sbom[p] # NoSbom => Scope[sbom[p]] = Scope[s])
      BY <1>3, <2>1 DEF DeleteOf
    <2>3. ASSUME NEW r \in SupersededRows(p)
          PROVE  link[r] # "absent" /\ r[1] \notin doomed[p] /\ Scope[r[1]] = Scope[s]
      <3>1. link[r] # "absent"
        BY <1>4, <1>5, <2>1 DEF DeleteOf, DeleteMade, Seen
      <3>2. r[1] \notin doomed[p] /\ Scope[r[1]] = Scope[sbom[p]] /\ sbom[p] # NoSbom
        BY <1>1, <1>5, DataAssumption DEF Found
      <3>3. QED
        BY <2>2, <3>1, <3>2
    <2>4. \A r \in Rows : DeleteMade(p, r)'
      BY <1>2, <1>5, <1>6, <2>1, <2>2, <2>3 DEF DeleteOf, DeleteMade, Rows
    <2>5. QED
      BY <1>2, <1>3, <2>2, <2>4 DEF DeleteOf, DeleteSteps, Rows
  <1>10. \A q \in Procs \ {p} : Undisturbed(q)
    BY <1>2, <1>6 DEF TypeOK, CloseOlder, GoTo, Undisturbed
  <1>11. QED
    BY <1>1, <1>2, <1>7, <1>8, <1>9, <1>10, OwnStep DEF Txn

\* The rows p commits are locked by nobody else.
LEMMA CommitTxn ==
  ASSUME TypeOK, LinkInv, TxnInv, NEW p \in Procs, Commit(p)
  PROVE  TxnInv'
  <1>1. Txn(p)' /\ \A q \in Procs \ {p} : Undisturbed(q)
    BY ResetTxn DEF Commit
  <1>2. Dropped(p) \subseteq Known
    BY DEF TxnInv, Txn, Found, Dropped
  <1>3. KnownStay
    BY <1>2 DEF Commit, KnownStay, Known
  <1>4. Stamped'
    BY <1>2 DEF TxnInv, Stamped, Commit, Known
  <1>5. ASSUME NEW q \in Procs \ {p} PROVE Txn(q)'
    <2>1. \A r \in Rows : writes[q][r] # "keep" => link'[r] = link[r]
      BY DEF LinkInv, LocksExclusive, Commit, Seen
    <2>2. QED
      BY <1>1, <1>3, <2>1, Frame DEF TxnInv
  <1>6. QED
    BY <1>1, <1>4, <1>5 DEF TxnInv

\* A delete or a prune decides which SBOMs it is going to delete.
LEMMA TargetTxn ==
  ASSUME TypeOK, LinkInv, TxnInv, NEW p \in Procs,
         \/ p \in Deleters /\ \E s \in Sboms : BeginDelete(p, s)
         \/ p \in Pruners /\ (BeginPrune(p) \/ Retarget(p))
  PROVE  TxnInv'
  <1>1. Found(p) /\ Txn(p) /\ p \notin Workers
    BY ProcAssumption DEF TxnInv, Txn
  <1>2. UNCHANGED <<life, clock, stamp, link, report, older, writes>>
    BY DEF BeginDelete, BeginPrune, Retarget, shared
  <1>3. CASE p \in Deleters
    <2>0. p \notin Pruners
      BY <1>3, ProcAssumption
    <2>1. PICK s \in Sboms : BeginDelete(p, s)
      BY <1>3, <2>0
    <2> DEFINE rest == Newest(InScope(Stored \ {s}, s))
    <2>2. rest \subseteq Stored /\ \A t \in rest : Scope[t] = Scope[s]
      BY DEF Newest, InScope
    <2>3. sbom'[p] = NoSbom \/ sbom'[p] \in rest
      BY <2>1 DEF BeginDelete, TypeOK
    <2>4. /\ doomed'[p] = {s} /\ s \in Known /\ older[p] = {}
          /\ pc'[p] = "children" /\ writes[p] = NoWrite
      BY <1>1, <2>1 DEF BeginDelete, TypeOK, GoTo, Stored, Known, Found,
                        LinkInv, DeletesAreOfCommitted, Unwritten
    <2>5. Found(p)'
      BY <1>2, <2>2, <2>3, <2>4 DEF Found, Known, Stored
    <2>6. DeleteOf(p)'
      BY <1>2, <2>2, <2>3, <2>4 DEF DeleteOf, DeleteMade, DeleteSteps, NoWrite, Rows
    <2>7. \A q \in Procs \ {p} : Undisturbed(q)
      BY <2>1 DEF TypeOK, BeginDelete, GoTo, Undisturbed
    <2>8. QED
      BY <1>1, <1>2, <1>3, <2>0, <2>5, <2>6, <2>7, OwnStep DEF Txn
  <1>4. CASE p \in Pruners
    <2>0. p \notin Deleters /\ PruneOf(p)
      BY <1>1, <1>4, ProcAssumption DEF Txn
    <2>1. /\ doomed'[p] = PruneTargets /\ older[p] = {}
          /\ sbom'[p] = sbom[p] /\ pc'[p] \in {"children", "parents"}
      BY <1>1, <1>4, <2>0 DEF BeginPrune, Retarget, At, TypeOK, GoTo, Found
    <2>2. Found(p)'
      BY <1>1, <1>2, <2>1 DEF Found, Known, PruneTargets, Stored
    <2>3. PruneOf(p)'
      BY <1>2, <2>0, <2>1 DEF PruneOf, PruneSteps, PruneTargets, Rows
    <2>4. \A q \in Procs \ {p} : Undisturbed(q)
      BY <1>4, <2>0 DEF TypeOK, BeginPrune, Retarget, GoTo, Undisturbed
    <2>5. QED
      BY <1>1, <1>2, <1>4, <2>0, <2>2, <2>3, <2>4, OwnStep DEF Txn
  <1>5. QED
    BY <1>3, <1>4

LEMMA DeletionTxn ==
  ASSUME TypeOK, LinkInv, TxnInv, NEW p \in Deleters \cup Pruners,
         DeleteChildren(p) \/ DeleteParents(p)
  PROVE  TxnInv'
  <1>1. p \in Procs /\ Found(p) /\ Txn(p) /\ p \notin Workers
    BY ProcAssumption DEF TxnInv, Txn, Procs
  <1>2. UNCHANGED <<life, clock, stamp, link, sbom, report, older, doomed>>
    BY DEF DeleteChildren, DeleteParents, shared
  <1>3. /\ pc[p] \in {"children", "parents"}
        /\ pc'[p] \in IF p \in Deleters THEN {"parents", "reopen"} ELSE {"retarget", "commit"}
    BY <1>1 DEF TypeOK, DeleteChildren, DeleteParents, At, GoTo
  <1>4. /\ \A r \in Rows : \/ writes'[p][r] = writes[p][r]
                           \/ writes'[p][r] = "absent" /\ r[1] \in doomed[p]
        /\ \A q \in Procs \ {p} : writes'[q] = writes[q]
    <2>1. CASE DeleteChildren(p)
      <3>1. ChildRows(p) \in SUBSET Rows /\ \A r \in ChildRows(p) : r[1] \in doomed[p]
        BY <1>1 DEF ChildRows, RowsOf, Rows, TypeOK
      <3>2. Write(p, ChildRows(p), "absent") /\ "absent" \in Status
        BY <2>1 DEF DeleteChildren, Status
      <3>3. QED
        BY <1>1, <3>1, <3>2, WroteRows
    <2>2. CASE DeleteParents(p)
      BY <2>2 DEF DeleteParents
    <2>3. QED
      BY <2>1, <2>2
  <1>5. Found(p)'
    BY <1>1, <1>2, <1>3 DEF Found, Known
  <1>6. p \in Deleters => DeleteOf(p)'
    BY <1>1, <1>2, <1>3, <1>4 DEF Txn, DeleteOf, DeleteMade, DeleteSteps, Rows
  <1>7. p \in Pruners => PruneOf(p)'
    BY <1>1, <1>2, <1>3, <1>4, ProcAssumption DEF Txn, PruneOf, PruneSteps, Rows
  <1>8. \A q \in Procs \ {p} : Undisturbed(q)
    BY <1>2, <1>4 DEF TypeOK, DeleteChildren, DeleteParents, GoTo, Undisturbed
  <1>9. QED
    BY <1>1, <1>2, <1>5, <1>6, <1>7, <1>8, OwnStep DEF Txn

\* The fixed findings of the other SBOMs of the scope are reopened.
LEMMA ReopenTxn ==
  ASSUME TypeOK, LinkInv, TxnInv, NEW d \in Deleters, ReopenSiblings(d)
  PROVE  TxnInv'
  <1>1. d \in Procs /\ d \notin Workers /\ d \notin Pruners /\ Found(d) /\ DeleteOf(d)
    BY ProcAssumption DEF TxnInv, Txn, Procs
  <1>2. UNCHANGED <<life, clock, stamp, link, sbom, report, older, doomed>>
    BY DEF ReopenSiblings, shared
  <1>3. pc[d] = "reopen" /\ pc'[d] \in {"commit", "older"}
    BY <1>1 DEF TypeOK, ReopenSiblings, At, GoTo
  <1>4. FixedSiblings(d) \in SUBSET Rows
    BY DEF FixedSiblings, RowsOf, Rows, SeenSboms, Stored
  <1>5. /\ \A r \in Rows : writes'[d][r] = IF r \in FixedSiblings(d) THEN "open" ELSE writes[d][r]
        /\ \A q \in Procs \ {d} : writes'[q] = writes[q]
    BY <1>1, <1>4, WroteRows DEF ReopenSiblings, Status
  <1>6. ASSUME NEW r \in FixedSiblings(d)
        PROVE  /\ r[1] \notin doomed[d] /\ link[r] # "absent"
               /\ \A s \in doomed[d] : Scope[r[1]] = Scope[s]
    <2>1. Seen(d, r) = "fixed" /\ r[1] \notin doomed[d]
      BY <1>3 DEF FixedSiblings, RowsOf, SeenSboms, Dropped
    <2>2. link[r] # "absent"
      BY <1>1, <1>4, <2>1 DEF Seen, DeleteOf, DeleteMade
    <2>3. \A s \in doomed[d] : Scope[r[1]] = Scope[s]
      BY <1>1, <1>3 DEF DeleteOf, FixedSiblings
    <2>4. QED
      BY <2>1, <2>2, <2>3
  <1>7. Found(d)'
    BY <1>1, <1>2, <1>3 DEF Found, Known
  <1>8. DeleteOf(d)'
    BY <1>1, <1>2, <1>3, <1>5, <1>6 DEF DeleteOf, DeleteMade, DeleteSteps, Rows
  <1>9. \A q \in Procs \ {d} : Undisturbed(q)
    BY <1>2, <1>5 DEF TypeOK, ReopenSiblings, GoTo, Undisturbed
  <1>10. QED
    BY <1>1, <1>2, <1>7, <1>8, <1>9, OwnStep DEF Txn

\* Uploads, the broker and the grype database touch no transaction.
LEMMA OutsideTxn ==
  ASSUME TypeOK, TxnInv, UNCHANGED <<link, local>>, Stamped', KnownStay
  PROVE  TxnInv'
  BY Frame DEF TxnInv, Undisturbed, local

LEMMA UploadTxn ==
  ASSUME TypeOK, TxnInv, NEW s \in Sboms, BeginUpload(s) \/ CommitUpload(s)
  PROVE  TxnInv'
  <1>1. CASE BeginUpload(s)
    <2>1. Stamped'
      BY <1>1 DEF TypeOK, TxnInv, Stamped, BeginUpload
    <2>2. KnownStay
      BY <1>1 DEF TypeOK, KnownStay, Known, BeginUpload
    <2>3. QED
      BY <1>1, <2>1, <2>2, OutsideTxn DEF BeginUpload
  <1>2. CASE CommitUpload(s)
    <2>1. Stamped'
      BY <1>2 DEF TypeOK, TxnInv, Stamped, CommitUpload
    <2>2. KnownStay
      BY <1>2 DEF TypeOK, KnownStay, Known, CommitUpload
    <2>3. QED
      BY <1>2, <2>1, <2>2, OutsideTxn DEF CommitUpload
  <1>3. QED
    BY <1>1, <1>2

LEMMA ReceiveTxn ==
  ASSUME TypeOK, LinkInv, TxnInv, NEW w \in Workers, NEW s \in Sboms,
         ScanMissing(w, s) \/ StartScan(w, s)
  PROVE  TxnInv'
  <1>1. w \in Procs /\ w \notin Deleters /\ w \notin Pruners /\ Found(w) /\ ScanOf(w)
    BY ProcAssumption DEF TxnInv, Txn, Procs
  <1>2. UNCHANGED <<life, clock, stamp, link, report, older, doomed, writes>>
        /\ \A q \in Procs \ {w} : Undisturbed(q)
    BY DEF TypeOK, ScanMissing, StartScan, Receive, GoTo, Undisturbed
  <1>3. \/ pc'[w] = "idle" /\ sbom'[w] = sbom[w]
        \/ pc'[w] = "grype" /\ sbom'[w] \in Known
    BY <1>1 DEF TypeOK, ScanMissing, StartScan, Receive, GoTo, Stored, Known
  <1>4. \A r \in Rows : writes[w][r] = "keep"
    BY <1>1 DEF ScanMissing, StartScan, Receive, LinkInv, DeletesAreOfCommitted, Unwritten, NoWrite
  <1>5. older[w] = {}
    BY <1>1 DEF Found, ScanMissing, StartScan, Receive
  <1>6. Found(w)' /\ ScanOf(w)'
    BY <1>1, <1>2, <1>3, <1>4, <1>5 DEF Found, ScanOf, ScanMade, ScanSteps, Known, Rows
  <1>7. QED
    BY <1>1, <1>2, <1>6, OwnStep DEF Txn

LEMMA RollbackTxn ==
  ASSUME TypeOK, TxnInv, NEW p \in Procs, Reset(p), UNCHANGED <<life, clock, stamp, link>>
  PROVE  TxnInv'
  BY ResetTxn, OwnStep

LEMMA StatementTxn ==
  ASSUME TypeOK, LinkInv, TxnInv, NEW p \in Procs, Statement(p)
  PROVE  TxnInv'
  <1>1. CASE FindOlder(p) \/ ReadCurrent(p)
    BY <1>1, ReconcileTxn
  <1>2. CASE CloseOlder(p)
    BY <1>2, CloseOlderTxn
  <1>3. CASE Commit(p)
    BY <1>3, CommitTxn
  <1>4. CASE DeadlockVictim(p)
    BY <1>4, RollbackTxn DEF DeadlockVictim, shared
  <1>5. QED
    BY <1>1, <1>2, <1>3, <1>4 DEF Statement

LEMMA TxnStep == TypeOK /\ LinkInv /\ TxnInv /\ [Next]_vars => TxnInv'
  <1> SUFFICES ASSUME TypeOK, LinkInv, TxnInv, [Next]_vars PROVE TxnInv'
    OBVIOUS
  <1>1. ASSUME NEW s \in Sboms, BeginUpload(s) \/ Upload(s) \/ UploadUnpublished(s)
        PROVE  TxnInv'
    BY <1>1, UploadTxn DEF Upload, UploadUnpublished
  <1>2. ASSUME UNCHANGED <<life, clock, stamp, link, local>> PROVE TxnInv'
    <2>1. Stamped' /\ KnownStay
      BY <1>2 DEF TxnInv, Stamped, KnownStay, Known
    <2>2. QED
      BY <1>2, <2>1, OutsideTxn
  <1>3. ASSUME NEW s \in Sboms, UploadAgain(s) \/ FeedUpdate(s) PROVE TxnInv'
    BY <1>2, <1>3 DEF UploadAgain, FeedUpdate, shared
  <1>4. CASE Rescan \/ RescanCut \/ UNCHANGED vars
    BY <1>2, <1>4 DEF Rescan, RescanCut, vars, shared
  <1>5. ASSUME NEW w \in Workers, (\E s \in Sboms : ScanMissing(w, s) \/ StartScan(w, s))
                                  \/ ScanStep(w) \/ GrypeFails(w) \/ Redelivered(w)
        PROVE  TxnInv'
    <2>1. w \in Procs
      BY DEF Procs
    <2>2. CASE GrypeFails(w) \/ Redelivered(w)
      BY <2>1, <2>2, RollbackTxn DEF GrypeFails, Redelivered, shared
    <2>3. CASE ScanStep(w)
      BY <2>1, <2>3, WorkerTxn, StatementTxn DEF ScanStep
    <2>4. QED
      BY <1>5, <2>2, <2>3, ReceiveTxn
  <1>6. ASSUME NEW d \in Deleters, (\E s \in Sboms : BeginDelete(d, s)) \/ DeleteStep(d)
        PROVE  TxnInv'
    <2>1. d \in Procs
      BY DEF Procs
    <2>2. ForeignKeyRefuses(d) => TxnInv'
      BY <2>1, RollbackTxn DEF ForeignKeyRefuses, shared
    <2>3. QED
      BY <1>6, <2>1, <2>2, TargetTxn, DeletionTxn, ReopenTxn, StatementTxn DEF DeleteStep
  <1>7. ASSUME NEW p \in Pruners, BeginPrune(p) \/ PruneStep(p) PROVE TxnInv'
    <2>1. p \in Procs
      BY DEF Procs
    <2>2. ForeignKeyRefuses(p) => TxnInv'
      BY <2>1, RollbackTxn DEF ForeignKeyRefuses, shared
    <2>3. QED
      BY <1>7, <2>1, <2>2, TargetTxn, DeletionTxn, StatementTxn DEF PruneStep
  <1>8. ASSUME NEW p \in Procs, Lost(p) PROVE TxnInv'
    BY <1>8, RollbackTxn DEF Lost, shared
  <1>9. QED
    BY <1>1, <1>3, <1>4, <1>5, <1>6, <1>7, <1>8 DEF Next

\* What every transaction holds before its commit stays what the statements of its
\* kind make it, whatever commits in between: rows it locked keep their status, the
\* SBOMs it found keep their uploaded_at.
THEOREM TxnInvHolds == Spec => []TxnInv
  BY InitTyped, NextTyped, LinkInit, LinkStep, TxnInit, TxnStep, PTL DEF Spec

-----------------------------------------------------------------------------
(* Which commits close a finding.                                           *)

\* The committed links change with a commit only.
LEMMA LinksChangeAtCommit ==
  ASSUME [Next]_vars, ~ \E p \in Procs : Commit(p)
  PROVE  link' = link
  <1>1. ASSUME NEW p \in Procs, Statement(p) PROVE link' = link
    BY <1>1 DEF Statement, FindOlder, ReadCurrent, CloseOlder, DeadlockVictim, shared
  <1>2. ASSUME NEW s \in Sboms,
               BeginUpload(s) \/ Upload(s) \/ UploadUnpublished(s) \/ UploadAgain(s)
               \/ FeedUpdate(s)
        PROVE  link' = link
    BY <1>2 DEF BeginUpload, Upload, UploadUnpublished, CommitUpload, UploadAgain,
                FeedUpdate, shared
  <1>3. CASE Rescan \/ RescanCut \/ UNCHANGED vars
    BY <1>3 DEF Rescan, RescanCut, vars, shared
  <1>4. ASSUME NEW w \in Workers, (\E s \in Sboms : ScanMissing(w, s) \/ StartScan(w, s))
                                  \/ ScanStep(w) \/ GrypeFails(w) \/ Redelivered(w)
        PROVE  link' = link
    BY <1>1, <1>4 DEF ScanMissing, StartScan, Receive, ScanStep, RunGrype, LinkMatches,
                      RetireStale, GrypeFails, Redelivered, shared, Procs
  <1>5. ASSUME NEW d \in Deleters \cup Pruners,
               (\E s \in Sboms : BeginDelete(d, s)) \/ DeleteStep(d)
               \/ BeginPrune(d) \/ PruneStep(d)
        PROVE  link' = link
    BY <1>1, <1>5 DEF BeginDelete, DeleteStep, DeleteChildren, DeleteParents,
                      ForeignKeyRefuses, ReopenSiblings, BeginPrune, PruneStep, Retarget,
                      shared, Procs
  <1>6. ASSUME NEW p \in Procs, Lost(p) PROVE link' = link
    BY <1>6 DEF Lost, shared
  <1>7. QED
    BY <1>2, <1>3, <1>4, <1>5, <1>6 DEF Next

\* A commit of p that closes r: p scanned the SBOM of r, or took it for older.
LEMMA CommitCloses ==
  ASSUME TypeOK, LinkInv, TxnInv, NEW p \in Procs, Commit(p),
         NEW r \in Rows, link[r] = "open", link'[r] = "fixed"
  PROVE  /\ p \in Workers \cup Deleters /\ Committing(p)
         /\ \/ p \in Workers /\ r[1] = sbom[p]
            \/ r[1] \in older[p]
  <1>1. writes[p][r] = "fixed"
    BY DEF Commit, Seen
  <1>2. Committing(p)
    BY DEF Commit, At, Reset, Committing, TypeOK, world
  <1>3. Txn(p)
    BY DEF TxnInv
  <1>4. QED
    BY <1>1, <1>2, <1>3 DEF Txn, ScanOf, ScanMade, DeleteOf, DeleteMade, PruneOf, Procs

\* An open finding is only closed by a committed scan of its own SBOM, or by a
\* scan or delete that reconciled its scope against a strictly later upload.
THEOREM OnlyCommitsOfNewerClose == Spec => OnlyOwnScanOrNewerCloses
  <1> DEFINE Closes(r) == \E p \in Workers \cup Deleters :
                /\ Committing(p)
                /\ \/ p \in Workers /\ r[1] = sbom[p]
                   \/ /\ sbom[p] # NoSbom
                      /\ Scope[sbom[p]] = Scope[r[1]]
                      /\ stamp[r[1]] < stamp[sbom[p]]
             Act == \A r \in Rows : link[r] = "open" /\ link'[r] = "fixed" => Closes(r)
  <1>1. ASSUME TypeOK, LinkInv, TxnInv, [Next]_vars PROVE Act
    <2> SUFFICES ASSUME NEW r \in Rows, link[r] = "open", link'[r] = "fixed" PROVE Closes(r)
      OBVIOUS
    <2>1. PICK p \in Procs : Commit(p)
      BY <1>1, LinksChangeAtCommit
    <2>2. /\ p \in Workers \cup Deleters /\ Committing(p)
          /\ \/ p \in Workers /\ r[1] = sbom[p]
             \/ r[1] \in older[p]
      BY <1>1, <2>1, CommitCloses
    <2>3. r[1] \in older[p] => /\ sbom[p] # NoSbom
                               /\ Scope[sbom[p]] = Scope[r[1]] /\ stamp[r[1]] < stamp[sbom[p]]
      BY <1>1, DataAssumption DEF TxnInv, Txn, Found, Known
    <2>4. QED
      BY <2>2, <2>3
  <1>2. QED
    BY <1>1, InitTyped, NextTyped, LinkInit, LinkStep, TxnInit, TxnStep, PTL
       DEF Spec, OnlyOwnScanOrNewerCloses

-----------------------------------------------------------------------------
(* The committed database implements FindingLedger.                          *)

Arrival == [s \in Sboms |-> IF life[s] \in {"stored", "deleted"} THEN stamp[s] ELSE 0]

LEMMA LedgerInitially == Init => Ledger!LedgerInit
  BY DEF Init, Ledger!LedgerInit, Ledger!Keys, Rows, Stored

LEMMA ArrivalOfKnown ==
  ASSUME TypeOK, TxnInv, NEW s \in Known
  PROVE  Arrival[s] = stamp[s] /\ Arrival[s] \in Nat /\ Arrival[s] > 0
  BY DEF TypeOK, TxnInv, Stamped, Known, Arrival

LEMMA LedgerUnchanged ==
  ASSUME TypeOK, UNCHANGED <<life, link>>, \A s \in Known : stamp'[s] = stamp[s]
  PROVE  UNCHANGED <<Stored, Arrival, link>>
  BY DEF TypeOK, Stored, Known, Arrival

LEMMA StoreStep ==
  ASSUME TypeOK, TxnInv, NEW s \in Sboms, CommitUpload(s)
  PROVE  Ledger!Store(s)
  <1>1. life[s] = "uploading" /\ life' = [life EXCEPT ![s] = "stored"] /\ UNCHANGED <<stamp, link>>
    BY DEF CommitUpload
  <1>2. stamp[s] \in Nat /\ stamp[s] > 0
    BY <1>1 DEF TypeOK, TxnInv, Stamped
  <1>3. Arrival[s] = 0 /\ Arrival'[s] = stamp[s] /\ Arrival' \in [Sboms -> Nat]
    BY <1>1 DEF TypeOK, Arrival
  <1>4. Arrival' = [Arrival EXCEPT ![s] = Arrival'[s]]
    BY <1>1 DEF TypeOK, Arrival
  <1>5. Stored' = Stored \cup {s}
    BY <1>1 DEF TypeOK, Stored
  <1>6. QED
    BY <1>1, <1>2, <1>3, <1>4, <1>5 DEF Ledger!Store, Arrival

LEMMA LedgerAtCommit ==
  ASSUME TypeOK, LinkInv, TxnInv, NEW p \in Procs, Commit(p)
  PROVE  /\ \A r \in Rows : link'[r] = Seen(p, r)
         /\ link' \in [Rows -> {"absent", "open", "fixed"}]
         /\ Stored' = Stored \ doomed[p]
         /\ UNCHANGED Arrival
         /\ \A r \in Rows : r[1] \in doomed[p] => link'[r] = "absent"
  <1>1. Dropped(p) = doomed[p] /\ doomed[p] \subseteq Known
    BY DEF Commit, At, Dropped, TxnInv, Txn, Found
  <1>2. /\ \A r \in Rows : link'[r] = Seen(p, r)
        /\ link' \in [Rows -> {"absent", "open", "fixed"}]
    BY SeenTyped DEF Commit, Status
  <1>3. Stored' = Stored \ doomed[p]
    BY <1>1 DEF Commit, Stored
  <1>4. UNCHANGED Arrival
    BY <1>1 DEF Commit, Arrival, Known
  <1>5. \A r \in Rows : r[1] \in doomed[p] => Seen(p, r) = "absent"
    BY <1>1 DEF LinkInv, DroppedAreBare
  <1>6. QED
    BY <1>2, <1>3, <1>4, <1>5

LEMMA ScanCommitStep ==
  ASSUME TypeOK, LinkInv, TxnInv, NEW w \in Workers, Commit(w)
  PROVE  Ledger!ScanCommitted(sbom[w]) /\ sbom[w] \in Sboms
  <1>1. w \in Procs /\ doomed[w] = {} /\ Found(w) /\ ScanOf(w) /\ pc[w] = "commit"
    BY DEF Procs, LinkInv, ScansDeleteNothing, TxnInv, Txn, Commit, At
  <1>2. sbom[w] \in Known /\ sbom[w] \in Sboms
    BY <1>1 DEF ScanOf, Known
  <1>3. ASSUME NEW r \in Rows PROVE Ledger!ScanMay(sbom[w], r)
    <2>1. link'[r] = Seen(w, r)
      BY <1>1, LedgerAtCommit
    <2>2. CASE writes[w][r] = "keep"
      BY <2>1, <2>2 DEF Seen, Ledger!ScanMay
    <2>3. CASE writes[w][r] = "open"
      BY <1>1, <2>1, <2>3 DEF Seen, ScanOf, ScanMade, LinkInv, InsertsHaveSbom, Ledger!ScanMay
    <2>4. CASE writes[w][r] = "fixed"
      <3>1. link'[r] = "fixed" /\ link[r] = "open" /\ r[1] \in Stored
        BY <1>1, <2>1, <2>4 DEF Seen, ScanOf, ScanMade, LinkInv, InsertsHaveSbom
      <3>2. CASE r[1] = sbom[w]
        BY <3>1, <3>2 DEF Ledger!ScanMay
      <3>3. CASE r[1] \in older[w]
        <4>1. /\ r[1] \in Known /\ Scope[r[1]] = Scope[sbom[w]]
              /\ stamp[r[1]] < stamp[sbom[w]]
          BY <1>1, <3>3 DEF Found
        <4>2. Arrival[r[1]] < Arrival[sbom[w]]
          BY <1>2, <4>1, ArrivalOfKnown
        <4>3. QED
          BY <3>1, <4>1, <4>2 DEF Ledger!ScanMay, Arrival
      <3>4. QED
        BY <1>1, <2>4, <3>2, <3>3 DEF ScanOf, ScanMade
    <2>5. QED
      BY <1>1, <2>2, <2>3, <2>4 DEF TypeOK, Status, ScanOf, ScanMade
  <1>4. Arrival[sbom[w]] > 0
    BY <1>2, ArrivalOfKnown
  <1>5. /\ link' \in [Rows -> {"absent", "open", "fixed"}]
        /\ Stored' = Stored /\ UNCHANGED Arrival
    BY <1>1, LedgerAtCommit
  <1>6. QED
    BY <1>2, <1>3, <1>4, <1>5 DEF Ledger!ScanCommitted, Ledger!Keys, Rows, Arrival

LEMMA DeleteCommitStep ==
  ASSUME TypeOK, LinkInv, TxnInv, NEW d \in Deleters, Commit(d)
  PROVE  \E s \in Sboms : Ledger!Deleted(s)
  <1>1. d \in Procs /\ Found(d) /\ DeleteOf(d) /\ pc[d] = "commit"
    BY DEF Procs, TxnInv, Txn, Commit, At
  <1>2. PICK s \in Sboms : doomed[d] = {s}
    BY <1>1 DEF DeleteOf
  <1>3. ASSUME NEW r \in Rows PROVE Ledger!DeleteMay(s, r)
    <2>1. link'[r] = Seen(d, r)
      BY <1>1, LedgerAtCommit
    <2>2. CASE r[1] = s
      BY <1>1, <1>2, <2>2, LedgerAtCommit DEF Ledger!DeleteMay
    <2>3. CASE r[1] # s
      <3>1. writes[d][r] # "absent"
        BY <1>1, <1>2, <2>3 DEF DeleteOf, DeleteMade
      <3>2. CASE writes[d][r] = "keep"
        BY <2>1, <2>3, <3>2 DEF Seen, Ledger!DeleteMay
      <3>3. CASE writes[d][r] \in {"open", "fixed"}
        <4>1. r[1] \in Stored /\ link[r] # "absent" /\ Scope[r[1]] = Scope[s]
          BY <1>1, <1>2, <3>3 DEF DeleteOf, DeleteMade, LinkInv, InsertsHaveSbom
        <4>2. link'[r] # "absent"
          BY <2>1, <3>3 DEF Seen
        <4>3. QED
          BY <2>3, <4>1, <4>2 DEF Ledger!DeleteMay
      <3>4. QED
        BY <1>1, <3>1, <3>2, <3>3 DEF TypeOK, Status
    <2>4. QED
      BY <2>2, <2>3
  <1>4. Arrival[s] > 0
    BY <1>1, <1>2, ArrivalOfKnown DEF Found
  <1>5. /\ link' \in [Rows -> {"absent", "open", "fixed"}]
        /\ Stored' = Stored \ {s} /\ UNCHANGED Arrival
    BY <1>1, <1>2, LedgerAtCommit
  <1>6. Ledger!Deleted(s)
    BY <1>3, <1>4, <1>5 DEF Ledger!Deleted, Ledger!Keys, Rows, Arrival
  <1>7. QED
    BY <1>6

LEMMA PruneCommitStep ==
  ASSUME TypeOK, LinkInv, TxnInv, NEW p \in Pruners, Commit(p)
  PROVE  \E S \in SUBSET Expired : Ledger!Pruned(S)
  <1>1. p \in Procs /\ PruneOf(p)
    BY DEF Procs, TxnInv, Txn
  <1>2. ASSUME NEW r \in Rows
        PROVE  \/ link'[r] = link[r] /\ r[1] \notin doomed[p]
               \/ link'[r] = "absent" /\ r[1] \in Expired
    <2>1. link'[r] = Seen(p, r) /\ (r[1] \in doomed[p] => link'[r] = "absent")
      BY <1>1, LedgerAtCommit
    <2>2. QED
      BY <1>1, <2>1 DEF Seen, PruneOf
  <1>3. /\ link' \in [Rows -> {"absent", "open", "fixed"}]
        /\ Stored' = Stored \ doomed[p] /\ UNCHANGED Arrival
    BY <1>1, LedgerAtCommit
  <1>4. Ledger!Pruned(doomed[p])
    BY <1>1, <1>2, <1>3 DEF PruneOf, Ledger!Pruned, Ledger!Keys, Rows, Arrival
  <1>5. QED
    BY <1>1, <1>4 DEF PruneOf

\* The SBOM rows change with an upload or a commit only.
LEMMA SbomsChangeAtCommit ==
  ASSUME [Next]_vars, ~ \E p \in Procs : Commit(p),
         ~ \E s \in Sboms : BeginUpload(s) \/ CommitUpload(s)
  PROVE  UNCHANGED <<life, stamp>>
  <1>1. ASSUME NEW p \in Procs, Statement(p) PROVE UNCHANGED <<life, stamp>>
    BY <1>1 DEF Statement, FindOlder, ReadCurrent, CloseOlder, DeadlockVictim, shared
  <1>2. ASSUME NEW s \in Sboms,
               Upload(s) \/ UploadUnpublished(s) \/ UploadAgain(s) \/ FeedUpdate(s)
        PROVE  UNCHANGED <<life, stamp>>
    BY <1>2 DEF Upload, UploadUnpublished, UploadAgain, FeedUpdate, shared
  <1>3. CASE Rescan \/ RescanCut \/ UNCHANGED vars
    BY <1>3 DEF Rescan, RescanCut, vars, shared
  <1>4. ASSUME NEW w \in Workers, (\E s \in Sboms : ScanMissing(w, s) \/ StartScan(w, s))
                                  \/ ScanStep(w) \/ GrypeFails(w) \/ Redelivered(w)
        PROVE  UNCHANGED <<life, stamp>>
    BY <1>1, <1>4 DEF ScanMissing, StartScan, Receive, ScanStep, RunGrype, LinkMatches,
                      RetireStale, GrypeFails, Redelivered, shared, Procs
  <1>5. ASSUME NEW d \in Deleters \cup Pruners,
               (\E s \in Sboms : BeginDelete(d, s)) \/ DeleteStep(d)
               \/ BeginPrune(d) \/ PruneStep(d)
        PROVE  UNCHANGED <<life, stamp>>
    BY <1>1, <1>5 DEF BeginDelete, DeleteStep, DeleteChildren, DeleteParents,
                      ForeignKeyRefuses, ReopenSiblings, BeginPrune, PruneStep, Retarget,
                      shared, Procs
  <1>6. ASSUME NEW p \in Procs, Lost(p) PROVE UNCHANGED <<life, stamp>>
    BY <1>6 DEF Lost, shared
  <1>7. QED
    BY <1>2, <1>3, <1>4, <1>5, <1>6 DEF Next

\* The steps that commit neither an SBOM nor a transaction change nothing the
\* ledger knows.
LEMMA OtherStep ==
  ASSUME TypeOK, TxnInv, [Next]_vars,
         ~ \E p \in Procs : Commit(p), ~ \E s \in Sboms : CommitUpload(s)
  PROVE  UNCHANGED <<Stored, Arrival, link>>
  <1>1. CASE \E s \in Sboms : BeginUpload(s)
    BY <1>1 DEF BeginUpload, TypeOK, Stored, Arrival
  <1>2. CASE ~ \E s \in Sboms : BeginUpload(s)
    BY <1>2, SbomsChangeAtCommit, LinksChangeAtCommit, LedgerUnchanged
  <1>3. QED
    BY <1>1, <1>2

LEMMA LedgerStep ==
  TypeOK /\ LinkInv /\ TxnInv /\ [Next]_vars => [Ledger!LedgerNext]_(Ledger!ledgerVars)
  <1> SUFFICES ASSUME TypeOK, LinkInv, TxnInv, [Next]_vars
               PROVE  [Ledger!LedgerNext]_(Ledger!ledgerVars)
    OBVIOUS
  <1>1. ASSUME NEW p \in Procs, Commit(p) PROVE Ledger!LedgerNext
    BY <1>1, ScanCommitStep, DeleteCommitStep, PruneCommitStep DEF Procs, Ledger!LedgerNext
  <1>2. ASSUME NEW s \in Sboms, CommitUpload(s) PROVE Ledger!LedgerNext
    BY <1>2, StoreStep DEF Ledger!LedgerNext
  <1>3. CASE ~ (\E p \in Procs : Commit(p)) /\ ~ (\E s \in Sboms : CommitUpload(s))
    BY <1>3, OtherStep DEF Ledger!ledgerVars, Arrival
  <1>4. QED
    BY <1>1, <1>2, <1>3

\* The committed database behaves like a FindingLedger: every committed scan, delete
\* and prune changes findings the way its kind may, everything else is a stutter.
THEOREM Refinement == Spec => ImplementsLedger
  BY InitTyped, NextTyped, LinkInit, LinkStep, TxnInit, TxnStep, LedgerInitially, LedgerStep,
     PTL DEF Spec, ImplementsLedger, Ledger!LedgerSpec
=============================================================================
