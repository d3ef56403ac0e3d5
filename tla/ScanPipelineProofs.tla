--------------------------- MODULE ScanPipelineProofs ---------------------------
(***************************************************************************)
(* Theorems about ScanPipeline, for every set of SBOMs, findings, workers,  *)
(* deletes and prunes, and for every value of the bounds.                   *)
(***************************************************************************)
EXTENDS ScanPipeline, TLAPS

-----------------------------------------------------------------------------
(* Types.                                                                   *)

LEMMA WriteTyped ==
  ASSUME TypeOK, NEW p \in Procs, NEW R, NEW st \in Status, Write(p, R, st)
  PROVE  writes' \in [Procs -> [Rows -> Status \cup {"keep"}]]
  BY DEF TypeOK, Write

\* A process that reads its SBOM at the next statement has one.
ReadersHaveSbom == \A q \in Procs : pc[q] \in Reading => sbom[q] \in Sboms

LEMMA MoveTyped ==
  ASSUME TypeOK, NEW p \in Procs, NEW step \in Steps, GoTo(p, step), UNCHANGED sbom,
         step \in Reading => sbom[p] \in Sboms
  PROVE  pc' \in [Procs -> Steps] /\ ReadersHaveSbom'
  BY DEF TypeOK, GoTo, ReadersHaveSbom

LEMMA ResetTyped ==
  ASSUME TypeOK, NEW p \in Procs, Reset(p)
  PROVE  /\ pc' \in [Procs -> Steps]
         /\ sbom' \in [Procs -> Sboms \cup {NoSbom}]
         /\ report' \in [Procs -> SUBSET Findings]
         /\ older' \in [Procs -> SUBSET Sboms]
         /\ keep' \in [Procs -> SUBSET {Cve[f] : f \in Findings}]
         /\ doomed' \in [Procs -> SUBSET Sboms]
         /\ writes' \in [Procs -> [Rows -> Status \cup {"keep"}]]
         /\ ReadersHaveSbom'
  <1>1. pc' \in [Procs -> Steps] /\ ReadersHaveSbom'
    BY DEF TypeOK, Reset, Steps, Reading, ReadersHaveSbom
  <1>2. writes' \in [Procs -> [Rows -> Status \cup {"keep"}]]
    BY DEF TypeOK, Reset, NoWrite
  <1>3. QED
    BY <1>1, <1>2 DEF TypeOK, Reset

LEMMA EnqueueTyped ==
  ASSUME TypeOK, NEW S, Enqueue(S)
  PROVE  queue' \in [Sboms -> Nat]
  BY DEF TypeOK, Enqueue

LEMMA FaultTyped ==
  ASSUME TypeOK, Fault
  PROVE  /\ faults' \in 0..MaxFaults
         /\ feed' \in [Sboms -> SUBSET Findings]
         /\ feedChanges' \in 0..MaxFeedChanges
  BY BoundAssumption DEF TypeOK, Fault

LEMMA SeenTyped ==
  ASSUME TypeOK, NEW p \in Procs, NEW r \in Rows
  PROVE  Seen(p, r) \in Status
  BY DEF TypeOK, Seen, Status

LEMMA InitTyped == Init => TypeOK
  <1> SUFFICES ASSUME Init PROVE TypeOK
    OBVIOUS
  <1>1. writes \in [Procs -> [Rows -> Status \cup {"keep"}]]
    BY DEF Init, NoWrite
  <1>2. pc \in [Procs -> Steps] /\ \A p \in Procs : pc[p] \notin Reading
    BY DEF Init, Steps, Reading
  <1>3. link \in [Rows -> Status]
    BY DEF Init, Status
  <1>4. QED
    BY <1>1, <1>2, <1>3, BoundAssumption, DataAssumption DEF Init, TypeOK

LEMMA RescanTyped ==
  ASSUME TypeOK, Rescan \/ RescanCut
  PROVE  TypeOK'
  <1>1. CASE Rescan
    BY <1>1, EnqueueTyped DEF TypeOK, Rescan, world, local
  <1>2. CASE RescanCut
    BY <1>2, EnqueueTyped, FaultTyped DEF TypeOK, RescanCut, local
  <1>3. QED
    BY <1>1, <1>2

LEMMA UploadTyped ==
  ASSUME TypeOK, NEW s \in Sboms,
         BeginUpload(s) \/ Upload(s) \/ UploadUnpublished(s) \/ UploadAgain(s)
         \/ FeedUpdate(s)
  PROVE  TypeOK'
  <1>1. CASE BeginUpload(s)
    BY <1>1 DEF TypeOK, BeginUpload, world, local
  <1>2. CASE Upload(s)
    BY <1>2, EnqueueTyped DEF TypeOK, Upload, CommitUpload, world, local
  <1>3. CASE UploadUnpublished(s)
    BY <1>3, FaultTyped DEF TypeOK, UploadUnpublished, CommitUpload, local
  <1>4. CASE UploadAgain(s)
    BY <1>4, EnqueueTyped DEF TypeOK, UploadAgain, world, local
  <1>5. CASE FeedUpdate(s)
    <2>1. PICK F \in SUBSET Findings : feed' = [feed EXCEPT ![s] = F]
      BY <1>5 DEF FeedUpdate
    <2>2. feed' \in [Sboms -> SUBSET Findings]
      BY <2>1 DEF TypeOK
    <2>3. feedChanges' \in 0..MaxFeedChanges
      BY <1>5, BoundAssumption DEF TypeOK, FeedUpdate
    <2>4. QED
      BY <1>5, <2>2, <2>3 DEF TypeOK, FeedUpdate, shared, local
  <1>6. QED
    BY <1>1, <1>2, <1>3, <1>4, <1>5

LEMMA StatementTyped ==
  ASSUME TypeOK, NEW p \in Procs, Statement(p)
  PROVE  TypeOK'
  <1>1. CASE FindOlder(p)
    <2>1. OlderSboms(p) \in SUBSET Sboms
      BY DEF OlderSboms, InScope, SeenSboms, Stored
    <2>2. pc' \in [Procs -> Steps] /\ ReadersHaveSbom'
      BY <1>1, MoveTyped DEF TypeOK, FindOlder, At, Steps, Reading
    <2>3. older' \in [Procs -> SUBSET Sboms]
      BY <1>1, <2>1 DEF TypeOK, FindOlder
    <2>4. QED
      BY <1>1, <2>2, <2>3 DEF TypeOK, FindOlder, shared, world, ReadersHaveSbom
  <1>2. CASE ReadCurrent(p)
    <2> DEFINE K == {Cve[r[2]] : r \in WithStatus(p, RowsOf({sbom[p]}), "open")}
    <2>1. K \in SUBSET {Cve[f] : f \in Findings}
      BY DEF WithStatus, RowsOf
    <2>2. pc' \in [Procs -> Steps] /\ ReadersHaveSbom'
      BY <1>2, MoveTyped DEF TypeOK, ReadCurrent, At, Steps, Reading
    <2>3. keep' \in [Procs -> SUBSET {Cve[f] : f \in Findings}]
      BY <1>2, <2>1 DEF TypeOK, ReadCurrent
    <2>4. QED
      BY <1>2, <2>2, <2>3 DEF TypeOK, ReadCurrent, shared, world, ReadersHaveSbom
  <1>3. CASE CloseOlder(p)
    <2>1. writes' \in [Procs -> [Rows -> Status \cup {"keep"}]]
      BY <1>3, WriteTyped DEF CloseOlder, Status
    <2>2. pc' \in [Procs -> Steps] /\ ReadersHaveSbom'
      BY <1>3, MoveTyped DEF TypeOK, CloseOlder, At, Steps, Reading
    <2>3. QED
      BY <1>3, <2>1, <2>2 DEF TypeOK, CloseOlder, shared, world, ReadersHaveSbom
  <1>4. CASE Commit(p)
    <2>1. link' \in [Rows -> Status]
      BY <1>4, SeenTyped DEF Commit
    <2>2. life' \in [Sboms -> {"new", "uploading", "stored", "deleted"}]
      BY <1>4 DEF Commit, TypeOK
    <2>3. QED
      BY <1>4, <2>1, <2>2, ResetTyped DEF TypeOK, Commit, world, ReadersHaveSbom
  <1>5. CASE DeadlockVictim(p)
    BY <1>5, ResetTyped DEF TypeOK, DeadlockVictim, shared, world, ReadersHaveSbom
  <1>6. QED
    BY <1>1, <1>2, <1>3, <1>4, <1>5 DEF Statement

LEMMA ReceiveTyped ==
  ASSUME TypeOK, NEW w \in Workers, NEW s \in Sboms, ScanMissing(w, s) \/ StartScan(w, s)
  PROVE  TypeOK'
  <1>0. w \in Procs
    BY DEF Procs
  <1>1. CASE ScanMissing(w, s)
    BY <1>1 DEF TypeOK, ScanMissing, Receive, world
  <1>2. CASE StartScan(w, s)
    <2>1. pc' \in [Procs -> Steps] /\ ReadersHaveSbom'
      BY <1>0, <1>2 DEF TypeOK, StartScan, GoTo, Steps, Reading, ReadersHaveSbom
    <2>2. queue' \in [Sboms -> Nat]
      BY <1>2 DEF TypeOK, StartScan, Receive
    <2>3. sbom' \in [Procs -> Sboms \cup {NoSbom}]
      BY <1>2 DEF TypeOK, StartScan
    <2>4. QED
      BY <1>2, <2>1, <2>2, <2>3 DEF TypeOK, StartScan, Receive, world, ReadersHaveSbom
  <1>3. QED
    BY <1>1, <1>2

LEMMA ScanTyped ==
  ASSUME TypeOK, NEW w \in Workers,
         RunGrype(w) \/ LinkMatches(w) \/ RetireStale(w) \/ GrypeFails(w)
         \/ Redelivered(w)
  PROVE  TypeOK'
  <1>0. w \in Procs
    BY DEF Procs
  <1>1. CASE RunGrype(w)
    <2>1. pc' \in [Procs -> Steps] /\ ReadersHaveSbom'
      BY <1>0, <1>1, MoveTyped DEF TypeOK, RunGrype, At, Steps, Reading
    <2>2. feed[sbom[w]] \in SUBSET Findings
      BY <1>0, <1>1 DEF TypeOK, RunGrype, At, Reading
    <2>3. QED
      BY <1>1, <2>1, <2>2 DEF TypeOK, RunGrype, shared, world, ReadersHaveSbom
  <1>2. CASE LinkMatches(w)
    <2>1. pc' \in [Procs -> Steps] /\ ReadersHaveSbom'
      BY <1>0, <1>2, MoveTyped DEF TypeOK, LinkMatches, At, Steps, Reading
    <2>2. writes' \in [Procs -> [Rows -> Status \cup {"keep"}]]
      BY <1>0, <1>2, WriteTyped DEF TypeOK, LinkMatches, Status
    <2>3. QED
      BY <1>2, <2>1, <2>2 DEF TypeOK, LinkMatches, shared, world, ReadersHaveSbom
  <1>3. CASE RetireStale(w)
    <2>1. pc' \in [Procs -> Steps] /\ ReadersHaveSbom'
      BY <1>0, <1>3, MoveTyped DEF TypeOK, RetireStale, At, Steps, Reading
    <2>2. writes' \in [Procs -> [Rows -> Status \cup {"keep"}]]
      BY <1>0, <1>3, WriteTyped DEF RetireStale, Status
    <2>3. QED
      BY <1>3, <2>1, <2>2 DEF TypeOK, RetireStale, shared, world, ReadersHaveSbom
  <1>4. CASE GrypeFails(w)
    BY <1>0, <1>4, ResetTyped, FaultTyped DEF TypeOK, GrypeFails, shared, ReadersHaveSbom
  <1>5. CASE Redelivered(w)
    BY <1>0, <1>5, ResetTyped, FaultTyped, EnqueueTyped DEF TypeOK, Redelivered, ReadersHaveSbom
  <1>6. QED
    BY <1>1, <1>2, <1>3, <1>4, <1>5

LEMMA BeginDeleteTyped ==
  ASSUME TypeOK, NEW p \in Deleters, NEW s \in Sboms, BeginDelete(p, s)
  PROVE  TypeOK'
  <1>0. p \in Procs
    BY DEF Procs
  <1> DEFINE rest == Newest(InScope(Stored \ {s}, s))
  <1>1. rest \subseteq Sboms
    BY DEF Newest, InScope, Stored
  <1>2. (IF rest = {} THEN NoSbom ELSE CHOOSE t \in rest : TRUE) \in Sboms \cup {NoSbom}
    BY <1>1
  <1>3. sbom' \in [Procs -> Sboms \cup {NoSbom}]
    BY <1>2 DEF TypeOK, BeginDelete
  <1>4. pc' \in [Procs -> Steps] /\ ReadersHaveSbom'
    BY <1>0, <1>1 DEF TypeOK, BeginDelete, GoTo, Steps, Reading, ReadersHaveSbom
  <1>5. doomed' \in [Procs -> SUBSET Sboms]
    BY <1>1 DEF TypeOK, BeginDelete
  <1>6. QED
    BY <1>3, <1>4, <1>5 DEF TypeOK, BeginDelete, shared, world, ReadersHaveSbom

LEMMA DeletionTyped ==
  ASSUME TypeOK, NEW p \in Deleters \cup Pruners,
         BeginPrune(p) \/ DeleteChildren(p) \/ Retarget(p)
         \/ DeleteParents(p) \/ ForeignKeyRefuses(p) \/ ReopenSiblings(p)
  PROVE  TypeOK'
  <1>0. p \in Procs /\ PruneTargets \in SUBSET Sboms
    BY DEF Procs, PruneTargets, Stored
  <1>1. CASE BeginPrune(p)
    <2>1. pc' \in [Procs -> Steps] /\ ReadersHaveSbom'
      BY <1>0, <1>1, MoveTyped DEF BeginPrune, Steps, Reading
    <2>2. QED
      BY <1>0, <1>1, <2>1 DEF TypeOK, BeginPrune, shared, world, ReadersHaveSbom
  <1>2. CASE DeleteChildren(p)
    <2>1. pc' \in [Procs -> Steps] /\ ReadersHaveSbom'
      BY <1>0, <1>2, MoveTyped DEF DeleteChildren, Steps, Reading
    <2>2. writes' \in [Procs -> [Rows -> Status \cup {"keep"}]]
      BY <1>0, <1>2, WriteTyped DEF DeleteChildren, Status
    <2>3. QED
      BY <1>2, <2>1, <2>2 DEF TypeOK, DeleteChildren, shared, world, ReadersHaveSbom
  <1>3. CASE Retarget(p)
    <2>1. pc' \in [Procs -> Steps] /\ ReadersHaveSbom'
      BY <1>0, <1>3, MoveTyped DEF Retarget, Steps, Reading
    <2>2. QED
      BY <1>0, <1>3, <2>1 DEF TypeOK, Retarget, shared, world, ReadersHaveSbom
  <1>4. CASE DeleteParents(p)
    <2>1. pc' \in [Procs -> Steps] /\ ReadersHaveSbom'
      BY <1>0, <1>4, MoveTyped DEF DeleteParents, Steps, Reading
    <2>2. QED
      BY <1>4, <2>1 DEF TypeOK, DeleteParents, shared, world, ReadersHaveSbom
  <1>5. CASE ForeignKeyRefuses(p)
    BY <1>0, <1>5, ResetTyped DEF TypeOK, ForeignKeyRefuses, shared, world, ReadersHaveSbom
  <1>6. CASE ReopenSiblings(p)
    <2>1. sbom[p] # NoSbom => sbom[p] \in Sboms
      BY <1>0 DEF TypeOK
    <2>2. pc' \in [Procs -> Steps] /\ ReadersHaveSbom'
      BY <1>0, <1>6, <2>1, MoveTyped DEF ReopenSiblings, Steps, Reading
    <2>3. writes' \in [Procs -> [Rows -> Status \cup {"keep"}]]
      BY <1>0, <1>6, WriteTyped DEF ReopenSiblings, Status
    <2>4. QED
      BY <1>6, <2>2, <2>3 DEF TypeOK, ReopenSiblings, shared, world, ReadersHaveSbom
  <1>7. QED
    BY <1>1, <1>2, <1>3, <1>4, <1>5, <1>6

LEMMA LostTyped ==
  ASSUME TypeOK, NEW p \in Procs, Lost(p)
  PROVE  TypeOK'
  BY ResetTyped, FaultTyped DEF TypeOK, Lost, shared, ReadersHaveSbom

LEMMA NextTyped == TypeOK /\ [Next]_vars => TypeOK'
  <1> SUFFICES ASSUME TypeOK, [Next]_vars PROVE TypeOK'
    OBVIOUS
  <1>1. ASSUME NEW s \in Sboms,
               BeginUpload(s) \/ Upload(s) \/ UploadUnpublished(s) \/ UploadAgain(s)
               \/ FeedUpdate(s)
        PROVE  TypeOK'
    BY <1>1, UploadTyped
  <1>2. CASE Rescan
    BY <1>2, RescanTyped
  <1>3. CASE RescanCut
    BY <1>3, RescanTyped
  <1>4. ASSUME NEW w \in Workers, NEW s \in Sboms, ScanMissing(w, s) \/ StartScan(w, s)
        PROVE  TypeOK'
    BY <1>4, ReceiveTyped
  <1>5. ASSUME NEW w \in Workers, ScanStep(w) \/ GrypeFails(w) \/ Redelivered(w)
        PROVE  TypeOK'
    <2>1. w \in Procs
      BY DEF Procs
    <2>2. QED
      BY <1>5, <2>1, StatementTyped, ScanTyped DEF ScanStep
  <1>6. ASSUME NEW d \in Deleters, (\E s \in Sboms : BeginDelete(d, s)) \/ DeleteStep(d)
        PROVE  TypeOK'
    <2>1. d \in Procs
      BY DEF Procs
    <2>2. QED
      BY <1>6, <2>1, StatementTyped, DeletionTyped, BeginDeleteTyped DEF DeleteStep
  <1>7. ASSUME NEW p \in Pruners, BeginPrune(p) \/ PruneStep(p)
        PROVE  TypeOK'
    <2>1. p \in Procs
      BY DEF Procs
    <2>2. QED
      BY <1>7, <2>1, StatementTyped, DeletionTyped DEF PruneStep
  <1>8. ASSUME NEW p \in Procs, Lost(p) PROVE TypeOK'
    BY <1>8, LostTyped
  <1>9. CASE UNCHANGED vars
    BY <1>9 DEF TypeOK, vars, shared, world, local
  <1>10. QED
    BY <1>1, <1>2, <1>3, <1>4, <1>5, <1>6, <1>7, <1>8, <1>9 DEF Next

\* Every reachable state is well typed; in particular a process about to read
\* the SBOM it scans or reconciles against has one.
THEOREM TypeCorrect == Spec => []TypeOK
  BY InitTyped, NextTyped, PTL DEF Spec

-----------------------------------------------------------------------------
(* Links and SBOMs: LinkInv is inductive.                                   *)

LEMMA LinkInit == Init => LinkInv
  <1> SUFFICES ASSUME Init PROVE LinkInv
    OBVIOUS
  <1>1. /\ \A r \in Rows : link[r] = "absent"
        /\ \A p \in Procs : writes[p] = NoWrite /\ doomed[p] = {} /\ Dropped(p) = {}
        /\ \A p \in Procs : \A r \in Rows : writes[p][r] = "keep"
    BY DEF Init, NoWrite, Dropped
  <1>2. QED
    BY <1>1 DEF LinkInv, LinkIntegrity, LocksExclusive, InsertsHaveSbom, DroppedAreBare,
                DeletesAreOfCommitted, ScansDeleteNothing, Procs

\* A step that neither writes nor commits, and starts no deletion of an SBOM.
LEMMA QuietStep ==
  ASSUME TypeOK, LinkInv, UNCHANGED <<link, writes>>, Stored \subseteq Stored',
         \A p \in Procs : /\ Dropped(p)' \subseteq Dropped(p)
                          /\ pc'[p] \in Unwritten => pc[p] \in Unwritten,
         \A w \in Workers : doomed'[w] = {}
  PROVE  LinkInv'
  BY DEF LinkInv, LinkIntegrity, LocksExclusive, InsertsHaveSbom, DroppedAreBare,
         DeletesAreOfCommitted, ScansDeleteNothing, Seen, NoWrite, Rows

\* The transaction of p is rolled back.
LEMMA RollbackStep ==
  ASSUME TypeOK, LinkInv, NEW p \in Procs, Reset(p), UNCHANGED <<link, life>>
  PROVE  LinkInv'
  <1>1. \A q \in Procs \ {p} :
          /\ writes'[q] = writes[q] /\ pc'[q] = pc[q] /\ doomed'[q] = doomed[q]
          /\ Dropped(q)' = Dropped(q)
          /\ \A r \in Rows : Seen(q, r)' = Seen(q, r)
    BY DEF TypeOK, Reset, Dropped, Seen
  <1>2. writes'[p] = NoWrite /\ Dropped(p)' = {} /\ doomed'[p] = {} /\ Stored' = Stored
    BY DEF TypeOK, Reset, Dropped, Stored
  <1>3. LinkIntegrity'
    BY <1>2 DEF LinkInv, LinkIntegrity, Rows
  <1>4. LocksExclusive'
    BY <1>1, <1>2 DEF LinkInv, LocksExclusive, NoWrite, Rows
  <1>5. InsertsHaveSbom'
    BY <1>1, <1>2 DEF LinkInv, InsertsHaveSbom, NoWrite, Rows
  <1>6. DroppedAreBare'
    BY <1>1, <1>2 DEF LinkInv, DroppedAreBare, NoWrite, Rows
  <1>7. DeletesAreOfCommitted'
    BY <1>1, <1>2 DEF LinkInv, DeletesAreOfCommitted, NoWrite, Rows
  <1>8. ScansDeleteNothing'
    BY <1>1, <1>2 DEF LinkInv, ScansDeleteNothing, Procs
  <1>9. QED
    BY <1>3, <1>4, <1>5, <1>6, <1>7, <1>8 DEF LinkInv

\* A statement of p writes the rows R, which nobody else has locked and whose
\* SBOMs nobody is deleting.
LEMMA WriteStep ==
  ASSUME TypeOK, LinkInv, NEW p \in Procs, NEW R \in SUBSET Rows, NEW st \in Status,
         Write(p, R, st), UNCHANGED <<link, life, doomed>>,
         \A q \in Procs : Dropped(q)' \subseteq Dropped(q),
         \A q \in Procs \ {p} : pc'[q] = pc[q], pc'[p] \notin Unwritten,
         \A r \in R : \A q \in Procs : /\ q # p => writes[q][r] = "keep"
                                       /\ r[1] \notin Dropped(q),
         st = "absent" => \A r \in R : link[r] # "absent",
         st # "absent" => \A r \in R : r[1] \in Stored
  PROVE  LinkInv'
  <1>1. \A q \in Procs : \A r \in Rows :
          writes'[q][r] = IF q = p /\ r \in R THEN st ELSE writes[q][r]
    BY DEF TypeOK, Write
  <1>2. st # "keep" /\ Stored' = Stored
    BY DEF Status, Stored
  <1>3. LinkIntegrity'
    BY <1>2 DEF LinkInv, LinkIntegrity, Rows
  <1>4. LocksExclusive'
    BY <1>1 DEF LinkInv, LocksExclusive, Rows
  <1>5. InsertsHaveSbom'
    BY <1>1, <1>2 DEF LinkInv, InsertsHaveSbom, Rows
  <1>6. DroppedAreBare'
    BY <1>1 DEF LinkInv, DroppedAreBare, Seen, Rows
  <1>7. DeletesAreOfCommitted'
    <2>1. \A q \in Procs : pc'[q] \in Unwritten => writes'[q] = NoWrite
      BY DEF TypeOK, Write, LinkInv, DeletesAreOfCommitted
    <2>2. \A q \in Procs : \A r \in Rows : writes'[q][r] = "absent" => link'[r] # "absent"
      BY <1>1 DEF LinkInv, DeletesAreOfCommitted
    <2>3. QED
      BY <2>1, <2>2 DEF DeletesAreOfCommitted, NoWrite, Rows
  <1>8. ScansDeleteNothing'
    BY DEF LinkInv, ScansDeleteNothing
  <1>9. QED
    BY <1>3, <1>4, <1>5, <1>6, <1>7, <1>8 DEF LinkInv

\* A row that p sees and that nobody else has locked is not being deleted.
LEMMA SeenNotDropped ==
  ASSUME TypeOK, LinkInv, NEW p \in Procs, NEW q \in Procs, NEW r \in Rows,
         Seen(p, r) # "absent",
         \A x \in Procs \ {p} : writes[x][r] = "keep"
  PROVE  r[1] \notin Dropped(q)
  BY DEF LinkInv, DroppedAreBare, Seen

LEMMA SeenStored ==
  ASSUME TypeOK, LinkInv, NEW p \in Procs, NEW r \in Rows, Seen(p, r) # "absent"
  PROVE  r[1] \in Stored
  BY DEF LinkInv, LinkIntegrity, InsertsHaveSbom, Seen, TypeOK, Status

\* The statement of p runs only when nobody else has locked a row it wants.
LEMMA WantedFree ==
  ASSUME NEW p \in Procs, Blockers(p) = {}, NEW r \in Wanted(p), NEW q \in Procs \ {p}
  PROVE  writes[q][r] = "keep"
  BY DEF Blockers

\* UPDATE and DELETE statements: the rows they want are rows p sees.
LEMMA UpdateStep ==
  ASSUME TypeOK, LinkInv, NEW p \in Procs, NEW R \in SUBSET Rows, NEW st \in Status,
         Write(p, R, st), UNCHANGED <<link, life, doomed>>,
         Blockers(p) = {}, Wanted(p) = R, \A r \in R : Seen(p, r) # "absent",
         Dropped(p)' \subseteq Dropped(p),
         \A q \in Procs \ {p} : pc'[q] = pc[q], pc'[p] \notin Unwritten,
         st = "absent" => pc[p] \in Unwritten
  PROVE  LinkInv'
  <1>1. \A r \in R : \A q \in Procs : q # p => writes[q][r] = "keep"
    BY WantedFree
  <1>2. \A r \in R : \A q \in Procs : r[1] \notin Dropped(q)
    BY <1>1, SeenNotDropped
  <1>3. \A r \in R : r[1] \in Stored
    BY SeenStored
  <1>4. \A q \in Procs : Dropped(q)' \subseteq Dropped(q)
    BY DEF Dropped
  <1>5. st = "absent" => \A r \in R : link[r] # "absent"
    BY DEF LinkInv, DeletesAreOfCommitted, Seen, NoWrite
  <1>6. QED
    BY <1>1, <1>2, <1>3, <1>4, <1>5, WriteStep

LEMMA CommitStep ==
  ASSUME TypeOK, LinkInv, NEW p \in Procs, Commit(p)
  PROVE  LinkInv'
  <1>1. /\ \A r \in Rows : link'[r] = Seen(p, r)
        /\ Stored' = Stored \ Dropped(p)
    BY DEF Commit, Stored
  <1>2. \A q \in Procs \ {p} :
          /\ writes'[q] = writes[q] /\ pc'[q] = pc[q] /\ doomed'[q] = doomed[q]
          /\ Dropped(q)' = Dropped(q)
    BY DEF TypeOK, Commit, Reset, Dropped
  <1>3. writes'[p] = NoWrite /\ Dropped(p)' = {} /\ doomed'[p] = {}
    BY DEF TypeOK, Commit, Reset, Dropped
  <1>4. \A r \in Rows : r[1] \in Dropped(p) => Seen(p, r) = "absent"
    BY DEF LinkInv, DroppedAreBare
  <1>5. LinkIntegrity'
    BY <1>1, <1>4, SeenStored DEF LinkIntegrity, Rows
  <1>6. LocksExclusive'
    BY <1>2, <1>3 DEF LinkInv, LocksExclusive, NoWrite, Rows
  <1>7. InsertsHaveSbom'
    <2>1. ASSUME NEW q \in Procs, NEW r \in Rows, writes'[q][r] \in {"open", "fixed"}
          PROVE  r[1] \in Stored'
      <3>1. q # p
        BY <1>3, <2>1 DEF NoWrite
      <3>2. writes[q][r] \in {"open", "fixed"}
        BY <1>2, <2>1, <3>1
      <3>3. r[1] \in Stored /\ r[1] \notin Dropped(p)
        BY <3>1, <3>2 DEF LinkInv, InsertsHaveSbom, DroppedAreBare
      <3>4. QED
        BY <1>1, <3>3
    <2>2. QED
      BY <2>1 DEF InsertsHaveSbom, Rows
  <1>8. DroppedAreBare'
    <2>1. ASSUME NEW q \in Procs, NEW r \in Rows, r[1] \in Dropped(q)'
          PROVE  /\ Seen(q, r)' = "absent"
                 /\ \A x \in Procs \ {q} : writes'[x][r] = "keep"
      <3>1. q # p /\ r[1] \in Dropped(q)
        BY <1>2, <1>3, <2>1
      <3>2. Seen(q, r) = "absent" /\ \A x \in Procs \ {q} : writes[x][r] = "keep"
        BY <3>1 DEF LinkInv, DroppedAreBare
      <3>3. link'[r] = link[r] /\ writes'[q][r] = writes[q][r]
        BY <1>1, <1>2, <3>1, <3>2 DEF Seen
      <3>4. QED
        BY <1>2, <1>3, <3>2, <3>3 DEF Seen, NoWrite
    <2>2. QED
      BY <2>1 DEF DroppedAreBare, Rows
  <1>9. DeletesAreOfCommitted'
    <2>1. ASSUME NEW q \in Procs, NEW r \in Rows, writes'[q][r] = "absent"
          PROVE  link'[r] # "absent"
      <3>1. q # p
        BY <1>3, <2>1 DEF NoWrite
      <3>2. writes[q][r] = "absent"
        BY <1>2, <2>1, <3>1
      <3>3. writes[p][r] = "keep" /\ link[r] # "absent"
        BY <3>1, <3>2 DEF LinkInv, LocksExclusive, DeletesAreOfCommitted
      <3>4. QED
        BY <1>1, <3>3 DEF Seen
    <2>2. \A q \in Procs : pc'[q] \in Unwritten => writes'[q] = NoWrite
      BY <1>2, <1>3 DEF LinkInv, DeletesAreOfCommitted
    <2>3. QED
      BY <2>1, <2>2 DEF DeletesAreOfCommitted, NoWrite, Rows
  <1>10. ScansDeleteNothing'
    BY <1>2, <1>3 DEF LinkInv, ScansDeleteNothing, Procs
  <1>11. QED
    BY <1>5, <1>6, <1>7, <1>8, <1>9, <1>10 DEF LinkInv

\* The SBOM rows go: none has a link left that p sees, no other transaction is
\* inserting one, and from now on none can.
LEMMA DeleteParentsStep ==
  ASSUME TypeOK, LinkInv, NEW p \in Deleters \cup Pruners, DeleteParents(p)
  PROVE  LinkInv'
  <1>0. p \in Procs /\ p \notin Workers
    BY ProcAssumption DEF Procs
  <1>1. UNCHANGED <<link, life, writes, doomed>>
    BY DEF DeleteParents, shared
  <1>2. \A q \in Procs \ {p} : pc'[q] = pc[q] /\ Dropped(q)' = Dropped(q)
    BY <1>1 DEF TypeOK, DeleteParents, GoTo, Dropped
  <1>3. pc'[p] \notin Unwritten /\ Dropped(p)' \subseteq doomed[p] /\ Dropped(p) = {}
    BY <1>0, <1>1 DEF TypeOK, DeleteParents, At, GoTo, Dropped, Unwritten
  <1>4. ASSUME NEW r \in Rows, r[1] \in doomed[p]
        PROVE  Seen(p, r) = "absent" /\ \A q \in Procs \ {p} : writes[q][r] = "keep"
    <2>1. Seen(p, r) = "absent"
      BY <1>4 DEF DeleteParents, ChildRows, RowsOf, Rows
    <2>2. ASSUME NEW q \in Procs \ {p}, writes[q][r] # "keep" PROVE FALSE
      <3>1. writes[p][r] = "keep" /\ link[r] = "absent"
        BY <1>0, <2>1, <2>2 DEF LinkInv, LocksExclusive, Seen
      <3>2. writes[q][r] \in {"open", "fixed"}
        BY <2>2, <3>1 DEF LinkInv, DeletesAreOfCommitted, TypeOK, Status
      <3>3. Inserting(q, r[1])
        BY <3>1, <3>2 DEF Inserting, Rows
      <3>4. q \in Blockers(p)
        BY <1>4, <3>3 DEF Blockers, DeleteParents, At
      <3>5. QED
        BY <3>4 DEF DeleteParents, At
    <2>3. QED
      BY <2>1, <2>2
  <1>5. LinkIntegrity' /\ LocksExclusive' /\ InsertsHaveSbom' /\ ScansDeleteNothing'
    BY <1>1 DEF LinkInv, LinkIntegrity, LocksExclusive, InsertsHaveSbom,
                ScansDeleteNothing, Stored
  <1>6. DroppedAreBare'
    BY <1>1, <1>2, <1>3, <1>4 DEF LinkInv, DroppedAreBare, Seen
  <1>7. DeletesAreOfCommitted'
    BY <1>1, <1>2, <1>3 DEF LinkInv, DeletesAreOfCommitted, NoWrite, Rows
  <1>8. QED
    BY <1>5, <1>6, <1>7 DEF LinkInv

LEMMA LinkMatchesStep ==
  ASSUME TypeOK, LinkInv, NEW w \in Workers, LinkMatches(w)
  PROVE  LinkInv'
  <1>0. w \in Procs /\ doomed[w] = {} /\ sbom[w] \in Sboms
    BY DEF Procs, LinkInv, ScansDeleteNothing, TypeOK, LinkMatches, At, Reading
  <1>1. /\ UNCHANGED <<link, life, doomed>>
        /\ \A q \in Procs \ {w} : pc'[q] = pc[q]
        /\ pc'[w] = "retire" /\ pc'[w] \notin Unwritten
    BY <1>0 DEF TypeOK, LinkMatches, GoTo, shared, Unwritten
  <1>2. \A q \in Procs : Dropped(q)' \subseteq Dropped(q)
    BY <1>1 DEF Dropped
  <1>3. CASE sbom[w] \in Stored
    <2>1. NewRows(w) \in SUBSET Rows
      BY <1>0, <1>3 DEF NewRows, WithStatus, Rows, TypeOK
    <2>2. Wanted(w) = NewRows(w) /\ Blockers(w) = {}
      BY DEF LinkMatches, At, Wanted
    <2>3. \A r \in NewRows(w) : r[1] = sbom[w]
      BY DEF NewRows, WithStatus
    <2>4. ASSUME NEW r \in NewRows(w), NEW q \in Procs
          PROVE  (q # w => writes[q][r] = "keep") /\ r[1] \notin Dropped(q)
      <3>1. CASE q = w
        BY <1>0, <3>1 DEF Dropped
      <3>2. CASE q # w
        <4>1. writes[q][r] = "keep"
          BY <1>0, <2>2, <3>2, WantedFree
        <4>2. sbom[w] \notin Dropped(q)
          BY <2>2, <3>2 DEF Blockers, LinkMatches, At
        <4>3. QED
          BY <2>3, <4>1, <4>2
      <3>3. QED
        BY <3>1, <3>2
    <2>5. Write(w, NewRows(w), "open")
      BY <1>3 DEF LinkMatches
    <2>6. QED
      BY <1>0, <1>1, <1>2, <1>3, <2>1, <2>3, <2>4, <2>5, WriteStep DEF Status
  <1>4. CASE sbom[w] \notin Stored
    <2>1. UNCHANGED writes
      BY <1>4 DEF LinkMatches
    <2>2. \A q \in Procs : pc'[q] \in Unwritten => pc[q] \in Unwritten
      BY <1>1
    <2>3. Stored' = Stored /\ \A v \in Workers : doomed'[v] = {}
      BY <1>1 DEF Stored, LinkInv, ScansDeleteNothing
    <2>4. QED
      BY <1>1, <1>2, <2>1, <2>2, <2>3, QuietStep
  <1>5. QED
    BY <1>3, <1>4

LEMMA RetireStaleStep ==
  ASSUME TypeOK, LinkInv, NEW w \in Workers, RetireStale(w)
  PROVE  LinkInv'
  <1>0. w \in Procs /\ doomed[w] = {} /\ sbom[w] \in Sboms
    BY DEF Procs, LinkInv, ScansDeleteNothing, TypeOK, RetireStale, At, Reading
  <1>1. StaleRows(w) \in SUBSET Rows /\ \A r \in StaleRows(w) : Seen(w, r) # "absent"
    BY <1>0 DEF StaleRows, WithStatus, RowsOf, Rows
  <1>2. Wanted(w) = StaleRows(w) /\ Blockers(w) = {}
    BY DEF RetireStale, At, Wanted
  <1>3. Dropped(w)' \subseteq Dropped(w)
    BY <1>0 DEF RetireStale, Dropped
  <1>4. (\A q \in Procs \ {w} : pc'[q] = pc[q]) /\ pc'[w] \notin Unwritten
    BY <1>0 DEF TypeOK, RetireStale, GoTo, Unwritten
  <1>5. QED
    BY <1>0, <1>1, <1>2, <1>3, <1>4, UpdateStep DEF RetireStale, shared, Status

LEMMA CloseOlderStep ==
  ASSUME TypeOK, LinkInv, NEW p \in Procs, CloseOlder(p)
  PROVE  LinkInv'
  <1>1. SupersededRows(p) \in SUBSET Rows
        /\ \A r \in SupersededRows(p) : Seen(p, r) # "absent"
    BY DEF SupersededRows, WithStatus, RowsOf, Rows, TypeOK
  <1>2. Wanted(p) = SupersededRows(p) /\ Blockers(p) = {}
    BY DEF CloseOlder, At, Wanted
  <1>3. Dropped(p)' \subseteq Dropped(p)
    BY DEF CloseOlder, At, Dropped
  <1>4. (\A q \in Procs \ {p} : pc'[q] = pc[q]) /\ pc'[p] \notin Unwritten
    BY DEF TypeOK, CloseOlder, GoTo, Unwritten
  <1>5. QED
    BY <1>1, <1>2, <1>3, <1>4, UpdateStep DEF CloseOlder, shared, Status

LEMMA DeleteChildrenStep ==
  ASSUME TypeOK, LinkInv, NEW p \in Procs, DeleteChildren(p)
  PROVE  LinkInv'
  <1>1. ChildRows(p) \in SUBSET Rows /\ \A r \in ChildRows(p) : Seen(p, r) # "absent"
    BY DEF ChildRows, RowsOf, Rows, TypeOK
  <1>2. Wanted(p) = ChildRows(p) /\ Blockers(p) = {} /\ pc[p] \in Unwritten
    BY DEF DeleteChildren, At, Wanted, Unwritten
  <1>3. Dropped(p)' \subseteq Dropped(p)
    BY DEF TypeOK, DeleteChildren, GoTo, Dropped
  <1>4. (\A q \in Procs \ {p} : pc'[q] = pc[q]) /\ pc'[p] \notin Unwritten
    BY DEF TypeOK, DeleteChildren, GoTo, Unwritten
  <1>5. QED
    BY <1>1, <1>2, <1>3, <1>4, UpdateStep DEF DeleteChildren, shared, Status

LEMMA ReopenSiblingsStep ==
  ASSUME TypeOK, LinkInv, NEW d \in Procs, ReopenSiblings(d)
  PROVE  LinkInv'
  <1>1. FixedSiblings(d) \in SUBSET Rows
        /\ \A r \in FixedSiblings(d) : Seen(d, r) # "absent"
    BY DEF FixedSiblings, RowsOf, Rows, SeenSboms, Stored
  <1>2. Wanted(d) = FixedSiblings(d) /\ Blockers(d) = {}
    BY DEF ReopenSiblings, At, Wanted
  <1>3. Dropped(d)' \subseteq Dropped(d)
    BY DEF ReopenSiblings, At, Dropped
  <1>4. (\A q \in Procs \ {d} : pc'[q] = pc[q]) /\ pc'[d] \notin Unwritten
    BY DEF TypeOK, ReopenSiblings, GoTo, Unwritten
  <1>5. QED
    BY <1>1, <1>2, <1>3, <1>4, UpdateStep DEF ReopenSiblings, shared, Status

\* Uploads, the broker, the grype database and the receipt of a message.
LEMMA OutsideStep ==
  ASSUME TypeOK, LinkInv, UNCHANGED <<link, writes, doomed>>, Stored \subseteq Stored',
         pc' = pc \/ \E w \in Workers : pc[w] = "idle" /\ GoTo(w, "grype")
  PROVE  LinkInv'
  <1>1. \A p \in Procs : /\ Dropped(p)' \subseteq Dropped(p)
                         /\ pc'[p] \in Unwritten => pc[p] \in Unwritten
    <2>1. CASE pc' = pc
      BY <2>1 DEF Dropped
    <2>2. CASE \E w \in Workers : pc[w] = "idle" /\ GoTo(w, "grype")
      BY <2>2 DEF TypeOK, GoTo, Dropped, Unwritten
    <2>3. QED
      BY <2>1, <2>2
  <1>2. QED
    BY <1>1, QuietStep DEF LinkInv, ScansDeleteNothing

\* The SELECTs of a transaction that is past, or never does, its deletions.
LEMMA ReadStep ==
  ASSUME TypeOK, LinkInv, NEW p \in Procs,
         \/ p \in Workers /\ RunGrype(p)
         \/ FindOlder(p) \/ ReadCurrent(p)
  PROVE  LinkInv'
  <1>1. UNCHANGED <<link, life, writes, doomed>> /\ \A q \in Procs \ {p} : pc'[q] = pc[q]
    BY DEF TypeOK, RunGrype, FindOlder, ReadCurrent, GoTo, shared
  <1>2. /\ Dropped(p)' \subseteq Dropped(p)
        /\ pc'[p] \in Unwritten => pc[p] \in Unwritten
    BY <1>1 DEF TypeOK, RunGrype, FindOlder, ReadCurrent, GoTo, At, Dropped, Unwritten
  <1>3. \A q \in Procs : /\ Dropped(q)' \subseteq Dropped(q)
                         /\ pc'[q] \in Unwritten => pc[q] \in Unwritten
    BY <1>1, <1>2 DEF Dropped
  <1>4. QED
    BY <1>1, <1>3, QuietStep DEF LinkInv, ScansDeleteNothing, Stored

\* A delete or a prune decides which SBOMs it is going to delete.
LEMMA TargetStep ==
  ASSUME TypeOK, LinkInv, NEW p \in Deleters \cup Pruners,
         (\E s \in Sboms : BeginDelete(p, s)) \/ BeginPrune(p) \/ Retarget(p)
  PROVE  LinkInv'
  <1>0. p \in Procs /\ p \notin Workers
    BY ProcAssumption DEF Procs
  <1>1. /\ UNCHANGED <<link, life, writes>>
        /\ \A q \in Procs \ {p} : pc'[q] = pc[q] /\ doomed'[q] = doomed[q]
    BY DEF TypeOK, BeginDelete, BeginPrune, Retarget, GoTo, shared
  <1>2. /\ Dropped(p)' = {}
        /\ pc'[p] \in Unwritten => pc[p] \in Unwritten
    BY <1>0 DEF TypeOK, BeginDelete, BeginPrune, Retarget, GoTo, At, Dropped, Unwritten
  <1>3. \A q \in Procs : /\ Dropped(q)' \subseteq Dropped(q)
                         /\ pc'[q] \in Unwritten => pc[q] \in Unwritten
    BY <1>1, <1>2 DEF Dropped
  <1>4. \A w \in Workers : doomed'[w] = {}
    BY <1>0, <1>1 DEF LinkInv, ScansDeleteNothing, Procs
  <1>5. QED
    BY <1>1, <1>3, <1>4, QuietStep DEF Stored

LEMMA StatementStep ==
  ASSUME TypeOK, LinkInv, NEW p \in Procs, Statement(p)
  PROVE  LinkInv'
  <1>1. CASE FindOlder(p) \/ ReadCurrent(p)
    BY <1>1, ReadStep
  <1>2. CASE CloseOlder(p)
    BY <1>2, CloseOlderStep
  <1>3. CASE Commit(p)
    BY <1>3, CommitStep
  <1>4. CASE DeadlockVictim(p)
    BY <1>4, RollbackStep DEF DeadlockVictim, shared
  <1>5. QED
    BY <1>1, <1>2, <1>3, <1>4 DEF Statement

LEMMA LinkStep == TypeOK /\ LinkInv /\ [Next]_vars => LinkInv'
  <1> SUFFICES ASSUME TypeOK, LinkInv, [Next]_vars PROVE LinkInv'
    OBVIOUS
  <1>1. ASSUME NEW s \in Sboms,
               BeginUpload(s) \/ Upload(s) \/ UploadUnpublished(s) \/ UploadAgain(s)
               \/ FeedUpdate(s)
        PROVE  LinkInv'
    <2>1. UNCHANGED <<link, writes, doomed, pc>>
      BY <1>1 DEF BeginUpload, Upload, UploadUnpublished, CommitUpload, UploadAgain,
                  FeedUpdate, shared, local
    <2>2. Stored \subseteq Stored'
      BY <1>1 DEF BeginUpload, Upload, UploadUnpublished, CommitUpload, UploadAgain,
                  FeedUpdate, shared, Stored, TypeOK
    <2>3. QED
      BY <2>1, <2>2, OutsideStep
  <1>2. CASE Rescan \/ RescanCut
    BY <1>2, OutsideStep DEF Rescan, RescanCut, local, Stored
  <1>3. ASSUME NEW w \in Workers, NEW s \in Sboms, ScanMissing(w, s) \/ StartScan(w, s)
        PROVE  LinkInv'
    BY <1>3, OutsideStep DEF ScanMissing, StartScan, Receive, Stored
  <1>4. ASSUME NEW w \in Workers, ScanStep(w) \/ GrypeFails(w) \/ Redelivered(w)
        PROVE  LinkInv'
    <2>1. w \in Procs
      BY DEF Procs
    <2>2. CASE GrypeFails(w) \/ Redelivered(w)
      BY <2>1, <2>2, RollbackStep DEF GrypeFails, Redelivered, shared
    <2>3. CASE ScanStep(w)
      BY <2>1, <2>3, ReadStep, LinkMatchesStep, RetireStaleStep, StatementStep DEF ScanStep
    <2>4. QED
      BY <1>4, <2>2, <2>3
  <1>5. ASSUME NEW d \in Deleters, (\E s \in Sboms : BeginDelete(d, s)) \/ DeleteStep(d)
        PROVE  LinkInv'
    <2>1. d \in Procs
      BY DEF Procs
    <2>2. ForeignKeyRefuses(d) => LinkInv'
      BY <2>1, RollbackStep DEF ForeignKeyRefuses, shared
    <2>3. QED
      BY <1>5, <2>1, <2>2, TargetStep, DeleteChildrenStep, DeleteParentsStep,
         ReopenSiblingsStep, StatementStep DEF DeleteStep
  <1>6. ASSUME NEW p \in Pruners, BeginPrune(p) \/ PruneStep(p)
        PROVE  LinkInv'
    <2>1. p \in Procs
      BY DEF Procs
    <2>2. ForeignKeyRefuses(p) => LinkInv'
      BY <2>1, RollbackStep DEF ForeignKeyRefuses, shared
    <2>3. QED
      BY <1>6, <2>1, <2>2, TargetStep, DeleteChildrenStep, DeleteParentsStep,
         StatementStep DEF PruneStep
  <1>7. ASSUME NEW p \in Procs, Lost(p) PROVE LinkInv'
    BY <1>7, RollbackStep DEF Lost, shared
  <1>8. CASE UNCHANGED vars
    BY <1>8, OutsideStep DEF vars, shared, local, Stored
  <1>9. QED
    BY <1>1, <1>2, <1>3, <1>4, <1>5, <1>6, <1>7, <1>8 DEF Next

\* The locks keep uncommitted links, uncommitted deletions and the stored SBOMs
\* consistent under every interleaving, for any number of scans, deletes and
\* prunes.
THEOREM LinkInvHolds == Spec => []LinkInv
  BY InitTyped, NextTyped, LinkInit, LinkStep, PTL DEF Spec

\* A link row belongs to a stored SBOM: no delete or prune strands the links of
\* a scan that runs under it.
THEOREM LinksHaveSboms == Spec => []LinkIntegrity
  <1>1. LinkInv => LinkIntegrity
    BY DEF LinkInv
  <1>2. QED
    BY <1>1, LinkInvHolds, PTL
=============================================================================
