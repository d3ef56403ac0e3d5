--------------------------- MODULE AlertDeliveryProofs ---------------------------
(***************************************************************************)
(* Theorems about AlertDelivery, for any rules, findings and runs of        *)
(* check_alerts.  Types hold however runs overlap; what a run decides is    *)
(* counted exactly as long as no two runs have overlapped.                  *)
(***************************************************************************)
EXTENDS AlertDelivery, FiniteSetTheorems, WellFoundedInduction, TLAPS

-----------------------------------------------------------------------------
(* What holds however runs overlap.                                          *)

Findings(table) ==
  /\ DOMAIN table = Projects
  /\ \A p \in Projects : table[p] \in [Vulns -> SUBSET (ServicesOf[p] \cup {NoService})]

\* A rule that is gone left no notification, and nobody has looked at a new one.
Tables ==
  /\ Findings(exposed)
  /\ \A k \in Pairs : rule[k[1]].state # "live" => \A n \in Ids : notes[k][n] = NoRow
  /\ \A k \in Pairs : rule[k[1]].state = "new" => hist[k].tries = 0 /\ hist[k].sends = 0

\* A run holds notifications of the rules it has read, each in the slot of the table
\* where it still is unless its rule is gone.
RunInv(c) ==
  /\ Findings(seen[c])
  /\ \A r \in Rules : Reads(c, r) => rule[r].state # "new" /\ pc[c] \notin {"idle", "rules"}
  /\ pc[c] # "send" => todo[c] = {}
  /\ \A k \in Pairs :
       /\ k \in todo[c] => Reads(c, k[1]) /\ Where(c, k) # {}
       /\ added[c][k] # NoRow => pc[c] = "send" /\ Reads(c, k[1])
       /\ \A n \in Ids :
            /\ loaded[c][k][n] = NoRow <=> existing[c][k][n] = NoRow
            /\ loaded[c][k][n] # NoRow =>
                 /\ pc[c] \in {"flush", "send"} /\ Reads(c, k[1])
                 /\ rule[k[1]].state = "live" => notes[k][n] # NoRow

AlertInv == TypeOK /\ DOMAIN seen = Checkers /\ Tables /\ \A c \in Checkers : RunInv(c)

-----------------------------------------------------------------------------
(* What holds until two runs overlap.                                        *)

Alone == \A c, d \in Checkers : pc[c] # "idle" /\ pc[d] # "idle" => c = d

\* One notification per pair at most; none that a run has resolved is left.
Single(k) ==
  \A n \in Ids :
    /\ notes[k][n].status # "resolved"
    /\ notes[k][n].status = "sent" => notes[k][n].services \in hist[k].told
    /\ \A m \in Ids : notes[k][n] # NoRow /\ notes[k][m] # NoRow => n = m

Decides(c, k) == pc[c] \in {"flush", "send"} /\ Reads(c, k[1]) /\ Where(c, k) # {}

\* The run has the rows of the table, as far as their rules are there, and has
\* changed those of the pairs that are closed or that it has visited.
Copies(c, k) ==
  /\ added[c][k].status # "resolved"
  /\ added[c][k].status = "sent" => added[c][k].services \in hist[k].told
  /\ added[c][k] # NoRow => k \notin todo[c] /\ Where(c, k) # {}
  /\ \A n \in Ids :
       /\ pc[c] \in {"flush", "send"} /\ Reads(c, k[1]) /\ rule[k[1]].state = "live" =>
            loaded[c][k][n] = notes[k][n]
       /\ existing[c][k][n].status = "sent" => existing[c][k][n].services \in hist[k].told
       /\ k \in todo[c] \/ (pc[c] = "flush" /\ Where(c, k) # {}) =>
            existing[c][k][n] = loaded[c][k][n]
       /\ Where(c, k) = {} \/ added[c][k] # NoRow =>
            existing[c][k][n].status \in {"none", "resolved"}

\* What has been tried and sent, h, is in the rows but for what aborted runs lost.
Fits(rows, row, h, aborts) ==
  /\ h.sends = 1 + aborts => row.status = "sent" \/ \E n \in Ids : rows[n].status = "sent"
  /\ row.status = "failed" => h.tries <= aborts + row.attempts
  /\ \A n \in Ids : rows[n].status = "failed" => h.tries <= aborts + rows[n].attempts
  /\ row.status = "none" /\ (\A n \in Ids : rows[n].status \in {"none", "resolved"}) => h.tries <= aborts

\* ... and after the next abort.
Bounded(rows, h, aborts) ==
  /\ h.sends <= 1 + aborts /\ h.tries <= MaxAttempts + aborts
  /\ \A n \in Ids : rows[n].status = "failed" => h.tries <= aborts + 1 + rows[n].attempts
  /\ (\A n \in Ids : rows[n].status = "none") => h.tries <= aborts + 1

Counts(k) ==
  rule[k[1]].state = "live" =>
    /\ Bounded(notes[k], hist[k], spent.aborts)
    /\ (\A c \in Checkers : ~Decides(c, k)) => Fits(notes[k], NoRow, hist[k], spent.aborts)
    /\ \A c \in Checkers : Decides(c, k) => Fits(existing[c][k], added[c][k], hist[k], spent.aborts)

Exact(k) == Single(k) /\ Counts(k) /\ \A c \in Checkers : Copies(c, k)

Sequential == spent.overlaps = 0 => Alone /\ \A k \in Pairs : Exact(k)

-----------------------------------------------------------------------------
(* Rows.                                                                     *)

LEMMA Greatest ==
  ASSUME NEW N \in Nat, NEW S \in SUBSET (0 .. N), S # {}
  PROVE  Max(S) \in S /\ \A y \in S : y <= Max(S)
  <1> DEFINE R == OpToRel(<, Nat)
             T == {N - y : y \in S}
  <1>1. \A x, y \in Nat : <<x, y>> \in R <=> x < y
    BY DEF OpToRel
  <1>0. \A y \in S : y \in Nat /\ N - y \in Nat
    OBVIOUS
  <1>2. T \subseteq Nat /\ T # {}
    <2>1. PICK y : y \in S
      OBVIOUS
    <2>2. N - y \in T
      BY <2>1
    <2>3. \A t \in T : t \in Nat
      BY <1>0
    <2>4. QED
      BY <2>2, <2>3
  <1> HIDE DEF R
  <1>3. \E x \in T : \A y \in T : <<y, x>> \notin R
    <2>1. IsWellFoundedOn(R, Nat)
      BY NatLessThanWellFounded DEF R
    <2> HIDE DEF T
    <2>2. QED
      BY <1>2, <2>1, WFMin
  <1>4. PICK x \in T : \A y \in T : ~(y < x)
    BY <1>1, <1>2, <1>3
  <1>5. PICK s \in S : x = N - s
    BY <1>4
  <1>6. ASSUME NEW y \in S PROVE s >= y
    <2>1. ~(N - y < N - s)
      BY <1>4, <1>5
    <2>2. QED
      BY <1>0, <2>1
  <1>7. QED
    BY <1>6 DEF Max

LEMMA RowFields ==
  ASSUME NEW row \in Row \cup {NoRow}
  PROVE  /\ row.status \in {"none", "sent", "failed", "resolved"}
         /\ row.status = "none" <=> row = NoRow
         /\ row.attempts \in Nat /\ row.attempts \in 0 .. MaxAttempts
         /\ row # NoRow => row \in Row /\ row.services \in Scopes
         /\ row = [status |-> row.status, attempts |-> row.attempts, services |-> row.services]
  BY AlertAssumption DEF Row, NoRow

LEMMA NoRowFields == NoRow.status = "none" /\ NoRow \in Row \cup {NoRow}
  BY DEF NoRow

LEMMA MadeRow ==
  ASSUME NEW s \in {"sent", "failed", "resolved"}, NEW a \in 0 .. MaxAttempts, NEW S \in Scopes
  PROVE  [status |-> s, attempts |-> a, services |-> S] \in Row
  BY DEF Row

LEMMA ResolvedRow ==
  ASSUME NEW row \in Row
  PROVE  Resolved(row) \in Row /\ Resolved(row).status = "resolved"
  <1>1. row \in [status : {"sent", "failed", "resolved"}, attempts : 0..MaxAttempts, services : Scopes]
    BY DEF Row
  <1>2. QED
    BY <1>1 DEF Resolved, Row

LEMMA OutcomeRow ==
  ASSUME NEW success \in BOOLEAN, NEW a \in 1 .. MaxAttempts, NEW S \in Scopes
  PROVE  /\ Outcome(success, a, S) \in Row
         /\ Outcome(success, a, S).services = S
         /\ success => Outcome(success, a, S).status = "sent"
         /\ ~success => Outcome(success, a, S).status = "failed" /\ Outcome(success, a, S).attempts = a
  BY AlertAssumption DEF Outcome, Row

\* A first attempt is within the limit, and a row is made with it.
LEMMA FirstAttempt == 1 \in 1 .. MaxAttempts
  BY AlertAssumption

LEMMA FirstOutcomeRow ==
  ASSUME NEW success \in BOOLEAN, NEW S \in Scopes
  PROVE  /\ Outcome(success, 1, S) \in Row
         /\ Outcome(success, 1, S).services = S
         /\ success => Outcome(success, 1, S).status = "sent"
         /\ ~success => Outcome(success, 1, S).status = "failed" /\ Outcome(success, 1, S).attempts = 1
  BY FirstAttempt, AlertAssumption DEF Outcome, Row

NoteRows == [Ids -> Row \cup {NoRow}]

LEMMA SupersededRows ==
  ASSUME NEW rows \in NoteRows
  PROVE  /\ Superseded(rows) \in NoteRows
         /\ \A n \in Ids : /\ Superseded(rows)[n] = NoRow <=> rows[n] = NoRow
                           /\ Superseded(rows)[n].status \in {"none", "resolved"}
  <1>1. ASSUME NEW n \in Ids
        PROVE  /\ Superseded(rows)[n] \in Row \cup {NoRow}
               /\ Superseded(rows)[n] = NoRow <=> rows[n] = NoRow
               /\ Superseded(rows)[n].status \in {"none", "resolved"}
    <2>1. CASE rows[n].status \in Active
      <3>1. rows[n] \in Row /\ rows[n] # NoRow
        BY <2>1, NoRowFields DEF NoteRows, Active
      <3>2. Superseded(rows)[n] = Resolved(rows[n])
        BY <2>1 DEF Superseded
      <3>3. Resolved(rows[n]) # NoRow
        BY <3>1, ResolvedRow, NoRowFields
      <3>4. QED
        BY <3>1, <3>2, <3>3, ResolvedRow
    <2>2. CASE rows[n].status \notin Active
      <3>1. Superseded(rows)[n] = rows[n] /\ rows[n] \in Row \cup {NoRow}
        BY <2>2 DEF Superseded, NoteRows
      <3>2. QED
        BY <2>2, <3>1, RowFields DEF Active
    <2>3. QED
      BY <2>1, <2>2
  <1>2. Superseded(rows) \in NoteRows
    BY <1>1 DEF Superseded, NoteRows
  <1>3. QED
    BY <1>1, <1>2

-----------------------------------------------------------------------------
(* Types and tables.                                                         *)

Steps == {"idle", "rules", "load", "flush", "send"}
Budget == [exposures : 0..MaxExposures, updates : 0..MaxUpdates,
           crashes : 0..MaxAborts, aborts : Nat, overlaps : 0..MaxOverlaps]
RuleRows == [Rules -> LiveRule \cup {NoRule}]
History == [tries : Nat, sends : Nat, told : SUBSET Scopes]

\* The types of the sessions, and of the rest.
SessionTypes ==
  /\ pc \in [Checkers -> Steps] /\ DOMAIN seen = Checkers
  /\ alerts \in [Checkers -> RuleRows]
  /\ loaded \in [Checkers -> [Pairs -> NoteRows]] /\ existing \in [Checkers -> [Pairs -> NoteRows]]
  /\ added \in [Checkers -> [Pairs -> Row \cup {NoRow}]]
  /\ todo \in [Checkers -> SUBSET Pairs]
TableTypes ==
  /\ rule \in [Rules -> LiveRule \cup {NoRule, Gone}]
  /\ notes \in [Pairs -> NoteRows]
  /\ spent \in Budget
  /\ hist \in [Pairs -> History]

LEMMA Types ==
  /\ AlertInv => SessionTypes /\ TableTypes
  /\ SessionTypes /\ TableTypes /\ Findings(exposed) => TypeOK
  BY DEF AlertInv, TypeOK, Tables, SessionTypes, TableTypes, Findings, Steps, Budget, RuleRows, NoteRows, History

LEMMA TypesNext == SessionTypes' /\ TableTypes' /\ Findings(exposed)' => TypeOK'
  BY DEF TypeOK, SessionTypes, TableTypes, Findings, Steps, Budget, RuleRows, NoteRows, History

LEMMA RuleStates ==
  /\ NoRule.state = "new" /\ ~NoRule.enabled
  /\ Gone.state = "deleted" /\ ~Gone.enabled
  /\ \A row \in LiveRule : row.state = "live" /\ row.project \in Projects
  BY DEF NoRule, Gone, LiveRule

LEMMA Empty ==
  /\ Findings(Nowhere) /\ NoRows \in [Pairs -> NoteRows] /\ NoRules \in RuleRows
  /\ NoneToAdd \in [Pairs -> Row \cup {NoRow}]
  /\ \A k \in Pairs : NoneToAdd[k] = NoRow
  /\ \A k \in Pairs, n \in Ids : NoRows[k][n] = NoRow
  /\ \A r \in Rules : NoRules[r] = NoRule
  BY DEF Findings, Nowhere, NoRows, NoRules, NoneToAdd, NoteRows, RuleRows

LEMMA PairParts ==
  ASSUME NEW k \in Pairs
  PROVE  k[1] \in Rules /\ k[2] \in Vulns
  BY DEF Pairs

LEMMA AlertInit == Init => AlertInv
  <1> SUFFICES ASSUME Init PROVE AlertInv
    OBVIOUS
  <1>1. TableTypes
    BY Empty, AlertAssumption DEF Init, TableTypes, Budget, History
  <1>2. SessionTypes
    BY Empty DEF Init, SessionTypes, Steps
  <1>3. Tables
    BY Empty DEF Init, Tables
  <1>4. ASSUME NEW c \in Checkers PROVE RunInv(c)
    <2>1. \A r \in Rules : ~Reads(c, r)
      BY Empty, RuleStates DEF Init, Reads
    <2>2. seen[c] = Nowhere /\ todo[c] = {}
      BY DEF Init
    <2>3. loaded[c] = NoRows /\ existing[c] = NoRows /\ added[c] = NoneToAdd
      BY DEF Init
    <2>4. QED
      BY <2>1, <2>2, <2>3, Empty DEF RunInv
  <1>5. QED
    BY <1>1, <1>2, <1>3, <1>4, Types DEF AlertInv, Tables, SessionTypes

-----------------------------------------------------------------------------
(* Runs.                                                                     *)

\* Nothing of the run d changes.
SameSession(d) ==
  /\ pc'[d] = pc[d] /\ seen'[d] = seen[d] /\ alerts'[d] = alerts[d]
  /\ loaded'[d] = loaded[d] /\ existing'[d] = existing[d]
  /\ added'[d] = added[d] /\ todo'[d] = todo[d]

\* Rules are created once, and what runs hold stays in the table with its rule.
TablesAge ==
  /\ \A r \in Rules : rule[r].state # "new" => rule'[r].state # "new"
  /\ \A r \in Rules : rule'[r].state = "live" => rule[r].state \in {"new", "live"}

HeldRowsStay(d) ==
  \A k \in Pairs, n \in Ids :
    loaded[d][k][n] # NoRow /\ rule[k[1]].state = "live" /\ rule'[k[1]].state = "live"
      /\ notes[k][n] # NoRow => notes'[k][n] # NoRow

LEMMA SameRun ==
  ASSUME AlertInv, NEW d \in Checkers, SameSession(d), TablesAge, HeldRowsStay(d)
  PROVE  RunInv(d)'
  <1>0. RunInv(d)
    BY DEF AlertInv
  <1>1. \A r \in Rules : Reads(d, r)' <=> Reads(d, r)
    BY DEF Reads, SameSession
  <1>2. \A k \in Pairs : Where(d, k)' = Where(d, k)
    BY DEF Where, SameSession
  <1>3. Findings(seen[d])'
    BY <1>0 DEF RunInv, SameSession, Findings
  <1>4. \A r \in Rules : Reads(d, r)' => rule'[r].state # "new" /\ pc'[d] \notin {"idle", "rules"}
    BY <1>0, <1>1 DEF RunInv, SameSession, TablesAge
  <1>5. ASSUME NEW k \in Pairs
        PROVE  /\ k \in todo'[d] => Reads(d, k[1])' /\ Where(d, k)' # {}
               /\ added'[d][k] # NoRow => pc'[d] = "send" /\ Reads(d, k[1])'
    BY <1>0, <1>1, <1>2, PairParts DEF RunInv, SameSession
  <1>6. ASSUME NEW k \in Pairs, NEW n \in Ids
        PROVE  /\ loaded'[d][k][n] = NoRow <=> existing'[d][k][n] = NoRow
               /\ loaded'[d][k][n] # NoRow =>
                    /\ pc'[d] \in {"flush", "send"} /\ Reads(d, k[1])'
                    /\ rule'[k[1]].state = "live" => notes'[k][n] # NoRow
    <2>1. /\ loaded[d][k][n] = NoRow <=> existing[d][k][n] = NoRow
          /\ loaded[d][k][n] # NoRow =>
               /\ pc[d] \in {"flush", "send"} /\ Reads(d, k[1])
               /\ rule[k[1]].state = "live" => notes[k][n] # NoRow
      BY <1>0 DEF RunInv
    <2>2. Reads(d, k[1]) => rule[k[1]].state # "new"
      BY <1>0, PairParts DEF RunInv
    <2>3. rule'[k[1]].state = "live" /\ rule[k[1]].state # "new" => rule[k[1]].state = "live"
      BY PairParts DEF TablesAge
    <2>4. QED
      BY <1>1, <2>1, <2>2, <2>3, PairParts DEF SameSession, HeldRowsStay
  <1>7. pc'[d] # "send" => todo'[d] = {}
    BY <1>0 DEF RunInv, SameSession
  <1>8. QED
    BY <1>3, <1>4, <1>5, <1>6, <1>7 DEF RunInv

LEMMA EndedRun ==
  ASSUME AlertInv, NEW c \in Checkers, Ends(c)
  PROVE  /\ SessionTypes' /\ RunInv(c)' /\ pc'[c] = "idle"
         /\ \A d \in Checkers \ {c} : SameSession(d)
  <1>0. SessionTypes
    BY Types
  <1>1. /\ pc'[c] = "idle" /\ seen'[c] = Nowhere /\ alerts'[c] = NoRules /\ todo'[c] = {}
        /\ loaded'[c] = NoRows /\ existing'[c] = NoRows /\ added'[c] = NoneToAdd
    BY <1>0 DEF Ends, SessionTypes
  <1>2. SessionTypes'
    BY <1>0, Empty DEF Ends, SessionTypes, Steps
  <1>3. \A r \in Rules : ~Reads(c, r)'
    BY <1>1, Empty, RuleStates DEF Reads
  <1>4. RunInv(c)'
    BY <1>1, <1>3, Empty DEF RunInv, Findings
  <1>5. \A d \in Checkers \ {c} : SameSession(d)
    BY <1>0 DEF Ends, SessionTypes, SameSession
  <1>6. QED
    BY <1>1, <1>2, <1>4, <1>5

\* A step of the run c that leaves the tables alone.
LEMMA OwnStep ==
  ASSUME AlertInv, NEW c \in Checkers, UNCHANGED <<exposed, rule, notes>>,
         SessionTypes', RunInv(c)', \A d \in Checkers \ {c} : SameSession(d),
         spent' \in Budget, hist' \in [Pairs -> History],
         \A k \in Pairs : rule[k[1]].state = "new" => hist'[k].tries = hist[k].tries /\ hist'[k].sends = hist[k].sends
  PROVE  AlertInv'
  <1>1. TypeOK'
    BY Types, TypesNext DEF TableTypes, AlertInv, Tables, Findings
  <1>2. Tables'
    BY DEF AlertInv, Tables, Findings
  <1>3. TablesAge /\ \A d \in Checkers : HeldRowsStay(d)
    BY DEF TablesAge, HeldRowsStay
  <1>4. \A d \in Checkers : RunInv(d)'
    BY <1>3, SameRun
  <1>5. QED
    BY <1>1, <1>2, <1>4 DEF AlertInv, SessionTypes

-----------------------------------------------------------------------------
(* The steps of a run.                                                       *)

LEMMA BudgetFields ==
  ASSUME TableTypes
  PROVE  /\ spent.aborts \in Nat /\ spent.overlaps \in Nat
         /\ spent.overlaps \in 0 .. MaxOverlaps /\ spent.crashes \in 0 .. MaxAborts
         /\ spent.exposures \in 0 .. MaxExposures /\ spent.updates \in 0 .. MaxUpdates
  BY AlertAssumption DEF TableTypes, Budget

\* Starting a run while another is active counts as an overlap.
LEMMA StartBudget ==
  ASSUME AlertInv, NEW c \in Checkers, Start(c)
  PROVE  /\ spent' \in Budget
         /\ spent'.overlaps = 0 => (\A d \in Checkers : pc[d] = "idle") /\ spent' = spent
  <1>0. TableTypes /\ spent \in Budget
    BY Types DEF TableTypes
  <1>1. CASE \E d \in Checkers : pc[d] # "idle"
    <2>1. spent.overlaps < MaxOverlaps /\ spent' = [spent EXCEPT !.overlaps = @ + 1]
      BY <1>1 DEF Start
    <2>2. QED
      BY <1>0, <2>1, BudgetFields, AlertAssumption DEF Budget
  <1>2. CASE ~ \E d \in Checkers : pc[d] # "idle"
    <2>1. spent' = [spent EXCEPT !.overlaps = @]
      BY <1>2 DEF Start
    <2>2. spent' = spent
      BY <1>0, <2>1 DEF Budget
    <2>3. QED
      BY <1>0, <1>2, <2>2
  <1>3. QED
    BY <1>1, <1>2

LEMMA StartStep ==
  ASSUME AlertInv, NEW c \in Checkers, Start(c)
  PROVE  AlertInv'
  <1>0. SessionTypes /\ TableTypes /\ RunInv(c) /\ Findings(exposed)
    BY Types DEF AlertInv, Tables
  <1>1. pc[c] = "idle" /\ pc'[c] = "rules" /\ seen'[c] = exposed
    BY <1>0 DEF Start, SessionTypes
  <1>2. SessionTypes'
    BY <1>0 DEF Start, SessionTypes, Steps
  <1>3. \A d \in Checkers \ {c} : SameSession(d)
    BY <1>0 DEF Start, SessionTypes, SameSession
  <1>4. \A r \in Rules : ~Reads(c, r)
    BY <1>0, <1>1 DEF RunInv
  <1>5. \A r \in Rules : ~Reads(c, r)'
    BY <1>4 DEF Start, Reads
  <1>6. /\ todo'[c] = {} /\ \A k \in Pairs : added'[c][k] = NoRow
        /\ \A k \in Pairs, n \in Ids : loaded'[c][k][n] = NoRow /\ existing'[c][k][n] = NoRow
    BY <1>0, <1>1 DEF Start, RunInv
  <1>7. RunInv(c)'
    BY <1>0, <1>1, <1>5, <1>6 DEF RunInv, Findings
  <1>8. hist' \in [Pairs -> History] /\ hist' = hist /\ UNCHANGED <<exposed, rule, notes>>
    BY <1>0 DEF Start, TableTypes
  <1>9. QED
    BY <1>2, <1>3, <1>7, <1>8, StartBudget, OwnStep

LEMMA ReadRulesStep ==
  ASSUME AlertInv, NEW c \in Checkers, ReadRules(c)
  PROVE  AlertInv'
  <1> DEFINE enabled == {r \in Rules : rule[r].enabled}
             kept == [r \in Rules |-> IF r \in enabled THEN rule[r] ELSE NoRule]
  <1>0. SessionTypes /\ TableTypes /\ RunInv(c)
    BY Types DEF AlertInv
  <1>1. /\ hist' \in [Pairs -> History] /\ hist' = hist /\ spent' \in Budget
        /\ UNCHANGED <<exposed, rule, notes>>
    BY <1>0 DEF ReadRules, TableTypes
  <1>2. CASE Ends(c)
    BY <1>1, <1>2, EndedRun, OwnStep
  <1>3. CASE ~Ends(c)
    <2>1. /\ pc[c] = "rules" /\ pc' = [pc EXCEPT ![c] = "load"] /\ alerts' = [alerts EXCEPT ![c] = kept]
          /\ UNCHANGED <<seen, loaded, existing, added, todo>>
      BY <1>3 DEF ReadRules
    <2>2. \A r \in enabled : rule[r] \in LiveRule
      <3>1. \A r \in Rules : rule[r] \in LiveRule \/ rule[r] = NoRule \/ rule[r] = Gone
        BY <1>0 DEF TableTypes
      <3>2. \A r \in enabled : rule[r].enabled
        OBVIOUS
      <3>3. QED
        BY <3>1, <3>2, RuleStates, Zenon
    <2> HIDE DEF enabled
    <2>3. \A r \in Rules : kept[r] = IF r \in enabled THEN rule[r] ELSE NoRule
      OBVIOUS
    <2>4. kept \in RuleRows
      BY <2>2, <2>3 DEF RuleRows
    <2>5. \A r \in Rules : kept[r].state = "live" => rule[r].state = "live"
      BY <2>2, <2>3, RuleStates
    <2> HIDE DEF kept
    <2>6. pc'[c] = "load" /\ alerts'[c] = kept /\ SessionTypes'
      BY <1>0, <2>1, <2>4 DEF SessionTypes, Steps
    <2>7. \A d \in Checkers \ {c} : SameSession(d)
      BY <1>0, <2>1 DEF SessionTypes, SameSession
    <2>8. \A r \in Rules : Reads(c, r)' => rule'[r].state # "new"
      BY <1>1, <2>5, <2>6 DEF Reads
    <2>9. /\ todo'[c] = {} /\ \A k \in Pairs : added'[c][k] = NoRow
          /\ \A k \in Pairs, n \in Ids : loaded'[c][k][n] = NoRow /\ existing'[c][k][n] = NoRow
      BY <1>0, <2>1 DEF RunInv
    <2>10. RunInv(c)'
      BY <1>0, <2>1, <2>6, <2>8, <2>9 DEF RunInv, Findings
    <2>11. QED
      BY <1>1, <2>6, <2>7, <2>10, OwnStep
  <1>4. QED
    BY <1>2, <1>3

\* What Load reads.
ReadRows(c) ==
  [k \in Pairs |-> [n \in Ids |->
     IF Reads(c, k[1]) /\ notes[k][n].status \in Active THEN notes[k][n] ELSE NoRow]]

LEMMA LoadedRows ==
  ASSUME AlertInv, NEW c \in Checkers, Load(c)
  PROVE  /\ pc[c] = "load" /\ pc'[c] = "flush" /\ SessionTypes'
         /\ loaded'[c] \in [Pairs -> NoteRows]
         /\ \A k \in Pairs, n \in Ids :
              /\ loaded'[c][k][n] = IF Reads(c, k[1]) /\ notes[k][n].status \in Active
                                    THEN notes[k][n] ELSE NoRow
              /\ loaded'[c][k][n] = NoRow <=> existing'[c][k][n] = NoRow
              /\ Where(c, k) # {} => existing'[c][k][n] = loaded'[c][k][n]
              /\ Reads(c, k[1]) /\ Where(c, k) = {} => existing'[c][k][n].status \in {"none", "resolved"}
  <1> DEFINE rows == ReadRows(c)
             changed == [k \in Pairs |-> IF k \in Closed(c) THEN Superseded(rows[k]) ELSE rows[k]]
  <1>0. SessionTypes /\ TableTypes
    BY Types
  <1>1. /\ pc[c] = "load" /\ pc' = [pc EXCEPT ![c] = "flush"]
        /\ loaded' = [loaded EXCEPT ![c] = rows] /\ existing' = [existing EXCEPT ![c] = changed]
        /\ UNCHANGED <<seen, alerts, added, todo>>
    BY DEF Load, ReadRows
  <1>2. \A k \in Pairs, n \in Ids :
          rows[k][n] = IF Reads(c, k[1]) /\ notes[k][n].status \in Active THEN notes[k][n] ELSE NoRow
    BY DEF ReadRows
  <1>3. \A k \in Pairs : rows[k] \in NoteRows
    BY <1>0 DEF ReadRows, NoteRows, TableTypes
  <1>4. rows \in [Pairs -> NoteRows]
    BY <1>3 DEF ReadRows
  <1> HIDE DEF rows
  <1>5. \A k \in Pairs : changed[k] = IF k \in Closed(c) THEN Superseded(rows[k]) ELSE rows[k]
    OBVIOUS
  <1>6. changed \in [Pairs -> NoteRows]
    BY <1>3, <1>5, SupersededRows
  <1> HIDE DEF changed
  <1>7. pc'[c] = "flush" /\ loaded'[c] = rows /\ existing'[c] = changed /\ SessionTypes'
    BY <1>0, <1>1, <1>4, <1>6 DEF SessionTypes, Steps
  <1>8. \A k \in Pairs : k \in Closed(c) <=> Reads(c, k[1]) /\ Where(c, k) = {}
    BY DEF Closed
  <1>9. \A k \in Pairs, n \in Ids :
          /\ rows[k][n] = NoRow <=> changed[k][n] = NoRow
          /\ Where(c, k) # {} => changed[k][n] = rows[k][n]
          /\ Reads(c, k[1]) /\ Where(c, k) = {} => changed[k][n].status \in {"none", "resolved"}
    BY <1>3, <1>5, <1>8, SupersededRows
  <1>10. QED
    BY <1>1, <1>2, <1>4, <1>7, <1>9

LEMMA LoadStep ==
  ASSUME AlertInv, NEW c \in Checkers, Load(c)
  PROVE  AlertInv'
  <1>0. SessionTypes /\ TableTypes /\ RunInv(c)
    BY Types DEF AlertInv
  <1>1. /\ hist' \in [Pairs -> History] /\ hist' = hist /\ spent' \in Budget
        /\ UNCHANGED <<exposed, rule, notes, seen, alerts, added, todo>>
    BY <1>0 DEF Load, TableTypes
  <1>2. \A d \in Checkers \ {c} : SameSession(d)
    BY <1>0 DEF Load, SessionTypes, SameSession
  <1>3. \A r \in Rules : (Reads(c, r)' <=> Reads(c, r)) /\ (Reads(c, r) => rule[r].state # "new")
    BY <1>0, <1>1 DEF Reads, RunInv
  <1>4. \A k \in Pairs, n \in Ids :
          loaded'[c][k][n] # NoRow => Reads(c, k[1]) /\ loaded'[c][k][n] = notes[k][n]
    BY LoadedRows
  <1>5. todo'[c] = {} /\ \A k \in Pairs : added'[c][k] = NoRow
    BY <1>0, <1>1, LoadedRows DEF RunInv
  <1>6. RunInv(c)'
    BY <1>0, <1>1, <1>3, <1>4, <1>5, LoadedRows, PairParts DEF RunInv, Findings
  <1>7. QED
    BY <1>1, <1>2, <1>6, LoadedRows, OwnStep

LEMMA FlushStep ==
  ASSUME AlertInv, NEW c \in Checkers, FlushResolved(c)
  PROVE  AlertInv'
  <1>0. SessionTypes /\ TableTypes /\ RunInv(c)
    BY Types DEF AlertInv
  <1>1. /\ hist' \in [Pairs -> History] /\ hist' = hist /\ spent' \in Budget
        /\ UNCHANGED <<exposed, rule, notes, seen, alerts, loaded, existing, added>>
        /\ pc[c] = "flush" /\ pc' = [pc EXCEPT ![c] = "send"] /\ todo' = [todo EXCEPT ![c] = Due(c)]
    BY <1>0 DEF FlushResolved, TableTypes
  <1>2. Due(c) \subseteq Pairs /\ \A k \in Due(c) : Reads(c, k[1]) /\ Where(c, k) # {}
    BY DEF Due
  <1>3. pc'[c] = "send" /\ todo'[c] = Due(c) /\ SessionTypes'
    BY <1>0, <1>1, <1>2 DEF SessionTypes, Steps
  <1>4. \A d \in Checkers \ {c} : SameSession(d)
    BY <1>0, <1>1 DEF SessionTypes, SameSession
  <1>5. /\ \A r \in Rules : Reads(c, r)' <=> Reads(c, r)
        /\ \A k \in Pairs : Where(c, k)' = Where(c, k)
    BY <1>1 DEF Reads, Where
  <1>6. RunInv(c)'
    BY <1>0, <1>1, <1>2, <1>3, <1>5, PairParts DEF RunInv, Findings
  <1>7. QED
    BY <1>1, <1>3, <1>4, <1>6, OwnStep

\* A pair that a run visits is one whose rule it has read and whose finding is open.
LEMMA VisitedPair ==
  ASSUME AlertInv, NEW c \in Checkers, NEW k \in todo[c]
  PROVE  /\ k \in Pairs /\ pc[c] = "send" /\ Reads(c, k[1]) /\ Where(c, k) # {}
         /\ rule[k[1]].state # "new" /\ Current(c, k) \in Scopes
  <1>0. SessionTypes /\ RunInv(c)
    BY Types DEF AlertInv
  <1>1. k \in Pairs
    BY <1>0 DEF SessionTypes
  <1>2. pc[c] = "send" /\ Reads(c, k[1]) /\ Where(c, k) # {} /\ rule[k[1]].state # "new"
    BY <1>0, <1>1, PairParts DEF RunInv
  <1>3. alerts[c][k[1]] \in LiveRule
    BY <1>0, <1>1, <1>2, PairParts, RuleStates DEF SessionTypes, RuleRows, Reads
  <1>4. PICK p \in Projects : p = alerts[c][k[1]].project
    BY <1>3, RuleStates
  <1>5. Where(c, k) \in SUBSET (ServicesOf[p] \cup {NoService})
    BY <1>0, <1>1, <1>4, PairParts DEF RunInv, Findings, Where
  <1>6. Current(c, k) \in SUBSET ServicesOf[p]
    BY <1>5 DEF Current
  <1>7. QED
    BY <1>1, <1>2, <1>4, <1>6 DEF Scopes

LEMMA VisitStep ==
  ASSUME AlertInv, NEW c \in Checkers, NEW k \in Pairs, Visits(c, k),
         NEW rows \in NoteRows, NEW row \in Row \cup {NoRow},
         existing' = [existing EXCEPT ![c][k] = rows], added' = [added EXCEPT ![c][k] = row],
         \A n \in Ids : rows[n] = NoRow <=> existing[c][k][n] = NoRow,
         hist' \in [Pairs -> History], \A o \in Pairs \ {k} : hist'[o] = hist[o]
  PROVE  AlertInv'
  <1>0. SessionTypes /\ TableTypes /\ RunInv(c)
    BY Types DEF AlertInv
  <1>1. /\ k \in todo[c] /\ todo' = [todo EXCEPT ![c] = todo[c] \ {k}]
        /\ UNCHANGED <<exposed, rule, notes, pc, seen, alerts, loaded, spent>>
    BY DEF Visits
  <1>2. pc[c] = "send" /\ Reads(c, k[1]) /\ rule[k[1]].state # "new"
    BY <1>1, VisitedPair
  <1>3. /\ \A o \in Pairs : existing'[c][o] = IF o = k THEN rows ELSE existing[c][o]
        /\ \A o \in Pairs : added'[c][o] = IF o = k THEN row ELSE added[c][o]
        /\ todo'[c] = todo[c] \ {k}
    BY <1>0, <1>1 DEF SessionTypes
  <1>4. SessionTypes'
    BY <1>0, <1>1 DEF SessionTypes
  <1>5. \A d \in Checkers \ {c} : SameSession(d)
    BY <1>0, <1>1 DEF SessionTypes, SameSession
  <1>6. /\ \A r \in Rules : Reads(c, r)' <=> Reads(c, r)
        /\ \A o \in Pairs : Where(c, o)' = Where(c, o)
    BY <1>1 DEF Reads, Where
  <1>7. ASSUME NEW o \in Pairs
        PROVE  /\ o \in todo'[c] => Reads(c, o[1])' /\ Where(c, o)' # {}
               /\ added'[c][o] # NoRow => pc'[c] = "send" /\ Reads(c, o[1])'
    BY <1>0, <1>1, <1>2, <1>3, <1>6, PairParts DEF RunInv
  <1>8. \A o \in Pairs, n \in Ids : existing'[c][o][n] = NoRow <=> existing[c][o][n] = NoRow
    BY <1>3
  <1>9. RunInv(c)'
    BY <1>0, <1>1, <1>2, <1>6, <1>7, <1>8, PairParts DEF RunInv, Findings
  <1>10. \A o \in Pairs : rule[o[1]].state = "new" => hist'[o].tries = hist[o].tries /\ hist'[o].sends = hist[o].sends
    BY <1>2
  <1>11. QED
    BY <1>0, <1>1, <1>4, <1>5, <1>9, <1>10, OwnStep DEF TableTypes

\* The decision, and the rows that a delivery makes.
LEMMA Undelivered ==
  ASSUME NEW rows, NEW S, DeliveryActions(rows, S) \cap {"deliver", "retry"} # {}
  PROVE  \A n \in Ids : rows[n].status # "sent"
                        /\ (rows[n].status = "failed" => ~(rows[n].attempts >= MaxAttempts))
  <1>1. RowsOf(rows, "sent") = {}
    BY DEF DeliveryActions
  <1>2. RowsOf(rows, "failed") = {} \/ ~Exhausted(rows)
    BY <1>1 DEF DeliveryActions
  <1>3. QED
    BY <1>1, <1>2 DEF RowsOf, Exhausted

Attempts(rows) == Max({rows[n].attempts : n \in RowsOf(rows, "failed")} \cup {0}) + 1
Flipped(rows, row) == [n \in Ids |-> IF n \in RowsOf(rows, "failed") THEN row ELSE rows[n]]

LEMMA AttemptsBound ==
  ASSUME NEW rows \in NoteRows, NEW S, DeliveryActions(rows, S) \cap {"deliver", "retry"} # {}
  PROVE  /\ Attempts(rows) \in 1 .. MaxAttempts
         /\ \A n \in RowsOf(rows, "failed") : rows[n].attempts + 1 <= Attempts(rows)
  <1> DEFINE T == {rows[n].attempts : n \in RowsOf(rows, "failed")} \cup {0}
  <1>1. \A n \in RowsOf(rows, "failed") : n \in Ids /\ rows[n].status = "failed"
    BY DEF RowsOf
  <1>2. \A n \in RowsOf(rows, "failed") : rows[n].attempts \in 0 .. MaxAttempts - 1
    <2> TAKE n \in RowsOf(rows, "failed")
    <2>1. rows[n].attempts \in Nat /\ ~(rows[n].attempts >= MaxAttempts)
      BY <1>1, RowFields, Undelivered DEF NoteRows
    <2>2. QED
      BY <2>1, AlertAssumption
  <1>3. T \in SUBSET (0 .. MaxAttempts - 1) /\ T # {}
    BY <1>2, AlertAssumption
  <1>4. Max(T) \in T /\ \A y \in T : y <= Max(T)
    <2> HIDE DEF T
    <2>1. MaxAttempts - 1 \in Nat
      BY AlertAssumption
    <2>2. QED
      BY <1>3, <2>1, Greatest
  <1>5. Max(T) \in 0 .. MaxAttempts - 1
    BY <1>3, <1>4
  <1>6. Attempts(rows) = Max(T) + 1
    BY DEF Attempts
  <1>7. \A n \in RowsOf(rows, "failed") : rows[n].attempts <= Max(T)
    BY <1>4
  <1> HIDE DEF T
  <1>8. QED
    BY <1>2, <1>5, <1>6, <1>7, AlertAssumption

LEMMA FlippedRows ==
  ASSUME NEW rows \in NoteRows, NEW row \in Row
  PROVE  /\ Flipped(rows, row) \in NoteRows
         /\ \A n \in Ids : /\ Flipped(rows, row)[n] = IF rows[n].status = "failed" THEN row ELSE rows[n]
                           /\ Flipped(rows, row)[n] = NoRow <=> rows[n] = NoRow
  <1>1. \A n \in Ids : Flipped(rows, row)[n] = IF rows[n].status = "failed" THEN row ELSE rows[n]
    BY DEF Flipped, RowsOf
  <1>2. row # NoRow
    BY NoRowFields DEF Row
  <1>3. Flipped(rows, row) \in NoteRows
    BY DEF Flipped, NoteRows
  <1>4. QED
    BY <1>1, <1>2, <1>3, NoRowFields

LEMMA ToldRow ==
  ASSUME TableTypes, NEW k \in Pairs, NEW fresh \in BOOLEAN, NEW success \in BOOLEAN, NEW S \in Scopes,
         Tell(k, fresh, success, S)
  PROVE  /\ hist' \in [Pairs -> History] /\ \A o \in Pairs \ {k} : hist'[o] = hist[o]
         /\ hist'[k].told = IF success THEN hist[k].told \cup {S} ELSE hist[k].told
         /\ hist'[k].sends = (IF fresh THEN 0 ELSE hist[k].sends) + (IF success THEN 1 ELSE 0)
         /\ hist'[k].tries = (IF fresh THEN 0 ELSE hist[k].tries) + (IF success THEN 0 ELSE 1)
  <1> DEFINE tries == IF fresh THEN 0 ELSE hist[k].tries
             sends == IF fresh THEN 0 ELSE hist[k].sends
             h == IF success THEN [tries |-> tries, sends |-> sends + 1, told |-> hist[k].told \cup {S}]
                  ELSE [tries |-> tries + 1, sends |-> sends, told |-> hist[k].told]
  <1>0. hist \in [Pairs -> History] /\ hist[k].tries \in Nat /\ hist[k].sends \in Nat
        /\ hist[k].told \in SUBSET Scopes
    BY DEF TableTypes, History
  <1>1. hist' = [hist EXCEPT ![k] = h]
    BY DEF Tell
  <1>2. tries \in Nat /\ sends \in Nat
    BY <1>0
  <1> HIDE DEF tries, sends
  <1>3. /\ h \in History
        /\ h.told = IF success THEN hist[k].told \cup {S} ELSE hist[k].told
        /\ h.sends = sends + (IF success THEN 1 ELSE 0)
        /\ h.tries = tries + (IF success THEN 0 ELSE 1)
    BY <1>0, <1>2 DEF History
  <1> HIDE DEF h
  <1>4. hist' \in [Pairs -> History] /\ hist'[k] = h /\ \A o \in Pairs \ {k} : hist'[o] = hist[o]
    BY <1>0, <1>1, <1>3
  <1>5. QED
    BY <1>3, <1>4 DEF tries, sends

\* A visit writes rows over those of the pair and adds row.
Revises(c, k, rows, row, fresh, success) ==
  /\ Visits(c, k) /\ Current(c, k) \in Scopes
  /\ rows \in NoteRows /\ row \in Row \cup {NoRow}
  /\ existing' = [existing EXCEPT ![c][k] = rows] /\ added' = [added EXCEPT ![c][k] = row]
  /\ \A n \in Ids : rows[n] = NoRow <=> existing[c][k][n] = NoRow
  /\ Tell(k, fresh, success, Current(c, k))

LEMMA ResendRows ==
  ASSUME AlertInv, NEW c \in Checkers, NEW k \in Pairs, NEW success \in BOOLEAN, Resend(c, k, success)
  PROVE  /\ Outcome(success, 1, Current(c, k)) \in Row
         /\ existing[c][k] \in NoteRows
         /\ Revises(c, k, Superseded(existing[c][k]), Outcome(success, 1, Current(c, k)), TRUE, success)
  <1>1. Visits(c, k) /\ Current(c, k) \in Scopes /\ existing[c][k] \in NoteRows
    BY VisitedPair, Types DEF Resend, Visits, SessionTypes
  <1>2. Outcome(success, 1, Current(c, k)) \in Row
    BY <1>1, FirstOutcomeRow, Zenon
  <1>3. QED
    BY <1>1, <1>2, SupersededRows DEF Resend, Revises

\* The row that a delivery or a retry makes, and the one it adds.
Made(c, k, success) == Outcome(success, Attempts(existing[c][k]), Current(c, k))
Fresh(rows, row) == IF RowsOf(rows, "failed") = {} THEN row ELSE NoRow

LEMMA DeliverRows ==
  ASSUME AlertInv, NEW c \in Checkers, NEW k \in Pairs, NEW success \in BOOLEAN, Deliver(c, k, success)
  PROVE  LET old == existing[c][k]
             row == Made(c, k, success)
         IN  /\ old \in NoteRows /\ row \in Row
             /\ Revises(c, k, Flipped(old, row), Fresh(old, row), FALSE, success)
             /\ DeliveryActions(old, Current(c, k)) \cap {"deliver", "retry"} # {}
  <1> DEFINE old == existing[c][k]
             row == Made(c, k, success)
  <1>1. Visits(c, k) /\ Current(c, k) \in Scopes /\ old \in NoteRows
    BY VisitedPair, Types DEF Deliver, Visits, SessionTypes
  <1>2. DeliveryActions(old, Current(c, k)) \cap {"deliver", "retry"} # {} /\ Tell(k, FALSE, success, Current(c, k))
    BY DEF Deliver
  <1>3. row \in Row
    BY <1>1, <1>2, AttemptsBound, OutcomeRow DEF Made
  <1>4. existing' = [existing EXCEPT ![c][k] = Flipped(old, row)] /\ added' = [added EXCEPT ![c][k] = Fresh(old, row)]
    BY DEF Deliver, Attempts, Flipped, Made, Fresh
  <1> HIDE DEF row
  <1>5. Flipped(old, row) \in NoteRows /\ \A n \in Ids : Flipped(old, row)[n] = NoRow <=> old[n] = NoRow
    BY <1>1, <1>3, FlippedRows
  <1>6. Fresh(old, row) \in Row \cup {NoRow}
    BY <1>3 DEF Fresh
  <1>7. Revises(c, k, Flipped(old, row), Fresh(old, row), FALSE, success)
    BY <1>1, <1>2, <1>4, <1>5, <1>6 DEF Revises
  <1>8. QED
    BY <1>1, <1>2, <1>3, <1>7 DEF row

LEMMA RevisedStep ==
  ASSUME AlertInv, NEW c \in Checkers, NEW k \in Pairs, NEW rows, NEW row,
         NEW fresh \in BOOLEAN, NEW success \in BOOLEAN, Revises(c, k, rows, row, fresh, success)
  PROVE  AlertInv'
  <1>1. /\ Visits(c, k) /\ Current(c, k) \in Scopes
        /\ rows \in NoteRows /\ row \in Row \cup {NoRow}
        /\ existing' = [existing EXCEPT ![c][k] = rows] /\ added' = [added EXCEPT ![c][k] = row]
        /\ \A n \in Ids : rows[n] = NoRow <=> existing[c][k][n] = NoRow
        /\ Tell(k, fresh, success, Current(c, k))
    BY DEF Revises
  <1>2. hist' \in [Pairs -> History] /\ \A o \in Pairs \ {k} : hist'[o] = hist[o]
    BY <1>1, ToldRow, Types
  <1>3. QED
    BY <1>1, <1>2, VisitStep

LEMMA VisitsStep ==
  ASSUME AlertInv, NEW c \in Checkers, NEW k \in Pairs, Visit(c, k)
  PROVE  AlertInv'
  <1>0. SessionTypes /\ TableTypes
    BY Types
  <1>1. CASE Skip(c, k)
    <2>1. existing[c][k] \in NoteRows /\ added[c][k] \in Row \cup {NoRow}
      BY <1>0 DEF SessionTypes
    <2>2. /\ existing' = [existing EXCEPT ![c][k] = existing[c][k]]
          /\ added' = [added EXCEPT ![c][k] = added[c][k]] /\ Visits(c, k) /\ hist' = hist
      BY <1>0, <1>1 DEF Skip, SessionTypes
    <2>3. hist' \in [Pairs -> History]
      BY <1>0, <2>2 DEF TableTypes
    <2>4. QED
      BY <2>1, <2>2, <2>3, VisitStep
  <1>2. ASSUME NEW success \in BOOLEAN, Resend(c, k, success) PROVE AlertInv'
    BY <1>2, ResendRows, RevisedStep
  <1>3. ASSUME NEW success \in BOOLEAN, Deliver(c, k, success) PROVE AlertInv'
    BY <1>3, DeliverRows, RevisedStep
  <1>4. QED
    BY <1>1, <1>2, <1>3 DEF Visit, Sends

\* The end of a run.
LEMMA EndStep ==
  ASSUME AlertInv, NEW c \in Checkers, Ends(c), UNCHANGED <<exposed, rule>>,
         notes' \in [Pairs -> NoteRows], spent' \in Budget, hist' \in [Pairs -> History],
         \A k \in Pairs : rule[k[1]].state = "new" => hist'[k].tries = 0 /\ hist'[k].sends = 0,
         \A k \in Pairs, n \in Ids : rule[k[1]].state # "live" => notes'[k][n] = NoRow,
         \A d \in Checkers \ {c} : HeldRowsStay(d)
  PROVE  AlertInv'
  <1>1. SessionTypes' /\ RunInv(c)' /\ \A d \in Checkers \ {c} : SameSession(d)
    BY EndedRun
  <1>2. TypeOK'
    BY <1>1, Types, TypesNext DEF TableTypes, AlertInv, Tables, Findings
  <1>3. Tables'
    BY DEF AlertInv, Tables, Findings
  <1>4. TablesAge
    BY DEF TablesAge
  <1>5. \A d \in Checkers : RunInv(d)'
    BY <1>1, <1>4, SameRun
  <1>6. QED
    BY <1>1, <1>2, <1>3, <1>5 DEF AlertInv, SessionTypes

LEMMA MergedRow ==
  ASSUME AlertInv, NEW c \in Checkers, ~Vanished(Changed(c)), NEW k \in Pairs, NEW n \in Ids
  PROVE  /\ Merged(c, k, n) \in Row \cup {NoRow}
         /\ Merged(c, k, n) = NoRow <=> notes[k][n] = NoRow
         /\ existing[c][k][n] = loaded[c][k][n] => Merged(c, k, n) = notes[k][n]
         /\ loaded[c][k][n] = notes[k][n] => Merged(c, k, n) = existing[c][k][n]
  <1> DEFINE old == loaded[c][k][n]
             new == existing[c][k][n]
             now == notes[k][n]
  <1>0. old \in Row \cup {NoRow} /\ new \in Row \cup {NoRow} /\ now \in Row \cup {NoRow}
    BY Types DEF SessionTypes, TableTypes, NoteRows
  <1>1. /\ old = [status |-> old.status, attempts |-> old.attempts, services |-> old.services]
        /\ new = [status |-> new.status, attempts |-> new.attempts, services |-> new.services]
        /\ now = [status |-> now.status, attempts |-> now.attempts, services |-> now.services]
    BY <1>0, RowFields
  <1>2. Merged(c, k, n) = [status   |-> IF new.status # old.status THEN new.status ELSE now.status,
                           attempts |-> IF new.attempts # old.attempts THEN new.attempts ELSE now.attempts,
                           services |-> IF new.services # old.services THEN new.services ELSE now.services]
    BY DEF Merged
  <1>3. old = NoRow <=> new = NoRow
    BY DEF AlertInv, RunInv
  <1>4. old # NoRow /\ rule[k[1]].state = "live" => now # NoRow
    BY DEF AlertInv, RunInv
  <1>5. new # old => rule[k[1]].state = "live"
    <2>1. new # old => <<k, n>> \in Changed(c)
      BY DEF Changed
    <2>2. QED
      BY <2>1 DEF Vanished
  <1> HIDE DEF old, new, now
  <1>6. new = old => Merged(c, k, n) = now
    BY <1>1, <1>2
  <1>7. old = now => Merged(c, k, n) = new
    BY <1>1, <1>2
  <1>8. CASE new # old
    <2>1. old \in Row /\ new \in Row /\ now \in Row
      BY <1>0, <1>3, <1>4, <1>5, <1>8
    <2>2. /\ (IF new.status # old.status THEN new.status ELSE now.status) \in {"sent", "failed", "resolved"}
          /\ (IF new.attempts # old.attempts THEN new.attempts ELSE now.attempts) \in 0 .. MaxAttempts
          /\ (IF new.services # old.services THEN new.services ELSE now.services) \in Scopes
      BY <2>1 DEF Row
    <2>3. Merged(c, k, n) \in Row
      BY <1>2, <2>2, MadeRow
    <2>4. Merged(c, k, n) # NoRow /\ now # NoRow
      BY <2>1, <2>3, NoRowFields DEF Row
    <2>5. QED
      BY <1>6, <1>7, <2>3, <2>4 DEF old, new, now
  <1>9. QED
    BY <1>0, <1>6, <1>7, <1>8 DEF old, new, now

LEMMA InsertedRows ==
  ASSUME NEW rows \in NoteRows, NEW row \in Row \cup {NoRow}
  PROVE  /\ Inserted(rows, row) \in NoteRows
         /\ row = NoRow => Inserted(rows, row) = rows
         /\ \A n \in Ids : rows[n] # NoRow => Inserted(rows, row)[n] # NoRow
         /\ row # NoRow /\ (\E n \in Ids : rows[n] = NoRow) =>
              \E n \in Ids : Inserted(rows, row)[n] = row
                             /\ \A m \in Ids \ {n} : Inserted(rows, row)[m] = rows[m]
  <1>1. CASE row = NoRow
    BY <1>1 DEF Inserted
  <1>2. CASE row # NoRow
    <2> DEFINE slot == CHOOSE n \in Ids : rows[n] = NoRow
    <2>1. Inserted(rows, row) = [rows EXCEPT ![slot] = row]
      BY <1>2 DEF Inserted
    <2>2. (\E n \in Ids : rows[n] = NoRow) => slot \in Ids /\ rows[slot] = NoRow
      OBVIOUS
    <2> HIDE DEF slot
    <2>3. \A n \in Ids : Inserted(rows, row)[n] = IF n = slot THEN row ELSE rows[n]
      BY <2>1 DEF NoteRows
    <2>4. Inserted(rows, row) \in NoteRows
      BY <2>1 DEF NoteRows
    <2>5. QED
      BY <1>2, <2>2, <2>3, <2>4
  <1>3. QED
    BY <1>1, <1>2

LEMMA TrimmedRows ==
  ASSUME NEW N, NEW c \in Checkers, \A k \in Pairs, n \in Ids : N[k][n] \in Row \cup {NoRow}
  PROVE  /\ Trim(N, c) \in [Pairs -> NoteRows]
         /\ \A k \in Pairs, n \in Ids :
              /\ Trim(N, c)[k][n] \in {N[k][n], NoRow}
              /\ Trim(N, c)[k][n] = NoRow =>
                   N[k][n] = NoRow \/ \A d \in Checkers \ {c} : loaded[d][k][n] = NoRow
              /\ N[k][n].status # "resolved" => Trim(N, c)[k][n] = N[k][n]
              /\ N[k][n].status = "resolved" /\ (\A d \in Checkers \ {c} : loaded[d][k][n] = NoRow) =>
                   Trim(N, c)[k][n] = NoRow
  <1>1. \A k \in Pairs, n \in Ids :
          Trim(N, c)[k][n] = IF N[k][n].status = "resolved" /\ \A d \in Checkers \ {c} : loaded[d][k][n] = NoRow
                             THEN NoRow ELSE N[k][n]
    BY DEF Trim
  <1>2. Trim(N, c) \in [Pairs -> NoteRows]
    BY DEF Trim, NoteRows
  <1>3. QED
    BY <1>1, <1>2

\* The table as the UPDATEs of the run leave it.
Written(c) == Trim([k \in Pairs |-> [n \in Ids |-> Merged(c, k, n)]], c)

LEMMA WrittenRows ==
  ASSUME AlertInv, NEW c \in Checkers, Commit(c)
  PROVE  /\ Written(c) \in [Pairs -> NoteRows]
         /\ \A k \in Pairs : notes'[k] = Inserted(Written(c)[k], added[c][k]) /\ added[c][k] \in Row \cup {NoRow}
         /\ \A k \in Pairs : rule[k[1]].state # "live" =>
              added[c][k] = NoRow /\ \A n \in Ids : Written(c)[k][n] = NoRow
         /\ \A d \in Checkers \ {c}, k \in Pairs, n \in Ids :
              loaded[d][k][n] # NoRow /\ notes[k][n] # NoRow => Written(c)[k][n] # NoRow
         /\ \A k \in Pairs, n \in Ids :
              /\ Merged(c, k, n).status # "resolved" => Written(c)[k][n] = Merged(c, k, n)
              /\ Merged(c, k, n).status = "resolved" /\ (\A d \in Checkers \ {c} : loaded[d][k][n] = NoRow) =>
                   Written(c)[k][n] = NoRow
  <1> DEFINE N == [k \in Pairs |-> [n \in Ids |-> Merged(c, k, n)]]
  <1>0. SessionTypes /\ TableTypes /\ Tables
    BY Types DEF AlertInv
  <1>1. ~Vanished(Changed(c)) /\ ~Vanished(Inserts(c))
    BY DEF Commit, Vanished
  <1>2. \A k \in Pairs, n \in Ids : N[k][n] = Merged(c, k, n)
    OBVIOUS
  <1>3. Written(c) = Trim(N, c)
    BY DEF Written
  <1> HIDE DEF N
  <1>4. \A k \in Pairs, n \in Ids : /\ N[k][n] \in Row \cup {NoRow}
                                    /\ N[k][n] = NoRow <=> notes[k][n] = NoRow
    BY <1>1, <1>2, MergedRow
  <1>5. /\ Written(c) \in [Pairs -> NoteRows]
        /\ \A k \in Pairs, n \in Ids :
             /\ Written(c)[k][n] \in {N[k][n], NoRow}
             /\ Written(c)[k][n] = NoRow =>
                  N[k][n] = NoRow \/ \A d \in Checkers \ {c} : loaded[d][k][n] = NoRow
             /\ N[k][n].status # "resolved" => Written(c)[k][n] = N[k][n]
             /\ N[k][n].status = "resolved" /\ (\A d \in Checkers \ {c} : loaded[d][k][n] = NoRow) =>
                  Written(c)[k][n] = NoRow
    BY <1>3, <1>4, TrimmedRows
  <1>6. \A k \in Pairs : notes'[k] = Inserted(Written(c)[k], added[c][k]) /\ added[c][k] \in Row \cup {NoRow}
    BY <1>0 DEF Commit, Written, SessionTypes
  <1>7. ASSUME NEW k \in Pairs, rule[k[1]].state # "live"
        PROVE  added[c][k] = NoRow /\ \A n \in Ids : Written(c)[k][n] = NoRow
    <2>1. PICK n \in Ids : TRUE
      BY AlertAssumption
    <2>2. added[c][k] # NoRow => <<k, n>> \in Inserts(c)
      BY DEF Inserts
    <2>3. added[c][k] = NoRow
      BY <1>1, <1>7, <2>2 DEF Vanished
    <2>4. QED
      BY <1>0, <1>4, <1>5, <1>7, <2>3 DEF Tables
  <1>8. QED
    BY <1>2, <1>4, <1>5, <1>6, <1>7

LEMMA ClearedHistory ==
  ASSUME TableTypes, NEW c \in Checkers,
         hist' = [k \in Pairs |-> IF k \in Closed(c) THEN [tries |-> 0, sends |-> 0, told |-> hist[k].told]
                                  ELSE hist[k]]
  PROVE  /\ hist' \in [Pairs -> History]
         /\ \A k \in Pairs : /\ hist'[k].told = hist[k].told
                             /\ k \in Closed(c) => hist'[k].tries = 0 /\ hist'[k].sends = 0
                             /\ k \notin Closed(c) => hist'[k] = hist[k]
  <1>1. \A k \in Pairs : hist[k] \in History /\ hist[k].told \in SUBSET Scopes
    BY DEF TableTypes, History
  <1>2. \A k \in Pairs : [tries |-> 0, sends |-> 0, told |-> hist[k].told] \in History
    BY <1>1 DEF History
  <1>3. hist' \in [Pairs -> History]
    BY <1>1, <1>2
  <1>4. QED
    BY <1>3

LEMMA CommitStep ==
  ASSUME AlertInv, NEW c \in Checkers, Commit(c)
  PROVE  AlertInv'
  <1>0. SessionTypes /\ TableTypes /\ Tables
    BY Types DEF AlertInv
  <1>1. Ends(c) /\ UNCHANGED <<exposed, rule, spent>>
    BY DEF Commit
  <1>2. \A k \in Pairs :
          /\ Written(c)[k] \in NoteRows /\ added[c][k] \in Row \cup {NoRow}
          /\ notes'[k] = Inserted(Written(c)[k], added[c][k])
    BY WrittenRows
  <1>3. notes' \in [Pairs -> NoteRows]
    <2>1. \A k \in Pairs : notes'[k] \in NoteRows
      BY <1>2, InsertedRows
    <2>2. notes' = [k \in Pairs |-> Inserted(Written(c)[k], added[c][k])]
      BY DEF Commit, Written
    <2>3. QED
      BY <1>2, <2>1, <2>2, InsertedRows
  <1>4. hist' \in [Pairs -> History]
        /\ \A k \in Pairs : hist'[k] = hist[k] \/ (hist'[k].tries = 0 /\ hist'[k].sends = 0)
    BY <1>0, ClearedHistory DEF Commit
  <1>5. \A k \in Pairs, n \in Ids : rule[k[1]].state # "live" => notes'[k][n] = NoRow
    BY <1>2, WrittenRows, InsertedRows
  <1>6. \A d \in Checkers \ {c} : HeldRowsStay(d)
    BY <1>2, WrittenRows, InsertedRows DEF HeldRowsStay
  <1>7. spent' \in Budget
    BY <1>0, <1>1 DEF TableTypes
  <1>8. \A k \in Pairs : rule[k[1]].state = "new" => hist'[k].tries = 0 /\ hist'[k].sends = 0
    BY <1>0, <1>4 DEF Tables
  <1>9. QED
    BY <1>1, <1>3, <1>4, <1>5, <1>6, <1>7, <1>8, EndStep

LEMMA AbortBudget ==
  ASSUME TableTypes, NEW c \in Checkers, RuleVanished(c) \/ Crash(c)
  PROVE  spent' \in Budget /\ spent'.aborts = spent.aborts + 1 /\ spent'.overlaps = spent.overlaps
  <1>0. spent \in Budget
    BY DEF TableTypes
  <1>1. CASE RuleVanished(c)
    BY <1>0, <1>1 DEF RuleVanished, Budget
  <1>2. CASE Crash(c)
    <2> DEFINE one == [spent EXCEPT !.crashes = @ + 1]
    <2>1. spent.crashes \in 0 .. MaxAborts /\ spent.crashes < MaxAborts /\ MaxAborts \in Nat
      BY <1>2, BudgetFields, AlertAssumption DEF Crash
    <2>2. one \in Budget /\ one.aborts = spent.aborts /\ one.overlaps = spent.overlaps
      BY <1>0, <2>1 DEF Budget
    <2>3. spent' = [one EXCEPT !.aborts = @ + 1]
      BY <1>2 DEF Crash
    <2> HIDE DEF one
    <2>4. spent' \in Budget /\ spent'.aborts = one.aborts + 1 /\ spent'.overlaps = one.overlaps
      BY <2>2, <2>3 DEF Budget
    <2>5. QED
      BY <2>2, <2>4
  <1>3. QED
    BY <1>1, <1>2

LEMMA AbortStep ==
  ASSUME AlertInv, NEW c \in Checkers, RuleVanished(c) \/ Crash(c)
  PROVE  AlertInv'
  <1>0. SessionTypes /\ TableTypes /\ Tables
    BY Types DEF AlertInv
  <1>1. Ends(c) /\ notes' = Trim(notes, c) /\ UNCHANGED <<exposed, rule, hist>>
    BY DEF RuleVanished, Crash, Abort
  <1>2. \A k \in Pairs, n \in Ids : notes[k][n] \in Row \cup {NoRow}
    BY <1>0 DEF TableTypes, NoteRows
  <1>3. /\ notes' \in [Pairs -> NoteRows]
        /\ \A k \in Pairs, n \in Ids : notes'[k][n] \in {notes[k][n], NoRow}
        /\ \A d \in Checkers \ {c}, k \in Pairs, n \in Ids :
             loaded[d][k][n] # NoRow /\ notes[k][n] # NoRow => notes'[k][n] # NoRow
    BY <1>1, <1>2, TrimmedRows
  <1>4. \A k \in Pairs, n \in Ids : rule[k[1]].state # "live" => notes'[k][n] = NoRow
    BY <1>0, <1>3 DEF Tables
  <1>5. \A d \in Checkers \ {c} : HeldRowsStay(d)
    BY <1>3 DEF HeldRowsStay
  <1>6. /\ hist' \in [Pairs -> History]
        /\ \A k \in Pairs : rule[k[1]].state = "new" => hist'[k].tries = 0 /\ hist'[k].sends = 0
    BY <1>0, <1>1 DEF TableTypes, Tables
  <1>7. QED
    BY <1>0, <1>1, <1>3, <1>4, <1>5, <1>6, AbortBudget, EndStep

-----------------------------------------------------------------------------
(* The rest of the system.                                                   *)

\* A step outside the runs.
LEMMA OutsideStep ==
  ASSUME AlertInv, UNCHANGED session, TableTypes', Findings(exposed)', TablesAge,
         \A d \in Checkers : HeldRowsStay(d),
         \A k \in Pairs, n \in Ids : rule'[k[1]].state # "live" => notes'[k][n] = NoRow,
         \A k \in Pairs : rule'[k[1]].state = "new" => hist'[k].tries = 0 /\ hist'[k].sends = 0
  PROVE  AlertInv'
  <1>1. SessionTypes'
    BY Types DEF SessionTypes, session
  <1>2. TypeOK'
    BY <1>1, TypesNext
  <1>3. Tables'
    BY DEF Tables, Findings
  <1>4. \A d \in Checkers : SameSession(d)
    BY DEF session, SameSession
  <1>5. \A d \in Checkers : RunInv(d)'
    BY <1>4, SameRun
  <1>6. QED
    BY <1>1, <1>2, <1>3, <1>5 DEF AlertInv, SessionTypes

LEMMA ExposeStep ==
  ASSUME AlertInv, NEW p \in Projects, NEW v \in Vulns, Expose(p, v)
  PROVE  AlertInv'
  <1>0. TableTypes /\ Findings(exposed) /\ Tables
    BY Types DEF AlertInv, Tables
  <1>1. PICK S \in SUBSET (ServicesOf[p] \cup {NoService}) : exposed' = [exposed EXCEPT ![p][v] = S]
    BY DEF Expose
  <1>2. /\ spent.exposures < MaxExposures /\ spent' = [spent EXCEPT !.exposures = @ + 1]
        /\ UNCHANGED <<rule, notes, session, hist>>
    BY DEF Expose
  <1>3. Findings(exposed)'
    BY <1>0, <1>1 DEF Findings
  <1>4. spent' \in Budget
    BY <1>0, <1>2, BudgetFields, AlertAssumption DEF TableTypes, Budget
  <1>5. TableTypes' /\ TablesAge /\ \A d \in Checkers : HeldRowsStay(d)
    BY <1>0, <1>2, <1>4 DEF TableTypes, TablesAge, HeldRowsStay
  <1>6. QED
    BY <1>0, <1>2, <1>3, <1>5, OutsideStep DEF Tables

LEMMA RuleStep ==
  ASSUME AlertInv, NEW r \in Rules, CreateRule(r) \/ UpdateRule(r)
  PROVE  /\ AlertInv'
         /\ UNCHANGED <<exposed, notes, session, hist>>
         /\ spent'.aborts = spent.aborts /\ spent'.overlaps = spent.overlaps
         /\ rule[r].state \in {"new", "live"} /\ rule'[r].state = "live"
         /\ \A o \in Rules \ {r} : rule'[o] = rule[o]
  <1>0. TableTypes /\ Findings(exposed) /\ Tables /\ rule \in [Rules -> LiveRule \cup {NoRule, Gone}]
    BY Types DEF AlertInv, Tables, TableTypes
  <1>1. PICK row \in LiveRule : rule' = [rule EXCEPT ![r] = row]
    BY DEF CreateRule, UpdateRule
  <1>2. UNCHANGED <<exposed, notes, session, hist>> /\ rule[r].state \in {"new", "live"}
    BY DEF CreateRule, UpdateRule
  <1>3. spent' \in Budget /\ spent'.aborts = spent.aborts /\ spent'.overlaps = spent.overlaps
    <2>1. CASE CreateRule(r)
      BY <1>0, <2>1 DEF CreateRule, TableTypes
    <2>2. CASE UpdateRule(r)
      <3>1. spent.updates < MaxUpdates /\ spent' = [spent EXCEPT !.updates = @ + 1] /\ spent \in Budget
        BY <1>0, <2>2 DEF UpdateRule, TableTypes
      <3>2. QED
        BY <1>0, <3>1, BudgetFields, AlertAssumption DEF Budget
    <2>3. QED
      BY <2>1, <2>2
  <1>4. /\ rule'[r].state = "live" /\ \A o \in Rules \ {r} : rule'[o] = rule[o]
        /\ rule' \in [Rules -> LiveRule \cup {NoRule, Gone}]
    BY <1>0, <1>1, RuleStates
  <1>5. TableTypes' /\ Findings(exposed)' /\ TablesAge /\ \A d \in Checkers : HeldRowsStay(d)
    BY <1>0, <1>2, <1>3, <1>4 DEF TableTypes, TablesAge, HeldRowsStay, Findings
  <1>6. \A k \in Pairs, n \in Ids : rule'[k[1]].state # "live" => notes'[k][n] = NoRow
    BY <1>0, <1>2, <1>4, PairParts DEF Tables
  <1>7. \A k \in Pairs : rule'[k[1]].state = "new" => hist'[k].tries = 0 /\ hist'[k].sends = 0
    BY <1>0, <1>2, <1>4, PairParts DEF Tables
  <1>8. UNCHANGED session
    BY <1>2
  <1>9. QED
    BY <1>2, <1>3, <1>4, <1>5, <1>6, <1>7, <1>8, OutsideStep

LEMMA DeleteStep ==
  ASSUME AlertInv, NEW r \in Rules, DeleteRule(r)
  PROVE  /\ AlertInv'
         /\ UNCHANGED <<session, hist, spent>>
         /\ rule'[r].state = "deleted" /\ \A o \in Rules \ {r} : rule'[o] = rule[o]
         /\ \A k \in Pairs : k[1] # r => notes'[k] = notes[k]
         /\ \A k \in Pairs, n \in Ids : k[1] = r => notes'[k][n] = NoRow
  <1>0. TableTypes /\ Findings(exposed) /\ Tables /\ rule \in [Rules -> LiveRule \cup {NoRule, Gone}]
        /\ notes \in [Pairs -> NoteRows]
    BY Types DEF AlertInv, Tables, TableTypes
  <1>1. /\ rule' = [rule EXCEPT ![r] = Gone] /\ rule[r].state = "live"
        /\ notes' = [k \in Pairs |-> IF k[1] = r THEN NoRows[k] ELSE notes[k]]
        /\ UNCHANGED <<exposed, session, spent, hist>>
    BY DEF DeleteRule
  <1>2. /\ rule'[r] = Gone /\ \A o \in Rules \ {r} : rule'[o] = rule[o]
        /\ rule' \in [Rules -> LiveRule \cup {NoRule, Gone}]
    BY <1>0, <1>1
  <1>3. /\ \A k \in Pairs : k[1] # r => notes'[k] = notes[k]
        /\ \A k \in Pairs, n \in Ids : k[1] = r => notes'[k][n] = NoRow
        /\ notes' \in [Pairs -> NoteRows]
    BY <1>0, <1>1, Empty
  <1>4. TableTypes' /\ Findings(exposed)' /\ TablesAge /\ \A d \in Checkers : HeldRowsStay(d)
    <2>1. TablesAge
      BY <1>1, <1>2, RuleStates DEF TablesAge
    <2>2. \A d \in Checkers : HeldRowsStay(d)
      BY <1>2, <1>3, RuleStates DEF HeldRowsStay
    <2>3. QED
      BY <1>0, <1>1, <1>2, <1>3, <2>1, <2>2 DEF TableTypes, Findings
  <1>5. \A k \in Pairs, n \in Ids : rule'[k[1]].state # "live" => notes'[k][n] = NoRow
    BY <1>0, <1>2, <1>3, PairParts DEF Tables
  <1>6. \A k \in Pairs : rule'[k[1]].state = "new" => hist'[k].tries = 0 /\ hist'[k].sends = 0
    BY <1>0, <1>1, <1>2, RuleStates, PairParts DEF Tables
  <1>7. UNCHANGED session
    BY <1>1
  <1>8. QED
    BY <1>1, <1>2, <1>3, <1>4, <1>5, <1>6, <1>7, RuleStates, OutsideStep

LEMMA AlertStep == AlertInv /\ [Next]_vars => AlertInv'
  <1> SUFFICES ASSUME AlertInv, [Next]_vars PROVE AlertInv'
    OBVIOUS
  <1>1. CASE UNCHANGED vars
    <2>1. UNCHANGED session /\ UNCHANGED <<exposed, rule, notes, spent, hist>>
      BY <1>1 DEF vars, session
    <2>2. TableTypes' /\ Findings(exposed)' /\ TablesAge /\ \A d \in Checkers : HeldRowsStay(d)
      BY <2>1, Types DEF TableTypes, TablesAge, HeldRowsStay, Findings, AlertInv, Tables
    <2>3. QED
      BY <2>1, <2>2, OutsideStep DEF AlertInv, Tables
  <1>2. ASSUME NEW c \in Checkers, Start(c) \/ Step(c) \/ Crash(c) PROVE AlertInv'
    BY <1>2, StartStep, ReadRulesStep, LoadStep, FlushStep, VisitsStep, CommitStep, AbortStep DEF Step
  <1>3. ASSUME NEW p \in Projects, NEW v \in Vulns, Expose(p, v) PROVE AlertInv'
    BY <1>3, ExposeStep
  <1>4. ASSUME NEW r \in Rules, CreateRule(r) \/ UpdateRule(r) \/ DeleteRule(r) PROVE AlertInv'
    BY <1>4, RuleStep, DeleteStep
  <1>5. QED
    BY <1>1, <1>2, <1>3, <1>4 DEF Next

LEMMA AlertInvHolds == Spec => []AlertInv
  BY AlertInit, AlertStep, PTL DEF Spec

-----------------------------------------------------------------------------
(* Until two runs overlap: what has been counted.                            *)

LEMMA HistoryFields ==
  ASSUME TableTypes, NEW k \in Pairs
  PROVE  hist[k].tries \in Nat /\ hist[k].sends \in Nat
  BY DEF TableTypes, History

\* Nothing tried or sent fits any rows.
LEMMA FreshFits ==
  ASSUME NEW rows \in NoteRows, NEW h, h.tries = 0, h.sends = 0, NEW a \in Nat
  PROVE  Fits(rows, NoRow, h, a) /\ Bounded(rows, h, a)
  <1>1. \A n \in Ids : rows[n].attempts \in Nat
    BY RowFields DEF NoteRows
  <1>2. h.sends # 1 + a /\ NoRow.status = "none"
    BY NoRowFields
  <1>3. Fits(rows, NoRow, h, a)
    BY <1>1, <1>2 DEF Fits
  <1>4. Bounded(rows, h, a)
    BY <1>1, AlertAssumption DEF Bounded
  <1>5. QED
    BY <1>3, <1>4

\* What a lost run leaves behind fits the rows it found, one abort later.
LEMMA LostFits ==
  ASSUME NEW rows \in NoteRows, \A n \in Ids : rows[n].status # "resolved",
         NEW h, h.tries \in Nat, h.sends \in Nat, NEW a \in Nat, Bounded(rows, h, a)
  PROVE  Fits(rows, NoRow, h, a + 1) /\ Bounded(rows, h, a + 1)
  <1>1. \A n \in Ids : rows[n].attempts \in Nat
    BY RowFields DEF NoteRows
  <1>2. NoRow.status = "none"
    BY NoRowFields
  <1>3. Bounded(rows, h, a + 1)
    BY <1>1, AlertAssumption DEF Bounded
  <1>4. Fits(rows, NoRow, h, a + 1)
    BY <1>1, <1>2 DEF Fits, Bounded
  <1>5. QED
    BY <1>3, <1>4

\* A run that holds nothing decides nothing.
LEMMA BareRun ==
  AlertInv => \A c \in Checkers, k \in Pairs :
    pc[c] \notin {"flush", "send"} => Copies(c, k) /\ ~Decides(c, k)
  <1> SUFFICES ASSUME AlertInv, NEW c \in Checkers, NEW k \in Pairs, pc[c] \notin {"flush", "send"}
               PROVE  Copies(c, k) /\ ~Decides(c, k)
    OBVIOUS
  <1>1. RunInv(c) /\ NoRow.status = "none"
    BY NoRowFields DEF AlertInv
  <1>2. added[c][k] = NoRow /\ todo[c] = {} /\ \A n \in Ids : loaded[c][k][n] = NoRow /\ existing[c][k][n] = NoRow
    BY <1>1 DEF RunInv
  <1>3. QED
    BY <1>1, <1>2 DEF Copies, Decides

LEMMA BareRunNext ==
  ASSUME AlertInv', NEW c \in Checkers, NEW k \in Pairs, pc'[c] \notin {"flush", "send"}
  PROVE  Copies(c, k)' /\ ~Decides(c, k)'
  <1>1. RunInv(c)' /\ NoRow.status = "none"
    BY NoRowFields DEF AlertInv
  <1>2. /\ added'[c][k] = NoRow /\ todo'[c] = {}
        /\ \A n \in Ids : loaded'[c][k][n] = NoRow /\ existing'[c][k][n] = NoRow
    BY <1>1 DEF RunInv
  <1>3. QED
    BY <1>1, <1>2 DEF Copies, Decides

\* A step of the one run that is active.
LEMMA SoleStep ==
  ASSUME AlertInv, AlertInv', Alone, NEW c \in Checkers, pc[c] # "idle",
         \A d \in Checkers \ {c} : SameSession(d),
         \A k \in Pairs :
           /\ Single(k)' /\ Copies(c, k)'
           /\ rule'[k[1]].state = "live" =>
                /\ Bounded(notes'[k], hist'[k], spent'.aborts)
                /\ Decides(c, k)' => Fits(existing'[c][k], added'[c][k], hist'[k], spent'.aborts)
                /\ ~Decides(c, k)' => Fits(notes'[k], NoRow, hist'[k], spent'.aborts)
  PROVE  Sequential'
  <1>1. \A d \in Checkers \ {c} : pc'[d] = "idle"
    BY DEF Alone, SameSession
  <1>2. Alone'
    BY <1>1 DEF Alone
  <1>3. \A d \in Checkers \ {c}, k \in Pairs : Copies(d, k)' /\ ~Decides(d, k)'
    BY <1>1, BareRunNext
  <1>4. ASSUME NEW k \in Pairs PROVE Exact(k)'
    <2>1. Counts(k)'
      BY <1>3 DEF Counts
    <2>2. QED
      BY <1>3, <2>1 DEF Exact
  <1>5. QED
    BY <1>2, <1>4 DEF Sequential

\* What a run that is deciding finds before its step.
LEMMA SoleBefore ==
  ASSUME Sequential, spent.overlaps = 0, NEW c \in Checkers, pc[c] # "idle", NEW k \in Pairs
  PROVE  /\ Alone /\ Single(k) /\ Copies(c, k)
         /\ rule[k[1]].state = "live" =>
              /\ Bounded(notes[k], hist[k], spent.aborts)
              /\ Decides(c, k) => Fits(existing[c][k], added[c][k], hist[k], spent.aborts)
              /\ ~Decides(c, k) => Fits(notes[k], NoRow, hist[k], spent.aborts)
  <1>1. Alone /\ Exact(k)
    BY DEF Sequential
  <1>2. \A d \in Checkers \ {c} : ~Decides(d, k)
    BY <1>1 DEF Alone, Decides
  <1>3. QED
    BY <1>1, <1>2 DEF Exact, Counts

-----------------------------------------------------------------------------
(* Until two runs overlap: the steps of a run.                               *)

LEMMA SequentialInit == Init => Sequential
  <1> SUFFICES ASSUME Init PROVE Alone /\ \A k \in Pairs : Exact(k)
    BY DEF Sequential
  <1>0. AlertInv
    BY AlertInit
  <1>1. \A c \in Checkers : pc[c] = "idle"
    BY DEF Init
  <1>2. Alone
    BY <1>1 DEF Alone
  <1>3. ASSUME NEW k \in Pairs PROVE Exact(k)
    <2>1. Single(k)
      <3>1. \A n \in Ids : notes[k][n] = NoRow
        BY Empty DEF Init
      <3>2. QED
        BY <3>1, NoRowFields DEF Single
    <2>2. \A c \in Checkers : Copies(c, k)
      BY <1>0, <1>1, BareRun
    <2>3. Counts(k)
      BY Empty, RuleStates, PairParts DEF Init, Counts
    <2>4. QED
      BY <2>1, <2>2, <2>3 DEF Exact
  <1>4. QED
    BY <1>2, <1>3

LEMMA StartSequential ==
  ASSUME AlertInv, AlertInv', Sequential, NEW c \in Checkers, Start(c)
  PROVE  Sequential'
  <1> SUFFICES ASSUME spent'.overlaps = 0 PROVE Alone' /\ \A k \in Pairs : Exact(k)'
    BY DEF Sequential
  <1>1. (\A d \in Checkers : pc[d] = "idle") /\ spent' = spent
    BY StartBudget
  <1>2. /\ pc'[c] = "rules" /\ \A d \in Checkers \ {c} : pc'[d] = "idle"
        /\ UNCHANGED <<rule, notes, hist>>
    BY <1>1, Types DEF Start, SessionTypes
  <1>3. Alone'
    BY <1>2, Zenon DEF Alone
  <1>4. ASSUME NEW k \in Pairs PROVE Exact(k)'
    <2>0. Exact(k)
      BY <1>1 DEF Sequential
    <2>1. \A d \in Checkers : pc'[d] \notin {"flush", "send"}
      BY <1>2
    <2>2. \A d \in Checkers : Copies(d, k)' /\ ~Decides(d, k)' /\ ~Decides(d, k)
      BY <1>1, <2>1, BareRunNext DEF Decides
    <2>3. Single(k)'
      BY <1>2, <2>0 DEF Exact, Single
    <2>4. Counts(k)'
      BY <1>1, <1>2, <2>0, <2>2 DEF Exact, Counts
    <2>5. QED
      BY <2>2, <2>3, <2>4 DEF Exact
  <1>5. QED
    BY <1>3, <1>4

LEMMA ReadRulesSequential ==
  ASSUME AlertInv, AlertInv', Sequential, spent.overlaps = 0, NEW c \in Checkers, ReadRules(c)
  PROVE  Sequential'
  <1>0. SessionTypes
    BY Types
  <1>1. pc[c] = "rules" /\ UNCHANGED <<rule, notes, hist, spent>>
    BY DEF ReadRules
  <1>2. pc'[c] \in {"idle", "load"} /\ \A d \in Checkers \ {c} : SameSession(d)
    <2>1. CASE Ends(c)
      BY <2>1, EndedRun
    <2>2. CASE ~Ends(c)
      <3>1. PICK kept : alerts' = [alerts EXCEPT ![c] = kept]
        BY <2>2 DEF ReadRules
      <3>2. pc' = [pc EXCEPT ![c] = "load"] /\ UNCHANGED <<seen, loaded, existing, added, todo>>
        BY <2>2 DEF ReadRules
      <3>3. QED
        BY <1>0, <3>1, <3>2 DEF SessionTypes, SameSession
    <2>3. QED
      BY <2>1, <2>2
  <1>3. ASSUME NEW k \in Pairs
        PROVE  /\ Single(k)' /\ Copies(c, k)'
               /\ rule'[k[1]].state = "live" =>
                    /\ Bounded(notes'[k], hist'[k], spent'.aborts)
                    /\ Decides(c, k)' => Fits(existing'[c][k], added'[c][k], hist'[k], spent'.aborts)
                    /\ ~Decides(c, k)' => Fits(notes'[k], NoRow, hist'[k], spent'.aborts)
    <2>1. Copies(c, k)' /\ ~Decides(c, k)' /\ ~Decides(c, k)
      BY <1>1, <1>2, BareRunNext DEF Decides
    <2>2. Single(k)'
      BY <1>1, SoleBefore DEF Single
    <2>3. QED
      BY <1>1, <2>1, <2>2, SoleBefore
  <1>4. Alone
    BY DEF Sequential
  <1>5. QED
    BY <1>1, <1>2, <1>3, <1>4, SoleStep

LEMMA LoadSequential ==
  ASSUME AlertInv, AlertInv', Sequential, spent.overlaps = 0, NEW c \in Checkers, Load(c)
  PROVE  Sequential'
  <1>0. SessionTypes /\ TableTypes /\ RunInv(c) /\ Alone
    BY Types DEF AlertInv, Sequential
  <1>1. pc[c] = "load" /\ pc'[c] = "flush" /\ UNCHANGED <<rule, notes, hist, spent, seen, alerts, added, todo>>
    BY LoadedRows DEF Load
  <1>2. \A d \in Checkers \ {c} : SameSession(d)
    BY <1>0 DEF Load, SessionTypes, SameSession
  <1>3. ASSUME NEW k \in Pairs
        PROVE  /\ Single(k)' /\ Copies(c, k)'
               /\ rule'[k[1]].state = "live" =>
                    /\ Bounded(notes'[k], hist'[k], spent'.aborts)
                    /\ Decides(c, k)' => Fits(existing'[c][k], added'[c][k], hist'[k], spent'.aborts)
                    /\ ~Decides(c, k)' => Fits(notes'[k], NoRow, hist'[k], spent'.aborts)
    <2>0. Single(k)
      BY <1>1, SoleBefore
    <2>1. /\ (Reads(c, k[1])' <=> Reads(c, k[1])) /\ Where(c, k)' = Where(c, k)
          /\ added'[c][k] = NoRow /\ todo'[c] = {} /\ ~Decides(c, k)
      BY <1>0, <1>1 DEF Reads, Where, RunInv, Decides
    <2>2. \A n \in Ids : notes[k][n] \in Row \cup {NoRow}
      BY <1>0 DEF TableTypes, NoteRows
    <2>3. ASSUME NEW n \in Ids
          PROVE  /\ loaded'[c][k][n] = IF Reads(c, k[1]) THEN notes[k][n] ELSE NoRow
                 /\ Where(c, k) # {} => existing'[c][k][n] = loaded'[c][k][n]
                 /\ Where(c, k) = {} => existing'[c][k][n].status \in {"none", "resolved"}
      <3>1. notes[k][n].status \in Active \/ notes[k][n] = NoRow
        BY <2>0, <2>2, RowFields DEF Single, Active
      <3>2. QED
        BY <3>1, LoadedRows, NoRowFields
    <2>4. Copies(c, k)'
      <3>1. \A n \in Ids : existing'[c][k][n].status = "sent" => existing'[c][k][n].services \in hist[k].told
        BY <2>0, <2>3, NoRowFields DEF Single
      <3>2. QED
        BY <1>1, <2>1, <2>3, <3>1, NoRowFields DEF Copies
    <2>5. Single(k)'
      BY <1>1, <2>0 DEF Single
    <2>6. Decides(c, k)' => existing'[c][k] = notes'[k]
      <3>1. Decides(c, k)' => Reads(c, k[1]) /\ Where(c, k) # {}
        BY <2>1 DEF Decides
      <3>2. existing'[c][k] \in NoteRows /\ notes[k] \in NoteRows
        BY <1>0, LoadedRows DEF SessionTypes, TableTypes
      <3>3. Decides(c, k)' => \A n \in Ids : existing'[c][k][n] = notes[k][n]
        BY <2>3, <3>1
      <3>4. QED
        BY <1>1, <3>2, <3>3 DEF NoteRows
    <2>7. QED
      BY <1>1, <2>1, <2>4, <2>5, <2>6, SoleBefore
  <1>4. QED
    BY <1>0, <1>1, <1>2, <1>3, SoleStep

LEMMA FlushSequential ==
  ASSUME AlertInv, AlertInv', Sequential, spent.overlaps = 0, NEW c \in Checkers, FlushResolved(c)
  PROVE  Sequential'
  <1>0. SessionTypes /\ RunInv(c) /\ Alone
    BY Types DEF AlertInv, Sequential
  <1>1. /\ UNCHANGED <<rule, notes, hist, spent, seen, alerts, loaded, existing, added>>
        /\ pc[c] = "flush" /\ pc'[c] = "send" /\ todo'[c] = Due(c)
    BY <1>0 DEF FlushResolved, SessionTypes
  <1>2. \A d \in Checkers \ {c} : SameSession(d)
    BY <1>0 DEF FlushResolved, SessionTypes, SameSession
  <1>3. ASSUME NEW k \in Pairs
        PROVE  /\ Single(k)' /\ Copies(c, k)'
               /\ rule'[k[1]].state = "live" =>
                    /\ Bounded(notes'[k], hist'[k], spent'.aborts)
                    /\ Decides(c, k)' => Fits(existing'[c][k], added'[c][k], hist'[k], spent'.aborts)
                    /\ ~Decides(c, k)' => Fits(notes'[k], NoRow, hist'[k], spent'.aborts)
    <2>1. /\ (Reads(c, k[1])' <=> Reads(c, k[1])) /\ Where(c, k)' = Where(c, k)
          /\ added[c][k] = NoRow
      BY <1>0, <1>1 DEF Reads, Where, RunInv
    <2>2. Decides(c, k)' <=> Decides(c, k)
      BY <1>1, <2>1 DEF Decides
    <2>3. k \in todo'[c] => Where(c, k) # {}
      BY <1>1 DEF Due
    <2>4. Copies(c, k) /\ Single(k)
      BY <1>1, SoleBefore
    <2>5. Copies(c, k)'
      BY <1>1, <2>1, <2>3, <2>4 DEF Copies
    <2>6. Single(k)'
      BY <1>1, <2>4 DEF Single
    <2>7. QED
      BY <1>1, <2>2, <2>5, <2>6, SoleBefore
  <1>4. QED
    BY <1>0, <1>1, <1>2, <1>3, SoleStep

\* A visit of k leaves rows and row, and hist'[k] counts what was tried and sent.
Leaves(c, k, rows, row) ==
  /\ Visits(c, k)
  /\ existing' = [existing EXCEPT ![c][k] = rows] /\ added' = [added EXCEPT ![c][k] = row]

Accounted(k, rows, row) ==
  /\ \A o \in Pairs \ {k} : hist'[o] = hist[o]
  /\ hist[k].told \subseteq hist'[k].told
  /\ row.status # "resolved" /\ (row.status = "sent" => row.services \in hist'[k].told)
  /\ \A n \in Ids :
       /\ rows[n].status = "sent" => rows[n].services \in hist'[k].told
       /\ row # NoRow => rows[n].status \in {"none", "resolved"}
  /\ rule[k[1]].state = "live" =>
       Bounded(notes[k], hist'[k], spent.aborts) /\ Fits(rows, row, hist'[k], spent.aborts)

LEMMA VisitSequential ==
  ASSUME AlertInv, AlertInv', Sequential, spent.overlaps = 0,
         NEW c \in Checkers, NEW k \in Pairs, NEW rows, NEW row,
         Leaves(c, k, rows, row), Accounted(k, rows, row)
  PROVE  Sequential'
  <1>0. SessionTypes /\ Alone
    BY Types DEF Sequential
  <1>1. /\ k \in todo[c] /\ todo' = [todo EXCEPT ![c] = todo[c] \ {k}]
        /\ UNCHANGED <<exposed, rule, notes, pc, seen, alerts, loaded, spent>>
    BY DEF Leaves, Visits
  <1>2. pc[c] = "send" /\ Reads(c, k[1]) /\ Where(c, k) # {} /\ Decides(c, k)
    BY <1>1, VisitedPair DEF Decides
  <1>3. \A d \in Checkers \ {c} : SameSession(d)
    BY <1>0, <1>1 DEF Leaves, SessionTypes, SameSession
  <1>4. /\ existing'[c][k] = rows /\ added'[c][k] = row /\ todo'[c] = todo[c] \ {k}
        /\ \A o \in Pairs \ {k} : existing'[c][o] = existing[c][o] /\ added'[c][o] = added[c][o]
    BY <1>0, <1>1 DEF Leaves, SessionTypes
  <1>5. \A o \in Pairs : /\ Reads(c, o[1])' <=> Reads(c, o[1])
                         /\ Where(c, o)' = Where(c, o)
                         /\ Decides(c, o)' <=> Decides(c, o)
    BY <1>1 DEF Reads, Where, Decides
  <1>6. ASSUME NEW o \in Pairs
        PROVE  /\ Single(o)' /\ Copies(c, o)'
               /\ rule'[o[1]].state = "live" =>
                    /\ Bounded(notes'[o], hist'[o], spent'.aborts)
                    /\ Decides(c, o)' => Fits(existing'[c][o], added'[c][o], hist'[o], spent'.aborts)
                    /\ ~Decides(c, o)' => Fits(notes'[o], NoRow, hist'[o], spent'.aborts)
    <2>1. Single(o) /\ Copies(c, o)
      BY <1>2, SoleBefore
    <2>2. hist[o].told \subseteq hist'[o].told
      BY DEF Accounted
    <2>3. Single(o)'
      BY <1>1, <2>1, <2>2 DEF Single
    <2>4. CASE o = k
      <3>1. Copies(c, k)'
        BY <1>1, <1>2, <1>4, <1>5, <2>1, <2>4 DEF Copies, Accounted
      <3>2. QED
        BY <1>1, <1>2, <1>4, <1>5, <2>3, <2>4, <3>1 DEF Accounted
    <2>5. CASE o # k
      <3>1. existing'[c][o] = existing[c][o] /\ added'[c][o] = added[c][o] /\ hist'[o] = hist[o]
            /\ (o \in todo'[c] <=> o \in todo[c])
        BY <1>4, <2>5 DEF Accounted
      <3>2. Copies(c, o)'
        BY <1>1, <1>5, <2>1, <3>1 DEF Copies
      <3>3. QED
        BY <1>1, <1>2, <1>5, <2>3, <3>1, <3>2, SoleBefore
    <2>6. QED
      BY <2>4, <2>5
  <1>7. QED
    BY <1>0, <1>2, <1>3, <1>6, SoleStep

LEMMA SkipSequential ==
  ASSUME AlertInv, AlertInv', Sequential, spent.overlaps = 0,
         NEW c \in Checkers, NEW k \in Pairs, Skip(c, k)
  PROVE  Sequential'
  <1>0. SessionTypes
    BY Types
  <1>1. Visits(c, k) /\ existing' = existing /\ added' = added /\ hist' = hist
    BY DEF Skip
  <1>2. existing' = [existing EXCEPT ![c][k] = existing[c][k]] /\ added' = [added EXCEPT ![c][k] = added[c][k]]
    BY <1>0, <1>1 DEF SessionTypes
  <1>3. Decides(c, k) /\ pc[c] # "idle"
    BY <1>1, VisitedPair DEF Visits, Decides
  <1>4. Copies(c, k)
    BY <1>3, SoleBefore
  <1>5. rule[k[1]].state = "live" =>
          Bounded(notes[k], hist'[k], spent.aborts) /\ Fits(existing[c][k], added[c][k], hist'[k], spent.aborts)
    BY <1>1, <1>3, SoleBefore
  <1>6. /\ added[c][k].status # "resolved"
        /\ added[c][k].status = "sent" => added[c][k].services \in hist'[k].told
        /\ \A n \in Ids : /\ existing[c][k][n].status = "sent" => existing[c][k][n].services \in hist'[k].told
                          /\ added[c][k] # NoRow => existing[c][k][n].status \in {"none", "resolved"}
    BY <1>1, <1>4 DEF Copies
  <1>7. hist[k].told \subseteq hist'[k].told /\ \A o \in Pairs \ {k} : hist'[o] = hist[o]
    BY <1>1
  <1>8. Leaves(c, k, existing[c][k], added[c][k])
    BY <1>1, <1>2 DEF Leaves
  <1>9. Accounted(k, existing[c][k], added[c][k])
    BY <1>5, <1>6, <1>7 DEF Accounted
  <1>10. QED
    BY <1>8, <1>9, VisitSequential

\* How a send is counted: a resend afresh, a delivery on top of what was counted.
LEMMA ToldSends ==
  ASSUME TableTypes, NEW k \in Pairs, NEW fresh \in BOOLEAN, NEW success \in BOOLEAN, NEW S \in Scopes,
         Tell(k, fresh, success, S)
  PROVE  /\ \A o \in Pairs \ {k} : hist'[o] = hist[o]
         /\ hist[k].told \subseteq hist'[k].told /\ (success => S \in hist'[k].told)
         /\ fresh /\ success => hist'[k].sends = 1 /\ hist'[k].tries = 0
         /\ fresh /\ ~success => hist'[k].sends = 0 /\ hist'[k].tries = 1
         /\ ~fresh /\ success => hist'[k].sends = hist[k].sends + 1 /\ hist'[k].tries = hist[k].tries
         /\ ~fresh /\ ~success => hist'[k].sends = hist[k].sends /\ hist'[k].tries = hist[k].tries + 1
  <1>0. hist[k].tries \in Nat /\ hist[k].sends \in Nat
    BY HistoryFields
  <1>1. /\ \A o \in Pairs \ {k} : hist'[o] = hist[o]
        /\ hist'[k].told = IF success THEN hist[k].told \cup {S} ELSE hist[k].told
        /\ hist'[k].sends = (IF fresh THEN 0 ELSE hist[k].sends) + (IF success THEN 1 ELSE 0)
        /\ hist'[k].tries = (IF fresh THEN 0 ELSE hist[k].tries) + (IF success THEN 0 ELSE 1)
    BY ToldRow
  <1>2. hist[k].told \subseteq hist'[k].told /\ (success => S \in hist'[k].told)
    BY <1>1
  <1>3. QED
    BY <1>0, <1>1, <1>2

LEMMA ResendSequential ==
  ASSUME AlertInv, AlertInv', Sequential, spent.overlaps = 0,
         NEW c \in Checkers, NEW k \in Pairs, NEW success \in BOOLEAN, Resend(c, k, success)
  PROVE  Sequential'
  <1> DEFINE rows == Superseded(existing[c][k])
             row == Outcome(success, 1, Current(c, k))
             S == Current(c, k)
  <1>0. TableTypes /\ spent.aborts \in Nat
    BY Types, BudgetFields
  <1>1. row \in Row /\ existing[c][k] \in NoteRows /\ Revises(c, k, rows, row, TRUE, success)
    BY ResendRows
  <1>2. /\ Visits(c, k) /\ S \in Scopes /\ Tell(k, TRUE, success, S)
        /\ existing' = [existing EXCEPT ![c][k] = rows] /\ added' = [added EXCEPT ![c][k] = row]
    BY <1>1 DEF Revises
  <1>3. /\ row.services = S
        /\ success => row.status = "sent"
        /\ ~success => row.status = "failed" /\ row.attempts = 1
    BY <1>2, FirstOutcomeRow, Zenon
  <1>4. \A n \in Ids : rows[n].status \in {"none", "resolved"}
    BY <1>1, SupersededRows
  <1> HIDE DEF row, rows, S
  <1>5. /\ \A o \in Pairs \ {k} : hist'[o] = hist[o]
        /\ hist[k].told \subseteq hist'[k].told /\ (success => S \in hist'[k].told)
        /\ success => hist'[k].sends = 1 /\ hist'[k].tries = 0
        /\ ~success => hist'[k].sends = 0 /\ hist'[k].tries = 1
    <2>1. PICK fresh \in BOOLEAN : fresh = TRUE
      OBVIOUS
    <2>2. Tell(k, fresh, success, S) /\ fresh
      BY <1>2, <2>1, Zenon
    <2>3. QED
      BY <1>0, <1>2, <2>2, ToldSends
  <1>6. \/ /\ row.status = "sent" /\ row.services \in hist'[k].told
           /\ hist'[k].sends = 1 /\ hist'[k].tries = 0
        \/ /\ row.status = "failed" /\ row.attempts = 1
           /\ hist'[k].sends = 0 /\ hist'[k].tries = 1
    BY <1>3, <1>5, Zenon
  <1>7. Fits(rows, row, hist'[k], spent.aborts)
    BY <1>0, <1>4, <1>6 DEF Fits
  <1>8. Bounded(notes[k], hist'[k], spent.aborts)
    <2>1. \A n \in Ids : notes[k][n].attempts \in Nat
      BY <1>0, RowFields DEF TableTypes, NoteRows
    <2>2. QED
      BY <1>0, <1>6, <2>1, AlertAssumption DEF Bounded
  <1>9. /\ row.status # "resolved" /\ (row.status = "sent" => row.services \in hist'[k].told)
        /\ \A n \in Ids : rows[n].status # "sent"
    BY <1>4, <1>6
  <1>10. Leaves(c, k, rows, row) /\ Accounted(k, rows, row)
    BY <1>2, <1>4, <1>5, <1>7, <1>8, <1>9 DEF Leaves, Accounted
  <1>11. QED
    BY <1>10, VisitSequential

LEMMA DeliverSequential ==
  ASSUME AlertInv, AlertInv', Sequential, spent.overlaps = 0,
         NEW c \in Checkers, NEW k \in Pairs, NEW success \in BOOLEAN, Deliver(c, k, success)
  PROVE  Sequential'
  <1> DEFINE old == existing[c][k]
             row == Made(c, k, success)
             made == Flipped(old, row)
             new == Fresh(old, row)
             S == Current(c, k)
             A == Attempts(old)
             a == spent.aborts
             h == hist[k]
             g == hist'[k]
  <1>0. TableTypes /\ a \in Nat /\ h.tries \in Nat /\ h.sends \in Nat
    BY Types, BudgetFields, HistoryFields
  <1>1. /\ old \in NoteRows /\ row \in Row
        /\ Revises(c, k, made, new, FALSE, success)
        /\ DeliveryActions(old, S) \cap {"deliver", "retry"} # {}
    BY DeliverRows
  <1>2. /\ Visits(c, k) /\ S \in Scopes /\ Tell(k, FALSE, success, S)
        /\ existing' = [existing EXCEPT ![c][k] = made] /\ added' = [added EXCEPT ![c][k] = new]
    BY <1>1 DEF Revises
  <1>3. /\ A \in 1 .. MaxAttempts
        /\ \A n \in Ids : old[n].status = "failed" => old[n].attempts + 1 <= A
    BY <1>1, AttemptsBound DEF RowsOf
  <1>4. /\ row.services = S
        /\ success => row.status = "sent"
        /\ ~success => row.status = "failed" /\ row.attempts = A
    BY <1>2, <1>3, OutcomeRow DEF Made
  <1>5. /\ \A n \in Ids : made[n] = IF old[n].status = "failed" THEN row ELSE old[n]
        /\ new = IF \E n \in Ids : old[n].status = "failed" THEN NoRow ELSE row
    <2>1. RowsOf(old, "failed") = {} <=> ~ \E n \in Ids : old[n].status = "failed"
      BY DEF RowsOf
    <2>2. QED
      BY <1>1, <2>1, FlippedRows DEF Fresh
  <1>6. Decides(c, k) /\ pc[c] # "idle" /\ Where(c, k) # {} /\ Reads(c, k[1]) /\ pc[c] = "send" /\ k \in todo[c]
    BY <1>2, VisitedPair DEF Visits, Decides
  <1>7. /\ added[c][k] = NoRow
        /\ \A n \in Ids : /\ old[n].status # "sent"
                          /\ old[n].attempts \in Nat
                          /\ old[n].status \in {"none", "failed", "resolved"}
    <2>1. Copies(c, k)
      BY <1>6, SoleBefore
    <2>2. \A n \in Ids : /\ old[n].attempts \in Nat
                         /\ old[n].status \in {"none", "sent", "failed", "resolved"}
      BY <1>1, RowFields DEF NoteRows
    <2>3. QED
      BY <1>1, <1>6, <2>1, <2>2, Undelivered DEF Copies
  <1>8. rule[k[1]].state = "live" => /\ Bounded(notes[k], h, a) /\ Fits(old, NoRow, h, a)
                                     /\ \A n \in Ids : notes[k][n] = old[n]
    <2>1. Copies(c, k)
      BY <1>6, SoleBefore
    <2>2. rule[k[1]].state = "live" => Bounded(notes[k], h, a) /\ Fits(old, added[c][k], h, a)
      BY <1>6, SoleBefore
    <2>3. rule[k[1]].state = "live" => \A n \in Ids : notes[k][n] = old[n]
      BY <1>6, <2>1 DEF Copies
    <2>4. QED
      BY <1>7, <2>2, <2>3
  <1>9. /\ \A o \in Pairs \ {k} : hist'[o] = hist[o]
        /\ h.told \subseteq g.told /\ (success => S \in g.told)
        /\ success => g.sends = h.sends + 1 /\ g.tries = h.tries
        /\ ~success => g.sends = h.sends /\ g.tries = h.tries + 1
    <2>1. PICK fresh \in BOOLEAN : fresh = FALSE
      OBVIOUS
    <2>2. Tell(k, fresh, success, S) /\ ~fresh
      BY <1>2, <2>1, Zenon
    <2> HIDE DEF S
    <2>3. QED
      BY <1>0, <1>2, <2>2, ToldSends
  <1> HIDE DEF old, row, made, new, S, A, a, h, g
  <1>10. \/ /\ row.status = "sent" /\ row.services \in g.told
            /\ g.sends = h.sends + 1 /\ g.tries = h.tries
         \/ /\ row.status = "failed" /\ row.attempts = A
            /\ g.sends = h.sends /\ g.tries = h.tries + 1
    BY <1>4, <1>9, Zenon
  <1>11. ASSUME Bounded(notes[k], h, a), Fits(old, NoRow, h, a), \A n \in Ids : notes[k][n] = old[n]
         PROVE  Bounded(notes[k], g, a) /\ Fits(made, new, g, a)
    <2>1. /\ h.sends <= a
          /\ \A n \in Ids : old[n].status = "failed" => h.tries <= a + old[n].attempts
          /\ (\A n \in Ids : old[n].status # "failed") => h.tries <= a
      <3>1. h.sends <= 1 + a /\ h.sends # 1 + a
        BY <1>7, <1>11, NoRowFields DEF Bounded, Fits
      <3>2. (\A n \in Ids : old[n].status # "failed") => \A n \in Ids : old[n].status \in {"none", "resolved"}
        BY <1>7
      <3>3. QED
        BY <1>0, <1>11, <3>1, <3>2, NoRowFields DEF Fits
    <2>2. h.tries + 1 <= a + A
      <3>1. CASE \A n \in Ids : old[n].status # "failed"
        BY <1>0, <1>3, <2>1, <3>1
      <3>2. CASE \E n \in Ids : old[n].status = "failed"
        <4>1. PICK n \in Ids : old[n].status = "failed"
          BY <3>2
        <4>2. h.tries <= a + old[n].attempts /\ old[n].attempts + 1 <= A /\ old[n].attempts \in Nat
          BY <1>3, <1>7, <2>1, <4>1
        <4>3. QED
          BY <1>0, <1>3, <4>2
      <3>3. QED
        BY <3>1, <3>2
    <2>3. g.sends <= 1 + a /\ g.tries <= h.tries + 1 /\ g.tries <= a + A
      BY <1>0, <1>10, <2>1, <2>2, <1>3
    <2>4. g.tries \in Nat /\ g.sends \in Nat
      BY <1>0, <1>10
    <2>5. Bounded(notes[k], g, a)
      <3>1. g.tries <= MaxAttempts + a
        BY <1>0, <1>3, <2>3, <2>4, AlertAssumption
      <3>2. \A n \in Ids : notes[k][n].status = "failed" => g.tries <= a + 1 + notes[k][n].attempts
        BY <1>0, <1>7, <1>11, <2>1, <2>3, <2>4
      <3>3. (\A n \in Ids : notes[k][n].status = "none") => g.tries <= a + 1
        BY <1>0, <1>11, <2>1, <2>3, <2>4
      <3>4. QED
        BY <2>3, <3>1, <3>2, <3>3 DEF Bounded
    <2>6. Fits(made, new, g, a)
      <3>1. CASE row.status = "sent"
        <4>1. new.status = "sent" \/ (new.status = "none" /\ \E n \in Ids : made[n].status = "sent")
          BY <1>5, <3>1, NoRowFields
        <4>2. \A n \in Ids : made[n].status # "failed"
          BY <1>5, <3>1
        <4>3. QED
          BY <4>1, <4>2 DEF Fits
      <3>2. CASE row.status = "failed"
        <4>1. row.attempts = A /\ g.sends = h.sends /\ g.sends # 1 + a
          BY <1>0, <1>10, <2>1, <3>2
        <4>2. \A n \in Ids : made[n].status = "failed" => g.tries <= a + made[n].attempts
          BY <1>5, <2>3, <4>1
        <4>3. new.status = "failed" => g.tries <= a + new.attempts
          BY <1>5, <2>3, <4>1, NoRowFields
        <4>4. ~(new.status = "none" /\ \A n \in Ids : made[n].status \in {"none", "resolved"})
          BY <1>5, <3>2
        <4>5. QED
          BY <4>1, <4>2, <4>3, <4>4 DEF Fits
      <3>3. QED
        BY <1>10, <3>1, <3>2
    <2>7. QED
      BY <2>5, <2>6
  <1>12. /\ new.status # "resolved" /\ (new.status = "sent" => new.services \in g.told)
         /\ \A n \in Ids : /\ made[n].status = "sent" => made[n].services \in g.told
                           /\ new # NoRow => made[n].status \in {"none", "resolved"}
    BY <1>5, <1>7, <1>10, NoRowFields
  <1>13. rule[k[1]].state = "live" => Bounded(notes[k], g, a) /\ Fits(made, new, g, a)
    BY <1>8, <1>11
  <1>14. Leaves(c, k, made, new)
    BY <1>2 DEF Leaves
  <1>15. Accounted(k, made, new)
    BY <1>9, <1>12, <1>13 DEF Accounted, g, h, a
  <1>16. QED
    BY <1>14, <1>15, VisitSequential

\* The other runs hold no row when the one that is active ends.
LEMMA NobodyHolds ==
  ASSUME AlertInv, Alone, NEW c \in Checkers, pc[c] # "idle", NEW d \in Checkers \ {c},
         NEW k \in Pairs, NEW n \in Ids
  PROVE  loaded[d][k][n] = NoRow
  <1>1. pc[d] = "idle" /\ RunInv(d)
    BY DEF Alone, AlertInv
  <1>2. QED
    BY <1>1 DEF RunInv

\* The rows a run leaves of a pair: what it has changed, less what is resolved, and what it adds.
LEMMA CommittedRows ==
  ASSUME AlertInv, Sequential, spent.overlaps = 0, NEW c \in Checkers, Commit(c),
         NEW k \in Pairs, rule[k[1]].state = "live"
  PROVE  /\ Reads(c, k[1]) /\ added[c][k] = NoRow =>
              \A n \in Ids : notes'[k][n] = IF existing[c][k][n].status = "resolved" THEN NoRow
                                            ELSE existing[c][k][n]
         /\ Reads(c, k[1]) /\ added[c][k] # NoRow =>
              \E n \in Ids : notes'[k][n] = added[c][k] /\ \A m \in Ids \ {n} : notes'[k][m] = NoRow
         /\ ~Reads(c, k[1]) => \A n \in Ids : notes'[k][n] = notes[k][n]
  <1>0. SessionTypes /\ RunInv(c) /\ pc[c] = "send" /\ ~Vanished(Changed(c))
    BY Types DEF AlertInv, Commit, Vanished
  <1>1. Alone /\ Single(k) /\ Copies(c, k)
    BY <1>0, SoleBefore
  <1>2. \A d \in Checkers \ {c}, n \in Ids : loaded[d][k][n] = NoRow
    BY <1>0, <1>1, NobodyHolds
  <1>3. /\ Written(c)[k] \in NoteRows /\ added[c][k] \in Row \cup {NoRow}
        /\ notes'[k] = Inserted(Written(c)[k], added[c][k])
    BY WrittenRows
  <1>4. \A n \in Ids : Written(c)[k][n] = IF Merged(c, k, n).status = "resolved" THEN NoRow ELSE Merged(c, k, n)
    BY <1>2, WrittenRows
  <1>5. \A n \in Ids : /\ Reads(c, k[1]) => Merged(c, k, n) = existing[c][k][n]
                       /\ ~Reads(c, k[1]) => Merged(c, k, n) = notes[k][n]
    <2> TAKE n \in Ids
    <2>1. Reads(c, k[1]) => loaded[c][k][n] = notes[k][n]
      BY <1>0, <1>1 DEF Copies
    <2>2. ~Reads(c, k[1]) => existing[c][k][n] = loaded[c][k][n]
      BY <1>0 DEF RunInv
    <2>3. QED
      BY <1>0, <2>1, <2>2, MergedRow
  <1>6. ~Reads(c, k[1]) => added[c][k] = NoRow
    BY <1>0 DEF RunInv
  <1>7. added[c][k] = NoRow => notes'[k] = Written(c)[k]
    BY <1>3, InsertedRows
  <1>8. ASSUME Reads(c, k[1]), added[c][k] # NoRow
        PROVE  \E n \in Ids : notes'[k][n] = added[c][k] /\ \A m \in Ids \ {n} : notes'[k][m] = NoRow
    <2>1. \A n \in Ids : existing[c][k][n].status \in {"none", "resolved"} /\ existing[c][k][n] \in Row \cup {NoRow}
      BY <1>0, <1>1, <1>8 DEF Copies, SessionTypes, NoteRows
    <2>2. \A n \in Ids : Written(c)[k][n] = NoRow
      BY <1>4, <1>5, <1>8, <2>1, RowFields
    <2>3. \E n \in Ids : Written(c)[k][n] = NoRow
      BY <2>2, AlertAssumption
    <2>4. QED
      BY <1>3, <1>8, <2>2, <2>3, InsertedRows
  <1>9. ~Reads(c, k[1]) => \A n \in Ids : notes'[k][n] = notes[k][n]
    BY <1>1, <1>4, <1>5, <1>6, <1>7 DEF Single
  <1>10. QED
    BY <1>4, <1>5, <1>7, <1>8, <1>9

\* What the run has counted fits the rows that it leaves.
LEMMA CommittedFits ==
  ASSUME AlertInv, Sequential, spent.overlaps = 0, NEW c \in Checkers, Commit(c),
         NEW k \in Pairs, rule[k[1]].state = "live", Reads(c, k[1]),
         Bounded(notes[k], hist[k], spent.aborts),
         Fits(existing[c][k], added[c][k], hist[k], spent.aborts)
  PROVE  Fits(notes'[k], NoRow, hist[k], spent.aborts) /\ Bounded(notes'[k], hist[k], spent.aborts)
  <1> DEFINE old == existing[c][k]
             row == added[c][k]
             new == notes'[k]
             a == spent.aborts
             h == hist[k]
  <1>0. a \in Nat /\ h.tries \in Nat /\ h.sends \in Nat
    BY Types, BudgetFields, HistoryFields
  <1>1. /\ row \in Row \cup {NoRow} /\ \A n \in Ids : old[n] \in Row \cup {NoRow}
        /\ row.status # "resolved"
        /\ row # NoRow => \A n \in Ids : old[n].status \in {"none", "resolved"}
    <2>1. Copies(c, k)
      BY SoleBefore DEF Commit
    <2>2. QED
      BY <2>1, Types DEF Copies, SessionTypes, NoteRows
  <1>2. /\ row = NoRow => \A n \in Ids : new[n] = IF old[n].status = "resolved" THEN NoRow ELSE old[n]
        /\ row # NoRow => \E n \in Ids : new[n] = row /\ \A m \in Ids \ {n} : new[m] = NoRow
    BY CommittedRows
  <1>3. Fits(old, row, h, a) /\ h.sends <= 1 + a /\ h.tries <= MaxAttempts + a
    BY DEF Bounded
  <1> HIDE DEF old, row, new, a, h
  <1>4. h.sends = 1 + a => \E n \in Ids : new[n].status = "sent"
    <2>1. ASSUME h.sends = 1 + a PROVE row.status = "sent" \/ \E n \in Ids : old[n].status = "sent"
      BY <1>3, <2>1 DEF Fits
    <2>2. QED
      BY <1>1, <1>2, <2>1, NoRowFields
  <1>5. \A n \in Ids : new[n].status = "failed" => h.tries <= a + new[n].attempts /\ new[n].attempts \in Nat
    <2>1. \A n \in Ids : old[n].status = "failed" => h.tries <= a + old[n].attempts /\ old[n].attempts \in Nat
      BY <1>1, <1>3, RowFields DEF Fits
    <2>2. row.status = "failed" => h.tries <= a + row.attempts /\ row.attempts \in Nat
      BY <1>1, <1>3, RowFields DEF Fits
    <2>3. QED
      BY <1>2, <2>1, <2>2, NoRowFields
  <1>6. (\A n \in Ids : new[n].status \in {"none", "resolved"}) => h.tries <= a
    <2>1. ASSUME \A n \in Ids : new[n].status \in {"none", "resolved"}
          PROVE  row.status = "none" /\ \A n \in Ids : old[n].status \in {"none", "resolved"}
      <3>1. row = NoRow
        BY <1>1, <1>2, <2>1, RowFields
      <3>2. QED
        BY <1>2, <2>1, <3>1, NoRowFields
    <2>2. QED
      BY <1>3, <2>1 DEF Fits
  <1>7. Fits(new, NoRow, h, a)
    BY <1>4, <1>5, <1>6, NoRowFields DEF Fits
  <1>8. Bounded(new, h, a)
    BY <1>0, <1>3, <1>5, <1>6 DEF Bounded
  <1>9. QED
    BY <1>7, <1>8 DEF old, row, new, a, h

LEMMA CommitSequential ==
  ASSUME AlertInv, AlertInv', Sequential, spent.overlaps = 0, NEW c \in Checkers, Commit(c)
  PROVE  Sequential'
  <1>0. SessionTypes /\ TableTypes /\ TableTypes' /\ spent.aborts \in Nat /\ Tables' /\ Alone
    BY Types, BudgetFields DEF AlertInv, TypeOK, Tables, TableTypes, Budget, History, NoteRows, Sequential
  <1>1. pc[c] = "send" /\ Ends(c) /\ UNCHANGED <<exposed, rule, spent>>
    BY DEF Commit
  <1>2. pc'[c] = "idle" /\ \A d \in Checkers \ {c} : SameSession(d)
    BY <1>1, EndedRun
  <1>3. \A k \in Pairs : /\ hist'[k].told = hist[k].told
                         /\ k \in Closed(c) => hist'[k].tries = 0 /\ hist'[k].sends = 0
                         /\ k \notin Closed(c) => hist'[k] = hist[k]
    BY <1>0, ClearedHistory DEF Commit
  <1>4. ASSUME NEW k \in Pairs
        PROVE  /\ Single(k)' /\ Copies(c, k)'
               /\ rule'[k[1]].state = "live" =>
                    /\ Bounded(notes'[k], hist'[k], spent'.aborts)
                    /\ Decides(c, k)' => Fits(existing'[c][k], added'[c][k], hist'[k], spent'.aborts)
                    /\ ~Decides(c, k)' => Fits(notes'[k], NoRow, hist'[k], spent'.aborts)
    <2>0. Single(k) /\ Copies(c, k) /\ RunInv(c)
      BY <1>1, SoleBefore DEF AlertInv
    <2>1. Copies(c, k)' /\ ~Decides(c, k)'
      BY <1>2, BareRunNext
    <2>2. CASE rule[k[1]].state # "live"
      <3>1. \A n \in Ids : notes'[k][n] = NoRow
        BY <1>0, <1>1, <2>2 DEF Tables
      <3>2. Single(k)'
        BY <3>1, NoRowFields DEF Single
      <3>3. QED
        BY <1>1, <2>1, <2>2, <3>2
    <2>3. CASE rule[k[1]].state = "live"
      <3>1. CASE ~Reads(c, k[1])
        <4>1. \A n \in Ids : notes'[k][n] = notes[k][n]
          BY <2>3, <3>1, CommittedRows
        <4>2. notes'[k] = notes[k]
          BY <1>0, <4>1 DEF TableTypes, NoteRows
        <4>3. hist'[k] = hist[k] /\ ~Decides(c, k)
          BY <1>3, <3>1 DEF Closed, Decides
        <4>4. Single(k)'
          BY <2>0, <4>2, <4>3 DEF Single
        <4>5. QED
          BY <1>1, <2>1, <2>3, <4>2, <4>3, <4>4, SoleBefore
      <3>2. CASE Reads(c, k[1])
        <4>1. Single(k)'
          <5>1. CASE added[c][k] = NoRow
            <6>1. \A n \in Ids : notes'[k][n] = IF existing[c][k][n].status = "resolved" THEN NoRow
                                                ELSE existing[c][k][n]
              BY <2>3, <3>2, <5>1, CommittedRows
            <6>2. \A n \in Ids : notes'[k][n] # NoRow => notes[k][n] # NoRow
              BY <1>1, <2>0, <2>3, <3>2, <6>1 DEF RunInv, Copies
            <6>3. \A n \in Ids : /\ notes'[k][n].status # "resolved"
                                 /\ notes'[k][n].status = "sent" => notes'[k][n].services \in hist'[k].told
              BY <1>3, <2>0, <6>1, NoRowFields DEF Copies
            <6>4. QED
              BY <2>0, <6>2, <6>3 DEF Single
          <5>2. CASE added[c][k] # NoRow
            <6>1. PICK n \in Ids : notes'[k][n] = added[c][k] /\ \A m \in Ids \ {n} : notes'[k][m] = NoRow
              BY <2>3, <3>2, <5>2, CommittedRows
            <6>2. \A m \in Ids : /\ notes'[k][m].status # "resolved"
                                 /\ notes'[k][m].status = "sent" => notes'[k][m].services \in hist'[k].told
              BY <1>3, <2>0, <6>1, NoRowFields DEF Copies
            <6>3. \A m, o \in Ids : notes'[k][m] # NoRow /\ notes'[k][o] # NoRow => m = o
              BY <6>1
            <6>4. QED
              BY <6>2, <6>3 DEF Single
          <5>3. QED
            BY <5>1, <5>2
        <4>2. CASE Where(c, k) = {}
          <5>1. k \in Closed(c) /\ notes'[k] \in NoteRows
            BY <1>0, <3>2, <4>2 DEF Closed, TableTypes
          <5>2. hist'[k].tries = 0 /\ hist'[k].sends = 0
            BY <1>3, <5>1
          <5>3. Fits(notes'[k], NoRow, hist'[k], spent.aborts) /\ Bounded(notes'[k], hist'[k], spent.aborts)
            BY <1>0, <5>1, <5>2, FreshFits
          <5>4. QED
            BY <1>1, <2>1, <4>1, <5>3
        <4>3. CASE Where(c, k) # {}
          <5>1. Decides(c, k) /\ hist'[k] = hist[k]
            BY <1>1, <1>3, <3>2, <4>3 DEF Decides, Closed
          <5>2. /\ Bounded(notes[k], hist[k], spent.aborts)
                /\ Fits(existing[c][k], added[c][k], hist[k], spent.aborts)
            BY <1>1, <2>3, <5>1, SoleBefore
          <5>3. Fits(notes'[k], NoRow, hist[k], spent.aborts) /\ Bounded(notes'[k], hist[k], spent.aborts)
            BY <1>0, <1>1, <2>3, <3>2, <5>2, CommittedFits
          <5>4. QED
            BY <1>1, <2>1, <4>1, <5>1, <5>3
        <4>4. QED
          BY <4>2, <4>3
      <3>3. QED
        BY <3>1, <3>2
    <2>4. QED
      BY <2>2, <2>3
  <1>5. pc[c] # "idle"
    BY <1>1
  <1>6. QED
    BY <1>0, <1>2, <1>4, <1>5, SoleStep

LEMMA AbortSequential ==
  ASSUME AlertInv, AlertInv', Sequential, spent.overlaps = 0, NEW c \in Checkers, RuleVanished(c) \/ Crash(c)
  PROVE  Sequential'
  <1>0. TableTypes /\ spent.aborts \in Nat /\ Alone
    BY Types, BudgetFields DEF Sequential
  <1>1. pc[c] # "idle" /\ Ends(c) /\ notes' = Trim(notes, c) /\ UNCHANGED <<exposed, rule, hist>>
    BY DEF RuleVanished, Crash, Abort
  <1>2. pc'[c] = "idle" /\ \A d \in Checkers \ {c} : SameSession(d)
    BY <1>1, EndedRun
  <1>3. spent'.aborts = spent.aborts + 1
    BY <1>0, AbortBudget
  <1>4. /\ Trim(notes, c) \in [Pairs -> NoteRows]
        /\ \A k \in Pairs, n \in Ids : notes[k][n].status # "resolved" => Trim(notes, c)[k][n] = notes[k][n]
    <2>1. \A k \in Pairs, n \in Ids : notes[k][n] \in Row \cup {NoRow}
      BY <1>0 DEF TableTypes, NoteRows
    <2>2. QED
      BY <2>1, TrimmedRows
  <1>5. ASSUME NEW k \in Pairs
        PROVE  /\ Single(k)' /\ Copies(c, k)'
               /\ rule'[k[1]].state = "live" =>
                    /\ Bounded(notes'[k], hist'[k], spent'.aborts)
                    /\ Decides(c, k)' => Fits(existing'[c][k], added'[c][k], hist'[k], spent'.aborts)
                    /\ ~Decides(c, k)' => Fits(notes'[k], NoRow, hist'[k], spent'.aborts)
    <2>0. Single(k)
      BY <1>1, SoleBefore
    <2>1. Copies(c, k)' /\ ~Decides(c, k)'
      BY <1>2, BareRunNext
    <2>2. notes[k] \in NoteRows /\ \A n \in Ids : notes[k][n].status # "resolved"
      BY <1>0, <2>0 DEF TableTypes, Single
    <2>3. notes'[k] = notes[k]
      <3>1. \A n \in Ids : notes'[k][n] = notes[k][n]
        BY <1>1, <1>4, <2>2
      <3>2. notes'[k] \in NoteRows
        BY <1>1, <1>4
      <3>3. QED
        BY <2>2, <3>1, <3>2 DEF NoteRows
    <2>4. Single(k)'
      BY <1>1, <2>0, <2>3 DEF Single
    <2>5. ASSUME rule[k[1]].state = "live"
          PROVE  /\ Fits(notes[k], NoRow, hist[k], spent.aborts + 1)
                 /\ Bounded(notes[k], hist[k], spent.aborts + 1)
      <3>1. Bounded(notes[k], hist[k], spent.aborts) /\ hist[k].tries \in Nat /\ hist[k].sends \in Nat
        BY <1>0, <1>1, <2>5, SoleBefore, HistoryFields
      <3>2. QED
        BY <1>0, <2>2, <3>1, LostFits
    <2>6. QED
      BY <1>1, <1>3, <2>1, <2>3, <2>4, <2>5
  <1>6. QED
    BY <1>0, <1>1, <1>2, <1>5, SoleStep

-----------------------------------------------------------------------------
(* Until two runs overlap: the rest of the system.                           *)

\* A step outside the runs: what it must keep of a pair.
LEMMA OutsideSequential ==
  ASSUME AlertInv, Sequential, spent.overlaps = 0, UNCHANGED <<session, hist>>, spent'.aborts = spent.aborts,
         \A k \in Pairs :
           \/ notes'[k] = notes[k] /\ (rule'[k[1]].state = "live" => rule[k[1]].state = "live")
           \/ notes'[k] = notes[k] /\ rule[k[1]].state = "new"
           \/ (\A n \in Ids : notes'[k][n] = NoRow) /\ rule'[k[1]].state # "live"
  PROVE  Sequential'
  <1>0. SessionTypes /\ TableTypes /\ spent.aborts \in Nat /\ Tables
    BY Types, BudgetFields DEF AlertInv
  <1>1. UNCHANGED <<pc, seen, alerts, loaded, existing, added, todo, hist>>
    BY DEF session
  <1>2. Alone'
    BY <1>1 DEF Sequential, Alone
  <1>3. ASSUME NEW k \in Pairs PROVE Exact(k)'
    <2>0. Exact(k)
      BY DEF Sequential
    <2>1. \A d \in Checkers : /\ Reads(d, k[1])' <=> Reads(d, k[1])
                              /\ Where(d, k)' = Where(d, k)
                              /\ Decides(d, k)' <=> Decides(d, k)
      BY <1>1 DEF Reads, Where, Decides
    <2>2. CASE notes'[k] = notes[k] /\ (rule'[k[1]].state = "live" => rule[k[1]].state = "live")
      <3>1. Single(k)'
        BY <1>1, <2>0, <2>2 DEF Exact, Single
      <3>2. \A d \in Checkers : Copies(d, k)'
        BY <1>1, <2>0, <2>1, <2>2 DEF Exact, Copies
      <3>3. Counts(k)'
        BY <1>1, <2>0, <2>1, <2>2 DEF Exact, Counts
      <3>4. QED
        BY <3>1, <3>2, <3>3 DEF Exact
    <2>3. CASE notes'[k] = notes[k] /\ rule[k[1]].state = "new"
      <3>1. Single(k)'
        BY <1>1, <2>0, <2>3 DEF Exact, Single
      <3>2. \A d \in Checkers : ~Reads(d, k[1])
        BY <2>3, PairParts DEF AlertInv, RunInv
      <3>3. \A d \in Checkers : Copies(d, k)'
        BY <1>1, <2>0, <2>1, <3>2 DEF Exact, Copies
      <3>4. hist[k].tries = 0 /\ hist[k].sends = 0 /\ notes[k] \in NoteRows
        BY <1>0, <2>3 DEF Tables, TableTypes
      <3>5. Fits(notes[k], NoRow, hist[k], spent.aborts) /\ Bounded(notes[k], hist[k], spent.aborts)
        BY <1>0, <3>4, FreshFits
      <3>6. Counts(k)'
        BY <1>1, <2>1, <2>3, <3>2, <3>5 DEF Counts, Decides
      <3>7. QED
        BY <3>1, <3>3, <3>6 DEF Exact
    <2>4. CASE (\A n \in Ids : notes'[k][n] = NoRow) /\ rule'[k[1]].state # "live"
      <3>1. Single(k)'
        BY <2>4, NoRowFields DEF Single
      <3>2. \A d \in Checkers : Copies(d, k)'
        BY <1>1, <2>0, <2>1, <2>4 DEF Exact, Copies
      <3>3. Counts(k)'
        BY <2>4 DEF Counts
      <3>4. QED
        BY <3>1, <3>2, <3>3 DEF Exact
    <2>5. QED
      BY <2>2, <2>3, <2>4
  <1>4. QED
    BY <1>2, <1>3 DEF Sequential

LEMMA ExposeBudget ==
  ASSUME TableTypes, NEW p \in Projects, NEW v \in Vulns, Expose(p, v)
  PROVE  spent'.aborts = spent.aborts /\ spent'.overlaps = spent.overlaps
  BY BudgetFields, AlertAssumption DEF Expose, TableTypes, Budget

\* Runs that have overlapped stay counted.
LEMMA OverlapsStay ==
  ASSUME AlertInv, Next, spent'.overlaps = 0
  PROVE  spent.overlaps = 0
  <1>0. TableTypes
    BY Types
  <1>1. ASSUME NEW c \in Checkers, Start(c) PROVE spent.overlaps = 0
    BY <1>1, StartBudget
  <1>2. ASSUME NEW c \in Checkers, Step(c) PROVE spent.overlaps = 0
    <2>1. CASE RuleVanished(c)
      BY <1>0, <2>1, AbortBudget
    <2>2. CASE ~RuleVanished(c)
      <3>1. spent' = spent
        BY <1>2, <2>2 DEF Step, ReadRules, Load, FlushResolved, Visit, Skip, Resend, Deliver, Visits, Commit
      <3>2. QED
        BY <3>1
    <2>3. QED
      BY <2>1, <2>2
  <1>3. ASSUME NEW c \in Checkers, Crash(c) PROVE spent.overlaps = 0
    BY <1>0, <1>3, AbortBudget
  <1>4. ASSUME NEW p \in Projects, NEW v \in Vulns, Expose(p, v) PROVE spent.overlaps = 0
    BY <1>0, <1>4, ExposeBudget
  <1>5. ASSUME NEW r \in Rules, CreateRule(r) \/ UpdateRule(r) PROVE spent.overlaps = 0
    BY <1>5, RuleStep
  <1>6. ASSUME NEW r \in Rules, DeleteRule(r) PROVE spent.overlaps = 0
    BY <1>6, DeleteStep
  <1>7. QED
    BY <1>1, <1>2, <1>3, <1>4, <1>5, <1>6 DEF Next

LEMMA SequentialStep == AlertInv /\ Sequential /\ [Next]_vars => Sequential'
  <1> SUFFICES ASSUME AlertInv, Sequential, [Next]_vars PROVE Sequential'
    OBVIOUS
  <1>0. AlertInv' /\ TableTypes
    BY AlertStep, Types
  <1>1. CASE UNCHANGED vars
    <2>1. UNCHANGED <<session, hist>> /\ UNCHANGED <<rule, notes, spent>>
      BY <1>1 DEF vars, session
    <2>2. CASE spent.overlaps = 0
      BY <2>1, <2>2, OutsideSequential
    <2>3. CASE spent.overlaps # 0
      BY <2>1, <2>3 DEF Sequential
    <2>4. QED
      BY <2>2, <2>3
  <1>2. CASE Next /\ spent'.overlaps # 0
    BY <1>2 DEF Sequential
  <1>3. CASE Next /\ spent'.overlaps = 0
    <2>0. spent.overlaps = 0
      BY <1>3, OverlapsStay
    <2>1. ASSUME NEW c \in Checkers, NEW k \in Pairs, Visit(c, k) PROVE Sequential'
      BY <1>0, <2>0, <2>1, SkipSequential, ResendSequential, DeliverSequential DEF Visit, Sends
    <2>2. ASSUME NEW c \in Checkers, Start(c) \/ Step(c) \/ Crash(c) PROVE Sequential'
      BY <1>0, <2>0, <2>1, <2>2, StartSequential, ReadRulesSequential, LoadSequential, FlushSequential,
         CommitSequential, AbortSequential DEF Step
    <2>3. ASSUME NEW p \in Projects, NEW v \in Vulns, Expose(p, v) PROVE Sequential'
      <3>1. UNCHANGED <<session, hist>> /\ UNCHANGED <<rule, notes>> /\ spent'.aborts = spent.aborts
        BY <1>0, <2>3, ExposeBudget DEF Expose
      <3>2. QED
        BY <2>0, <3>1, OutsideSequential
    <2>4. ASSUME NEW r \in Rules, CreateRule(r) \/ UpdateRule(r) PROVE Sequential'
      <3>1. /\ UNCHANGED <<session, hist>> /\ notes' = notes /\ spent'.aborts = spent.aborts
            /\ rule[r].state \in {"new", "live"} /\ rule'[r].state = "live"
            /\ \A o \in Rules \ {r} : rule'[o] = rule[o]
        BY <2>4, RuleStep
      <3>2. QED
        BY <2>0, <3>1, PairParts, OutsideSequential
    <2>5. ASSUME NEW r \in Rules, DeleteRule(r) PROVE Sequential'
      <3>1. /\ UNCHANGED <<session, hist, spent>>
            /\ rule'[r].state = "deleted" /\ \A o \in Rules \ {r} : rule'[o] = rule[o]
            /\ \A k \in Pairs : k[1] # r => notes'[k] = notes[k]
            /\ \A k \in Pairs, n \in Ids : k[1] = r => notes'[k][n] = NoRow
        BY <2>5, DeleteStep
      <3>2. QED
        BY <2>0, <3>1, PairParts, OutsideSequential
    <2>6. QED
      BY <1>3, <2>2, <2>3, <2>4, <2>5 DEF Next
  <1>4. QED
    BY <1>1, <1>2, <1>3

LEMMA SequentialHolds == Spec => [](AlertInv /\ Sequential)
  BY AlertInit, AlertStep, SequentialInit, SequentialStep, PTL DEF Spec

-----------------------------------------------------------------------------
(* Theorems.                                                                 *)

\* Every row of alert_rules and notifications, and every row that a run of
\* check_alerts holds, is one that the code can make, however runs overlap: in
\* particular no notification has more than MAX_ALERT_DELIVERY_ATTEMPTS attempts.
THEOREM AlertTypeCorrect == Spec => []TypeOK
  BY AlertInvHolds, PTL DEF AlertInv

Apart == spent.overlaps = 0

\* As long as no two runs of check_alerts have overlapped, a rule and a vulnerability
\* have one unresolved notification at most, whatever runs crash and whatever
\* rules come and go.
THEOREM OneNotification == Spec => [](Apart => OneActive)
  <1>1. AlertInv /\ Sequential => (Apart => OneActive)
    <2> SUFFICES ASSUME AlertInv, Sequential, Apart, NEW k \in Pairs
                 PROVE  Cardinality({n \in Ids : notes[k][n].status \in Active}) <= 1 + spent.overlaps
      BY DEF OneActive
    <2> DEFINE S == {n \in Ids : notes[k][n].status \in Active}
    <2>1. Single(k) /\ spent.overlaps = 0
      BY DEF Sequential, Exact, Apart
    <2>2. \A n, m \in S : n = m
      <3>1. \A n \in S : n \in Ids /\ notes[k][n] # NoRow
        BY NoRowFields DEF Active
      <3>2. QED
        BY <2>1, <3>1 DEF Single
    <2>3. Cardinality(S) \in {0, 1}
      <3>1. CASE S = {}
        BY <3>1, FS_EmptySet
      <3>2. CASE S # {}
        <4>1. PICK n : S = {n}
          BY <2>2, <3>2
        <4>2. QED
          BY <4>1, FS_Singleton
      <3>3. QED
        BY <3>1, <3>2
    <2>4. QED
      BY <2>1, <2>3
  <1>2. QED
    BY <1>1, SequentialHolds, PTL

\* As long as no two runs have overlapped, a channel that fails is tried
\* MAX_ALERT_DELIVERY_ATTEMPTS times per episode and scope, and once more for every
\* run that could not commit what it had tried.
THEOREM TriedBounded == Spec => [](Apart => RetriesBounded)
  <1>1. AlertInv /\ Sequential => (Apart => RetriesBounded)
    <2> SUFFICES ASSUME AlertInv, Sequential, Apart, NEW k \in Pairs, rule[k[1]].state = "live"
                 PROVE  hist[k].tries <= MaxAttempts + spent.aborts + spent.overlaps
      BY DEF RetriesBounded
    <2>1. Bounded(notes[k], hist[k], spent.aborts) /\ spent.overlaps = 0
      BY DEF Sequential, Exact, Counts, Apart
    <2>2. QED
      BY <2>1, AlertAssumption, Types, BudgetFields, HistoryFields DEF Bounded
  <1>2. QED
    BY <1>1, SequentialHolds, PTL

\* As long as no two runs have overlapped, an alert is delivered once per episode
\* and scope, and once more for every run that could not commit what it had sent.
THEOREM SentOnce == Spec => [](Apart => NotRepeated)
  <1>1. AlertInv /\ Sequential => (Apart => NotRepeated)
    <2> SUFFICES ASSUME AlertInv, Sequential, Apart, NEW k \in Pairs, rule[k[1]].state = "live"
                 PROVE  hist[k].sends <= 1 + spent.aborts + spent.overlaps
      BY DEF NotRepeated
    <2>1. Bounded(notes[k], hist[k], spent.aborts) /\ spent.overlaps = 0
      BY DEF Sequential, Exact, Counts, Apart
    <2>2. QED
      BY <2>1, Types, BudgetFields, HistoryFields DEF Bounded
  <1>2. QED
    BY <1>1, SequentialHolds, PTL

\* As long as no two runs have overlapped, a notification that counts as sent was
\* sent for the services that it names.
THEOREM SentIsTrue == Spec => [](Apart => SentWasDelivered)
  <1>1. AlertInv /\ Sequential => (Apart => SentWasDelivered)
    BY DEF Sequential, Exact, Single, Apart, SentWasDelivered
  <1>2. QED
    BY <1>1, SequentialHolds, PTL
=============================================================================
