------------------------------ MODULE AlertDelivery ------------------------------
(***************************************************************************)
(* Alert rules and the hourly check_alerts task.  A run reads the open      *)
(* findings, the enabled rules and their notifications in three statements, *)
(* resolves closed episodes, sends what is due to Slack, Discord or SMTP,   *)
(* and records every outcome in one commit at its end.  Runs may overlap or *)
(* crash, and meet rules that are created, changed and deleted under them.  *)
(***************************************************************************)
EXTENDS Naturals, FiniteSets, FiniteSetsExt

CONSTANTS
  Rules,         \* ids of alert rules that may be created
  Projects, Vulns,
  ServicesOf,    \* ServicesOf[p]: the services of project p
  NoService,     \* the place of an SBOM that was uploaded without a service
  Checkers,      \* check_alerts runs that may be active at a time
  Ids,           \* bound: notification rows kept per rule and vulnerability
  MaxAttempts,   \* MAX_ALERT_DELIVERY_ATTEMPTS
  MaxExposures,  \* bound: changes of the open findings
  MaxUpdates,    \* bound: PATCH requests
  MaxAborts,     \* bound: crashed runs
  MaxOverlaps    \* bound: runs started while another one is active

ASSUME AlertAssumption ==
  /\ \A p \in Projects : NoService \notin ServicesOf[p]
  /\ MaxAttempts \in Nat \ {0} /\ Ids # {}
  /\ {MaxExposures, MaxUpdates, MaxAborts, MaxOverlaps} \subseteq Nat

VARIABLES
  exposed,   \* exposed[p][v]: where v is open and not accepted in project p
  rule,      \* rule[r]: the row of alert_rules
  notes,     \* notes[k][n]: the rows of notifications, k = <<rule, vulnerability>>
  pc,        \* pc[c]: the next step of a check_alerts run
  seen, alerts,      \* the open findings and the rules that it has read
  loaded, existing,  \* the notifications it has loaded, and as it has changed them
  added, todo,       \* those it will insert, and the pairs it has left to visit
  spent,     \* how much of the bounds is spent
  hist       \* history: what was tried, sent and told per pair

session == <<pc, seen, alerts, loaded, existing, added, todo>>
vars == <<exposed, rule, notes, session, spent, hist>>

Pairs  == Rules \X Vulns
Scopes == UNION {SUBSET ServicesOf[p] : p \in Projects}

NoRow  == [status |-> "none", attempts |-> 0, services |-> {}]
Row    == [status : {"sent", "failed", "resolved"}, attempts : 0..MaxAttempts,
           services : Scopes]
NoRows == [k \in Pairs |-> [n \in Ids |-> NoRow]]
Active == {"sent", "failed"}

\* A rule that was never created, one that was deleted, and the live ones.
LiveRule == [state : {"live"}, project : Projects, enabled : BOOLEAN, covers : SUBSET Vulns]
NoRule   == [state |-> "new", project |-> CHOOSE p \in Projects : TRUE,
             enabled |-> FALSE, covers |-> {}]
Gone     == [NoRule EXCEPT !.state = "deleted"]

Nowhere  == [p \in Projects |-> [v \in Vulns |-> {}]]
NoRules  == [r \in Rules |-> NoRule]
NoneToAdd == [k \in Pairs |-> NoRow]

TypeOK ==
  /\ \A p \in Projects : exposed[p] \in [Vulns -> SUBSET (ServicesOf[p] \cup {NoService})]
  /\ rule \in [Rules -> LiveRule \cup {NoRule, Gone}]
  /\ notes \in [Pairs -> [Ids -> Row \cup {NoRow}]]
  /\ pc \in [Checkers -> {"idle", "rules", "load", "flush", "send"}]
  /\ alerts \in [Checkers -> [Rules -> LiveRule \cup {NoRule}]]
  /\ loaded \in [Checkers -> [Pairs -> [Ids -> Row \cup {NoRow}]]]
  /\ existing \in [Checkers -> [Pairs -> [Ids -> Row \cup {NoRow}]]]
  /\ added \in [Checkers -> [Pairs -> Row \cup {NoRow}]]
  /\ todo \in [Checkers -> SUBSET Pairs]
  /\ spent \in [exposures : 0..MaxExposures, updates : 0..MaxUpdates,
                crashes : 0..MaxAborts, aborts : Nat, overlaps : 0..MaxOverlaps]
  /\ hist \in [Pairs -> [tries : Nat, sends : Nat, told : SUBSET Scopes]]

Init ==
  /\ exposed = Nowhere
  /\ rule = [r \in Rules |-> NoRule]
  /\ notes = NoRows
  /\ pc = [c \in Checkers |-> "idle"]
  /\ seen = [c \in Checkers |-> Nowhere] /\ alerts = [c \in Checkers |-> NoRules]
  /\ loaded = [c \in Checkers |-> NoRows] /\ existing = loaded
  /\ added = [c \in Checkers |-> NoneToAdd] /\ todo = [c \in Checkers |-> {}]
  /\ spent = [exposures |-> 0, updates |-> 0, crashes |-> 0, aborts |-> 0, overlaps |-> 0]
  /\ hist = [k \in Pairs |-> [tries |-> 0, sends |-> 0, told |-> {}]]

---------------------------------------------------------------------------
(* What a run makes of what it has read *)

Reads(c, r) == alerts[c][r].state = "live"
Where(c, k) == seen[c][alerts[c][k[1]].project][k[2]]

\* The service ids of the open findings; an SBOM without a service adds none.
Current(c, k) == Where(c, k) \ {NoService}

Closed(c) == {k \in Pairs : Reads(c, k[1]) /\ Where(c, k) = {}}
Due(c)    == {k \in Pairs : /\ Reads(c, k[1])
                            /\ Where(c, k) # {}
                            /\ k[2] \in alerts[c][k[1]].covers}

RowsOf(rows, status) == {n \in Ids : rows[n].status = status}

\* Mutant: a scope that has become smaller counts as the same.
WithinScope(row, services) == services \subseteq row.services

SameScope(row, services) == row.services = services

\* Mutant: one attempt too many.
ExhaustedLate(rows) == \E n \in RowsOf(rows, "failed") : rows[n].attempts > MaxAttempts

Exhausted(rows) == \E n \in RowsOf(rows, "failed") : rows[n].attempts >= MaxAttempts

\* The possible decisions for a pair: sent[-1] and failed[-1] are the newest
\* rows by the start of the transactions that wrote them, which is not kept.
DeliveryActions(rows, services) ==
  LET sent == RowsOf(rows, "sent")
      failed == RowsOf(rows, "failed")
  IN  IF sent # {}
      THEN {IF SameScope(rows[n], services) THEN "skip" ELSE "resend" : n \in sent}
      ELSE IF failed = {} THEN {"deliver"}
      ELSE {IF ~SameScope(rows[n], services) THEN "resend"
            ELSE IF Exhausted(rows) THEN "give_up" ELSE "retry" : n \in failed}

\* Mutants: a retry that succeeds is not recorded, one that fails is not
\* counted, one that fails is recorded as sent.
OutcomeUnrecorded(success, attempts, services) ==
  [status |-> "failed", attempts |-> IF success THEN 0 ELSE attempts, services |-> services]
OutcomeUncounted(success, attempts, services) ==
  [status |-> IF success THEN "sent" ELSE "failed",
   attempts |-> IF success THEN 0 ELSE 1, services |-> services]
OutcomeUnchecked(success, attempts, services) ==
  [status |-> "sent", attempts |-> IF success THEN 0 ELSE attempts, services |-> services]

Outcome(success, attempts, services) ==
  [status |-> IF success THEN "sent" ELSE "failed",
   attempts |-> IF success THEN 0 ELSE attempts, services |-> services]

Resolved(row) == [row EXCEPT !.status = "resolved"]

\* Mutant: only what was sent is closed.
SupersededSent(rows) == [n \in Ids |-> IF rows[n].status = "sent" THEN Resolved(rows[n]) ELSE rows[n]]

Superseded(rows) == [n \in Ids |-> IF rows[n].status \in Active THEN Resolved(rows[n]) ELSE rows[n]]

\* The rows a run resolves with its first UPDATE stay locked until it ends.
Flushed(c) ==
  {x \in Closed(c) \X Ids : pc[c] = "send" /\ loaded[c][x[1]][x[2]] # NoRow}

Changed(c) == {x \in Pairs \X Ids : existing[c][x[1]][x[2]] # loaded[c][x[1]][x[2]]}

Unlocked(c, X) == \A d \in Checkers \ {c} : X \cap Flushed(d) = {}

\* Notifications vanish with their rule: an UPDATE finds no row, an INSERT no parent.
Vanished(X) == \E x \in X : rule[x[1][1]].state # "live"
Inserts(c) == {x \in Pairs \X Ids : added[c][x[1]] # NoRow}

\* A resolved row changes nothing any more: it is dropped once no run holds it.
Trim(N, c) ==
  [k \in Pairs |-> [n \in Ids |->
     IF N[k][n].status = "resolved" /\ \A d \in Checkers \ {c} : loaded[d][k][n] = NoRow
     THEN NoRow ELSE N[k][n]]]

---------------------------------------------------------------------------
(* One run of check_alerts *)

Start(c) ==
  LET busy == \E d \in Checkers : pc[d] # "idle" IN
  /\ pc[c] = "idle"
  /\ busy => spent.overlaps < MaxOverlaps
  /\ spent' = [spent EXCEPT !.overlaps = IF busy THEN @ + 1 ELSE @]
  /\ pc' = [pc EXCEPT ![c] = "rules"]
  /\ seen' = [seen EXCEPT ![c] = exposed]
  /\ UNCHANGED <<exposed, rule, notes, alerts, loaded, existing, added, todo, hist>>

Ends(c) ==
  /\ pc' = [pc EXCEPT ![c] = "idle"]
  /\ seen' = [seen EXCEPT ![c] = Nowhere] /\ alerts' = [alerts EXCEPT ![c] = NoRules]
  /\ loaded' = [loaded EXCEPT ![c] = NoRows] /\ existing' = [existing EXCEPT ![c] = NoRows]
  /\ added' = [added EXCEPT ![c] = NoneToAdd] /\ todo' = [todo EXCEPT ![c] = {}]

ReadRules(c) ==
  LET enabled == {r \in Rules : rule[r].enabled} IN
  /\ pc[c] = "rules"
  /\ \/ enabled = {} /\ Ends(c)
     \/ /\ enabled # {} /\ pc' = [pc EXCEPT ![c] = "load"]
        /\ alerts' = [alerts EXCEPT ![c] = [r \in Rules |-> IF r \in enabled THEN rule[r] ELSE NoRule]]
        /\ UNCHANGED <<seen, loaded, existing, added, todo>>
  /\ UNCHANGED <<exposed, rule, notes, spent, hist>>

\* Rows that are resolved already are left out: the run only skips them.
Load(c) ==
  LET rows == [k \in Pairs |-> [n \in Ids |->
                 IF Reads(c, k[1]) /\ notes[k][n].status \in Active THEN notes[k][n] ELSE NoRow]]
  IN
  /\ pc[c] = "load" /\ pc' = [pc EXCEPT ![c] = "flush"]
  /\ loaded' = [loaded EXCEPT ![c] = rows]
  /\ existing' = [existing EXCEPT ![c] =
                    [k \in Pairs |-> IF k \in Closed(c) THEN Superseded(rows[k]) ELSE rows[k]]]
  /\ UNCHANGED <<exposed, rule, notes, seen, alerts, added, todo, spent, hist>>

\* The next query flushes the resolved rows: UPDATEs that wait for row locks.
FlushResolved(c) ==
  /\ pc[c] = "flush" /\ pc' = [pc EXCEPT ![c] = "send"]
  /\ Unlocked(c, Changed(c))
  /\ ~Vanished(Changed(c))
  /\ todo' = [todo EXCEPT ![c] = Due(c)]
  /\ UNCHANGED <<exposed, rule, notes, seen, alerts, loaded, existing, added, spent, hist>>

Visits(c, k) ==
  /\ k \in todo[c] /\ todo' = [todo EXCEPT ![c] = @ \ {k}]
  /\ UNCHANGED <<exposed, rule, notes, pc, seen, alerts, loaded, spent>>

Skip(c, k) ==
  /\ Visits(c, k)
  /\ DeliveryActions(existing[c][k], Current(c, k)) \cap {"skip", "give_up"} # {}
  /\ UNCHANGED <<existing, added, hist>>

\* What the send leaves in hist; a resend starts the count of a new scope.
Tell(k, fresh, success, services) ==
  LET tries == IF fresh THEN 0 ELSE hist[k].tries
      sends == IF fresh THEN 0 ELSE hist[k].sends
  IN  hist' = [hist EXCEPT ![k] =
        IF success THEN [tries |-> tries, sends |-> sends + 1, told |-> hist[k].told \cup {services}]
        ELSE [tries |-> tries + 1, sends |-> sends, told |-> hist[k].told]]

\* A changed scope: close the active rows and add a fresh one.
Resend(c, k, success) ==
  LET rows == existing[c][k] IN
  /\ Visits(c, k)
  /\ "resend" \in DeliveryActions(rows, Current(c, k))
  /\ existing' = [existing EXCEPT ![c][k] = Superseded(rows)]
  /\ added' = [added EXCEPT ![c][k] = Outcome(success, 1, Current(c, k))]
  /\ Tell(k, TRUE, success, Current(c, k))

\* A first delivery adds a row, a retry flips every failed one.
Deliver(c, k, success) ==
  LET rows == existing[c][k]
      failed == RowsOf(rows, "failed")
      attempts == Max({rows[n].attempts : n \in failed} \cup {0}) + 1
      row == Outcome(success, attempts, Current(c, k))
  IN
  /\ Visits(c, k)
  /\ DeliveryActions(rows, Current(c, k)) \cap {"deliver", "retry"} # {}
  /\ existing' = [existing EXCEPT ![c][k] = [n \in Ids |-> IF n \in failed THEN row ELSE rows[n]]]
  /\ added' = [added EXCEPT ![c][k] = IF failed = {} THEN row ELSE NoRow]
  /\ Tell(k, FALSE, success, Current(c, k))

\* An UPDATE writes the columns the run has changed, over the row as it is now.
Merged(c, k, n) ==
  LET old == loaded[c][k][n]
      new == existing[c][k][n]
      now == notes[k][n]
  IN  [status   |-> IF new.status # old.status THEN new.status ELSE now.status,
       attempts |-> IF new.attempts # old.attempts THEN new.attempts ELSE now.attempts,
       services |-> IF new.services # old.services THEN new.services ELSE now.services]

Inserted(rows, row) ==
  IF row = NoRow THEN rows
  ELSE [rows EXCEPT ![CHOOSE n \in Ids : rows[n] = NoRow] = row]

Commit(c) ==
  LET written == Trim([k \in Pairs |-> [n \in Ids |-> Merged(c, k, n)]], c) IN
  /\ pc[c] = "send" /\ todo[c] = {}
  /\ Unlocked(c, Changed(c))
  /\ ~Vanished(Changed(c) \cup Inserts(c))
  /\ notes' = [k \in Pairs |-> Inserted(written[k], added[c][k])]
  /\ Ends(c)
  /\ hist' = [k \in Pairs |-> IF k \in Closed(c) THEN [tries |-> 0, sends |-> 0, told |-> hist[k].told]
                              ELSE hist[k]]
  /\ UNCHANGED <<exposed, rule, spent>>

\* Rollback: nothing of what was sent is recorded.
Abort(c) ==
  /\ notes' = Trim(notes, c)
  /\ Ends(c)
  /\ UNCHANGED <<exposed, rule, hist>>

RuleVanished(c) ==
  /\ \/ pc[c] = "flush" /\ Vanished(Changed(c))
     \/ pc[c] = "send" /\ todo[c] = {} /\ Vanished(Changed(c) \cup Inserts(c))
  /\ Unlocked(c, Changed(c))
  /\ spent' = [spent EXCEPT !.aborts = @ + 1]
  /\ Abort(c)

\* A worker that dies, or loses its connection; also a run that PostgreSQL
\* picks as the victim when two runs wait for each other's rows.
Crash(c) ==
  /\ pc[c] # "idle"
  /\ spent.crashes < MaxAborts
  /\ spent' = [[spent EXCEPT !.crashes = @ + 1] EXCEPT !.aborts = @ + 1]
  /\ Abort(c)

---------------------------------------------------------------------------
(* The scan pipeline and the alert-rules endpoints *)

Expose(p, v) ==
  /\ spent.exposures < MaxExposures
  /\ \E S \in SUBSET (ServicesOf[p] \cup {NoService}) \ {exposed[p][v]} :
       exposed' = [exposed EXCEPT ![p][v] = S]
  /\ spent' = [spent EXCEPT !.exposures = @ + 1]
  /\ UNCHANGED <<rule, notes, session, hist>>

CreateRule(r) ==
  /\ rule[r].state = "new"
  /\ \E row \in LiveRule : rule' = [rule EXCEPT ![r] = row]
  /\ UNCHANGED <<exposed, notes, session, spent, hist>>

UpdateRule(r) ==
  /\ rule[r].state = "live"
  /\ spent.updates < MaxUpdates
  /\ \E row \in LiveRule \ {rule[r]} : rule' = [rule EXCEPT ![r] = row]
  /\ spent' = [spent EXCEPT !.updates = @ + 1]
  /\ UNCHANGED <<exposed, notes, session, hist>>

\* The cascade deletes the notifications; it waits for rows a run has resolved.
DeleteRule(r) ==
  /\ rule[r].state = "live"
  /\ \A c \in Checkers : \A x \in Flushed(c) : x[1][1] # r
  /\ rule' = [rule EXCEPT ![r] = Gone]
  /\ notes' = [k \in Pairs |-> IF k[1] = r THEN NoRows[k] ELSE notes[k]]
  /\ UNCHANGED <<exposed, session, spent, hist>>

\* What a channel answers: every error of SMTP or HTTP is caught and returned.
Sends == BOOLEAN

Visit(c, k) == Skip(c, k) \/ \E success \in Sends : Resend(c, k, success) \/ Deliver(c, k, success)

Step(c) ==
  \/ ReadRules(c) \/ Load(c) \/ FlushResolved(c)
  \/ \E k \in Pairs : Visit(c, k)
  \/ Commit(c) \/ RuleVanished(c)

Next ==
  \/ \E c \in Checkers : Start(c) \/ Step(c) \/ Crash(c)
  \/ \E p \in Projects, v \in Vulns : Expose(p, v)
  \/ \E r \in Rules : CreateRule(r) \/ UpdateRule(r) \/ DeleteRule(r)

Spec == Init /\ [][Next]_vars

\* Beat starts a run every hour; a run that was started goes on by itself.
FairSpec ==
  /\ Spec
  /\ WF_vars(\E c \in Checkers : Start(c))
  /\ \A c \in Checkers : WF_vars(Step(c))

---------------------------------------------------------------------------
(* Properties *)

\* Runs that do not overlap keep at most one unresolved notification per rule
\* and vulnerability; every overlapping run can add one more.
OneActive ==
  \A k \in Pairs : Cardinality({n \in Ids : notes[k][n].status \in Active}) <= 1 + spent.overlaps

\* A failing channel is tried MaxAttempts times per episode and scope.  An
\* attempt whose run rolled back, or that ran beside another, is not counted.
RetriesBounded ==
  \A k \in Pairs : rule[k[1]].state = "live" =>
    hist[k].tries <= MaxAttempts + spent.aborts + spent.overlaps

\* An alert is delivered once per episode and scope; it is only repeated when
\* the run that sent it could not commit or ran beside another one.
NotRepeated ==
  \A k \in Pairs : rule[k[1]].state = "live" =>
    hist[k].sends <= 1 + spent.aborts + spent.overlaps

\* No notification counts as sent for services it was never sent for.  When runs
\* overlap more than once, a row may combine the status that one run has written
\* with the services that another has.
SentWasDelivered ==
  spent.overlaps <= 1 => \A k \in Pairs, n \in Ids :
    notes[k][n].status = "sent" => notes[k][n].services \in hist[k].told

Exposed(r, v) ==
  /\ rule[r].enabled /\ v \in rule[r].covers
  /\ exposed[rule[r].project][v] # {}

Settled(r, v) ==
  \E n \in Ids : LET row == notes[<<r, v>>][n] IN
    /\ row.services = exposed[rule[r].project][v] \ {NoService}
    /\ row.status = "sent" \/ (row.status = "failed" /\ row.attempts >= MaxAttempts)

\* A finding that stays open under an enabled rule ends up notified with its
\* current services, or with its attempts used up.
AlertsSettle ==
  \A r \in Rules, v \in Vulns : <>[]Exposed(r, v) => <>[]Settled(r, v)
=============================================================================
