--------------------------------- MODULE Accounts ---------------------------------
(***************************************************************************)
(* The start of the application's processes, and what lets a caller in:     *)
(* login codes, the session cookie of one browser and API keys.  A request  *)
(* checks with SELECTs and updates the row it found, whose lock it keeps    *)
(* until its transaction ends; the next request with that row waits.        *)
(***************************************************************************)
EXTENDS Naturals, FiniteSets

CONSTANTS
  Replicas,    \* processes that serve the application
  MaxRetries,  \* MAX_RETRIES of entrypoint.py
  Requests,    \* bound: requests that may be in progress at a time
  Keys, Codes, \* bound: api_keys and login_tokens rows that may be handed out
  Lifetimes,   \* values of ttl_days; 0 is no expiry
  CodeLife,    \* login_token_expire_minutes
  LastTime,    \* bound: the clock stops there
  MaxFaults    \* bound: failures of the database, the endpoints and the processes

ASSUME AccountsAssumption ==
  /\ MaxRetries \in Nat /\ LastTime \in Nat \ {0} /\ MaxFaults \in Nat
  /\ Lifetimes \subseteq Nat /\ CodeLife \in Nat \ {0}

VARIABLES
  now, faults,
  schema,     \* the migration is committed
  admin,      \* the row of users
  replica,    \* replica[r]: where its start has got to, and its attempts to migrate
  key,        \* key[k]: the row of api_keys; used is last_used_at
  code,       \* code[c]: the row of login_tokens, and the sign-ins it was good for
  cookie,     \* the browser has a session cookie that is good
  req         \* req[q]: what request q has found

start == <<schema, admin, replica>>
access == <<key, code, cookie, req>>
vars == <<now, faults, start, access>>

Never    == 0           \* expires_at NULL, last_used_at NULL
Times    == 1 .. LastTime
Idle     == [op |-> "idle"]
NewKey   == [state |-> "new", expires |-> Never, used |-> Never]
NewCode  == [state |-> "new", expires |-> Never, used |-> FALSE, signIns |-> 0]

\* A request with a key or a code: found it, holds the lock of its row, has
\* deleted it.
Request ==
  {Idle}
    \cup [op : {"authenticated", "serving"}, k : Keys, at : Times]
    \cup [op : {"known", "revoke", "deleted"}, k : Keys]
    \cup [op : {"verify", "marked"}, c : Codes]

TypeOK ==
  /\ now \in Times /\ faults \in 0 .. MaxFaults /\ schema \in BOOLEAN /\ admin \in BOOLEAN
  /\ replica \in [Replicas -> [step : {"migrate", "create", "find admin", "seed", "up", "exited"},
                               tries : 0 .. MaxRetries]]
  /\ \A k \in Keys : /\ key[k].state \in {"new", "live", "gone"}
                     /\ key[k].expires \in Nat /\ key[k].used \in 0 .. now
  /\ \A c \in Codes : code[c].state \in {"new", "live"} /\ code[c].used \in BOOLEAN
                      /\ (code[c].used <=> code[c].signIns > 0)
  /\ cookie \in BOOLEAN
  /\ req \in [Requests -> Request]

Init ==
  /\ now = 1 /\ faults = 0
  /\ schema = FALSE /\ admin = FALSE
  /\ replica = [r \in Replicas |-> [step |-> "migrate", tries |-> 0]]
  /\ key = [k \in Keys |-> NewKey]
  /\ code = [c \in Codes |-> NewCode]
  /\ cookie = FALSE
  /\ req = [q \in Requests |-> Idle]

Tick  == now < LastTime /\ now' = now + 1 /\ UNCHANGED <<faults, start, access>>
Fault == faults < MaxFaults /\ faults' = faults + 1

---------------------------------------------------------------------------
(* Start *)

GoTo(r, step) == replica' = [replica EXCEPT ![r].step = step]

\* Failed: once more, or on with the start after MaxRetries.
Retry(r) ==
  replica' = [replica EXCEPT ![r] =
    IF @.tries < MaxRetries THEN [step |-> "migrate", tries |-> @.tries + 1]
                            ELSE [step |-> "find admin", tries |-> @.tries]]

\* alembic reads the revision and runs what is missing in one transaction ...
ReadRevision(r) ==
  /\ replica[r].step = "migrate"
  /\ GoTo(r, IF schema THEN "find admin" ELSE "create")
  /\ UNCHANGED <<now, faults, schema, admin, access>>

\* ... which fails when another process has created the tables meanwhile.
CreateTables(r) ==
  /\ replica[r].step = "create"
  /\ IF schema THEN Retry(r) ELSE GoTo(r, "find admin")
  /\ schema' = TRUE
  /\ UNCHANGED <<now, faults, admin, access>>

MigrationFails(r) ==
  /\ replica[r].step \in {"migrate", "create"} /\ Fault
  /\ Retry(r)
  /\ UNCHANGED <<now, schema, admin, access>>

\* Mutant: the start goes on when the users table is missing.
FindAdminLeniently(r) ==
  /\ replica[r].step = "find admin"
  /\ GoTo(r, IF schema /\ ~admin THEN "seed" ELSE "up")
  /\ UNCHANGED <<now, faults, schema, admin, access>>

FindAdmin(r) ==
  /\ replica[r].step = "find admin"
  /\ GoTo(r, CASE ~schema           -> "exited"
               [] schema /\ admin   -> "up"
               [] schema /\ ~admin  -> "seed")
  /\ UNCHANGED <<now, faults, schema, admin, access>>

\* The unique index on the email admits one.
Seed(r) ==
  /\ replica[r].step = "seed"
  /\ GoTo(r, IF admin THEN "exited" ELSE "up")
  /\ admin' = TRUE
  /\ UNCHANGED <<now, faults, schema, access>>

\* Mutant: a process that has exited keeps its count of attempts.
RestartCounting(r) ==
  /\ replica[r].step = "exited"
  /\ GoTo(r, IF replica[r].tries = MaxRetries THEN "exited" ELSE "migrate")
  /\ UNCHANGED <<now, faults, schema, admin, access>>

Restart(r) ==
  /\ replica[r].step = "exited"
  /\ replica' = [replica EXCEPT ![r] = [step |-> "migrate", tries |-> 0]]
  /\ UNCHANGED <<now, faults, schema, admin, access>>

Up == \E r \in Replicas : replica[r].step = "up"

\* The requests that may be in process r: any of them while another one serves.
MayServe(r) ==
  IF replica[r].step # "up" THEN {{}}
  ELSE IF \E o \in Replicas \ {r} : replica[o].step = "up" THEN SUBSET Requests ELSE {Requests}

\* A process is killed at any point of its start, or while it serves: what it had
\* in a transaction is rolled back.
Crash(r) ==
  /\ replica[r].step # "exited" /\ Fault
  /\ GoTo(r, "exited")
  /\ \E lost \in MayServe(r) : req' = [q \in Requests |-> IF q \in lost THEN Idle ELSE req[q]]
  /\ UNCHANGED <<now, schema, admin, key, code, cookie>>

---------------------------------------------------------------------------
(* Requests *)

Begin(q, r) == Up /\ req[q] = Idle /\ req' = [req EXCEPT ![q] = r]
Ends(q)     == req' = [req EXCEPT ![q] = Idle]

\* The row locks that are held, and those that q would have to wait for.
KeyLocked(k)  == \E q \in Requests : req[q].op \in {"serving", "deleted"} /\ req[q].k = k
CodeLocked(c) == \E q \in Requests : req[q].op = "marked" /\ req[q].c = c

Unexpired(t) == t = Never \/ t > now

\* POST /login for the address of a user; the mail is sent after the commit.
RequestCode(c) ==
  /\ Up /\ admin /\ code[c].state = "new"
  /\ code' = [code EXCEPT ![c] = [state |-> "live", expires |-> now + CodeLife,
                                  used |-> FALSE, signIns |-> 0]]
  /\ UNCHANGED <<now, faults, start, key, cookie, req>>

Valid(c) == code[c].state = "live" /\ ~code[c].used /\ code[c].expires > now

\* The clock is read before the SELECT; a code that is unused then was so before.
BeginVerify(q, c) ==
  /\ Valid(c)
  /\ Begin(q, [op |-> "verify", c |-> c])
  /\ UNCHANGED <<now, faults, start, key, code, cookie>>

\* The UPDATE of used waits for another one and then overwrites it.
MarkUsed(q) ==
  /\ req[q].op = "verify" /\ ~CodeLocked(req[q].c)
  /\ req' = [req EXCEPT ![q].op = "marked"]
  /\ UNCHANGED <<now, faults, start, key, code, cookie>>

\* Mutant: the code is not marked.
SignInUnmarked(q) ==
  /\ req[q].op = "marked"
  /\ code' = [code EXCEPT ![req[q].c].signIns = @ + 1]
  /\ cookie' = TRUE
  /\ Ends(q) /\ UNCHANGED <<now, faults, start, key>>

SignIn(q) ==
  /\ req[q].op = "marked"
  /\ code' = [code EXCEPT ![req[q].c].used = TRUE, ![req[q].c].signIns = @ + 1]
  /\ cookie' = TRUE
  /\ Ends(q) /\ UNCHANGED <<now, faults, start, key>>

\* Logging out, or the max age of the cookie; the server keeps no session.
EndSession == cookie /\ cookie' = FALSE /\ UNCHANGED <<now, faults, start, key, code, req>>

CreateKey(k, days) ==
  /\ Up /\ cookie /\ key[k].state = "new"
  /\ key' = [key EXCEPT ![k] = [state |-> "live", used |-> Never,
                                expires |-> IF days = 0 THEN Never ELSE now + days]]
  /\ UNCHANGED <<now, faults, start, code, cookie, req>>

\* Mutant: a key is good until expires_at and at that time.
LiveKeyInclusive(k) == key[k].state = "live" /\ (Unexpired(key[k].expires) \/ key[k].expires = now)

LiveKey(k) == key[k].state = "live" /\ Unexpired(key[k].expires)

\* The key is found and its expiry compared with the time ...
Authenticate(q, k) ==
  /\ LiveKey(k)
  /\ Begin(q, [op |-> "known", k |-> k])
  /\ UNCHANGED <<now, faults, start, key, code, cookie>>

\* ... and the clock is read once more for last_used_at.
Stamp(q) ==
  /\ req[q].op = "known"
  /\ req' = [req EXCEPT ![q] = [op |-> "authenticated", k |-> req[q].k, at |-> now]]
  /\ UNCHANGED <<now, faults, start, key, code, cookie>>

\* Mutant: last_used_at is written at the end of the request only.
ServeUnlocked(q) ==
  /\ req[q].op = "authenticated"
  /\ req' = [req EXCEPT ![q].op = "serving"]
  /\ UNCHANGED <<now, faults, start, key, code, cookie>>

\* Loading the user flushes last_used_at: the UPDATE waits for the row, and the
\* request fails if a revoke has deleted it.
Serve(q) ==
  /\ req[q].op = "authenticated" /\ ~KeyLocked(req[q].k)
  /\ IF key[req[q].k].state = "live" THEN req' = [req EXCEPT ![q].op = "serving"] ELSE Ends(q)
  /\ UNCHANGED <<now, faults, start, key, code, cookie>>

\* The commit: at once for MCP and gRPC calls, with the endpoint's work for REST.
Served(q) ==
  /\ req[q].op = "serving"
  /\ key' = [key EXCEPT ![req[q].k].used = req[q].at]
  /\ Ends(q) /\ UNCHANGED <<now, faults, start, code, cookie>>

BeginRevoke(q, k) ==
  /\ cookie /\ key[k].state = "live"
  /\ Begin(q, [op |-> "revoke", k |-> k])
  /\ UNCHANGED <<now, faults, start, key, code, cookie>>

\* Mutant: the DELETE waits until it finds the row.
DeleteKeyThere(q) ==
  /\ req[q].op = "revoke" /\ ~KeyLocked(req[q].k) /\ key[req[q].k].state = "live"
  /\ req' = [req EXCEPT ![q].op = "deleted"]
  /\ UNCHANGED <<now, faults, start, key, code, cookie>>

\* A DELETE that finds the row gone deletes nothing.
DeleteKey(q) ==
  /\ req[q].op = "revoke" /\ ~KeyLocked(req[q].k)
  /\ IF key[req[q].k].state = "live" THEN req' = [req EXCEPT ![q].op = "deleted"] ELSE Ends(q)
  /\ UNCHANGED <<now, faults, start, key, code, cookie>>

Revoked(q) ==
  /\ req[q].op = "deleted"
  /\ key' = [key EXCEPT ![req[q].k] = [state |-> "gone", expires |-> Never, used |-> Never]]
  /\ Ends(q) /\ UNCHANGED <<now, faults, start, code, cookie>>

\* An error, a client that hangs up: rollback.
Fails(q) ==
  /\ req[q] # Idle /\ Fault
  /\ Ends(q) /\ UNCHANGED <<now, start, key, code, cookie>>

---------------------------------------------------------------------------
Boot(r) == ReadRevision(r) \/ CreateTables(r) \/ FindAdmin(r) \/ Seed(r) \/ Restart(r)

LockRow(q)  == MarkUsed(q) \/ Serve(q) \/ DeleteKey(q)
EndWork(q)  == Stamp(q) \/ SignIn(q) \/ Served(q) \/ Revoked(q)

Next ==
  \/ Tick \/ EndSession
  \/ \E r \in Replicas : Boot(r) \/ MigrationFails(r) \/ Crash(r)
  \/ \E c \in Codes : RequestCode(c) \/ \E q \in Requests : BeginVerify(q, c)
  \/ \E k \in Keys : \/ \E days \in Lifetimes : CreateKey(k, days)
                     \/ \E q \in Requests : Authenticate(q, k) \/ BeginRevoke(q, k)
  \/ \E q \in Requests : LockRow(q) \/ EndWork(q) \/ Fails(q)

Spec == Init /\ [][Next]_vars

\* Processes that exit are started again, endpoints come to an end, and PostgreSQL
\* grants the lock of a row in turn.
Fairness ==
  /\ \A r \in Replicas : WF_vars(Boot(r))
  /\ \A q \in Requests : SF_vars(LockRow(q)) /\ WF_vars(EndWork(q))

FairSpec == Spec /\ Fairness

---------------------------------------------------------------------------
(* Properties *)

\* A process that serves requests has the tables and the admin user, also when
\* entrypoint.py has given up on the migration and gone on.
UpIsReady == Up => schema /\ admin

\* However starts collide, fail and repeat, in the end every process serves.
AllComeUp == <>[](\A r \in Replicas : replica[r].step = "up")

\* An endpoint that works with a key in its transaction works with a stored one: a
\* revoke that began meanwhile is not answered before the endpoint is done.
InUseIsStored == \A q \in Requests : req[q].op = "serving" => key[req[q].k].state = "live"

\* A code signs in once.
CodeIsSingleUse == \A c \in Codes : code[c].signIns <= 1

\* A key that has expired or was revoked, and a code that is used or has expired.
LapsedKey(k)  == key[k].state # "live" \/ ~Unexpired(key[k].expires)
LapsedCode(c) == code[c].used \/ code[c].expires <= now

\* What has lapsed lets nobody in any more: a request that had checked it before is
\* still served, however long it waits for a lock, but none that comes later, so
\* that in the end no request works with it.
LapsedShutsOut ==
  <>[](\A q \in Requests :
         /\ req[q].op \in {"known", "authenticated", "serving"} => ~LapsedKey(req[q].k)
         /\ req[q].op \in {"verify", "marked"} => ~LapsedCode(req[q].c))

\* Requests that wait for one key or one code all come to an end.
RequestsEnd == \A q \in Requests : req[q] # Idle ~> req[q] = Idle
=============================================================================
