------------------------------- MODULE AccountsProofs -------------------------------
(***************************************************************************)
(* Theorems about Accounts, for every set of processes, requests, keys and  *)
(* codes, and for every value of the bounds.                                *)
(***************************************************************************)
EXTENDS Accounts, TLAPS

---------------------------------------------------------------------------
(* The inductive invariant *)

KeyRow  == [state : {"new", "live", "gone"}, expires : Nat, used : Nat]
CodeRow == [state : {"new", "live"}, expires : Nat, used : BOOLEAN, signIns : Nat]
Start   == [step : {"migrate", "create", "find admin", "seed", "up", "exited"},
            tries : 0 .. MaxRetries]

\* A process seeds when it has the tables, and is up when it has the user too.
StartInv ==
  /\ schema \in BOOLEAN /\ admin \in BOOLEAN
  /\ replica \in [Replicas -> Start]
  /\ \A r \in Replicas :
       /\ replica[r].step = "seed" => schema
       /\ replica[r].step = "up" => schema /\ admin

Typed ==
  /\ now \in Times /\ faults \in 0 .. MaxFaults /\ cookie \in BOOLEAN
  /\ key \in [Keys -> KeyRow]
  /\ code \in [Codes -> CodeRow]
  /\ req \in [Requests -> Request]

\* No key was used in the future; a code that has signed in is used.
KeysInTime == \A k \in Keys : key[k].used <= now
CodesCount == \A c \in Codes : code[c].used <=> code[c].signIns > 0

\* A request r at time t, with keys ks, found a key that had been handed out, and
\* read the clock before; a request that has a lock has a stored key.
Sound(r, t, ks) ==
  /\ r.op \in {"authenticated", "serving"} => r.at <= t
  /\ r.op \in {"known", "authenticated", "serving"} => ks[r.k].state # "new"
  /\ r.op \in {"serving", "deleted"} => ks[r.k].state = "live"

AllSound == \A q \in Requests : Sound(req[q], now, key)

\* The lock of a key is held by one request.
Holds(r, k) == r.op \in {"serving", "deleted"} /\ r.k = k
HeldOnce    == \A p, q \in Requests, k \in Keys : Holds(req[p], k) /\ Holds(req[q], k) => p = q

AccessInv == Typed /\ KeysInTime /\ CodesCount /\ AllSound /\ HeldOnce

---------------------------------------------------------------------------
(* The start of the processes *)

LEMMA MayRetry == /\ 0 \in 0 .. MaxRetries
                  /\ \A n \in 0 .. MaxRetries : n < MaxRetries => n + 1 \in 0 .. MaxRetries
  <1>1. MaxRetries \in Nat
    BY AccountsAssumption
  <1>2. QED
    BY <1>1

LEMMA StartInit == Init => StartInv
  <1> SUFFICES ASSUME Init PROVE StartInv
    OBVIOUS
  <1>1. [step |-> "migrate", tries |-> 0] \in Start
    BY MayRetry DEF Start
  <1>2. replica = [r \in Replicas |-> [step |-> "migrate", tries |-> 0]]
    BY DEF Init
  <1>3. \A r \in Replicas : replica[r].step = "migrate"
    BY <1>2
  <1>4. QED
    BY <1>1, <1>2, <1>3 DEF Init, StartInv

LEMMA StartStep == StartInv /\ [Next]_vars => StartInv'
  <1> SUFFICES ASSUME StartInv, [Next]_vars PROVE StartInv'
    OBVIOUS
  <1> USE DEF StartInv, Start
  <1>1. ASSUME UNCHANGED start PROVE StartInv'
    BY <1>1 DEF start
  <1>2. ASSUME NEW r \in Replicas, Boot(r) \/ MigrationFails(r) PROVE StartInv'
    <2>1. CASE ReadRevision(r)
      BY <2>1 DEF ReadRevision, GoTo
    <2>2. CASE CreateTables(r)
      <3>1. schema' = TRUE /\ admin' = admin
        BY <2>2, Zenon DEF CreateTables
      <3>2. CASE schema
        <4>1. Retry(r)
          BY <2>2, <3>2, Zenon DEF CreateTables
        <4>2. QED
          BY <3>1, <3>2, <4>1, MayRetry DEF Retry
      <3>3. CASE ~schema
        <4>1. replica' = [replica EXCEPT ![r].step = "find admin"]
          BY <2>2, <3>3, Zenon DEF CreateTables, GoTo
        <4>2. QED
          BY <3>1, <4>1
      <3>4. QED
        BY <3>2, <3>3
    <2>3. CASE FindAdmin(r)
      BY <2>3 DEF FindAdmin, GoTo
    <2>4. CASE Seed(r)
      BY <2>4 DEF Seed, GoTo
    <2>5. CASE Restart(r)
      BY <2>5, MayRetry DEF Restart
    <2>6. CASE MigrationFails(r)
      BY <2>6, MayRetry DEF MigrationFails, Retry
    <2>7. QED
      BY <1>2, <2>1, <2>2, <2>3, <2>4, <2>5, <2>6 DEF Boot
  <1>3. ASSUME NEW r \in Replicas, Crash(r) PROVE StartInv'
    BY <1>3 DEF Crash, GoTo
  <1>4. CASE \/ Tick \/ EndSession
             \/ \E c \in Codes : RequestCode(c) \/ \E q \in Requests : BeginVerify(q, c)
             \/ \E k \in Keys : \/ \E days \in Lifetimes : CreateKey(k, days)
                                \/ \E q \in Requests : Authenticate(q, k) \/ BeginRevoke(q, k)
             \/ \E q \in Requests : LockRow(q) \/ EndWork(q) \/ Fails(q)
    <2>1. UNCHANGED start
      BY <1>4 DEF Tick, EndSession, RequestCode, BeginVerify, CreateKey, Authenticate, BeginRevoke,
                  LockRow, MarkUsed, Serve, DeleteKey, EndWork, Stamp, SignIn, Served, Revoked, Fails, start
    <2>2. QED
      BY <2>1, <1>1
  <1>5. CASE UNCHANGED vars
    BY <1>5, <1>1 DEF vars
  <1>6. QED
    BY <1>2, <1>3, <1>4, <1>5 DEF Next

\* A process that serves requests has the tables and the admin user, however
\* many processes start together, fail, give up on the migration and repeat
\* (entrypoint.py, lifespan of main.py).
THEOREM UpReady == Spec => []UpIsReady
  <1>1. StartInv => UpIsReady
    BY DEF StartInv, UpIsReady, Up
  <1>2. QED
    BY <1>1, StartInit, StartStep, PTL DEF Spec

---------------------------------------------------------------------------
(* The requests *)

\* What TypeOK says of a request with a key, and of one with a code.
LEMMA KeyRequest ==
  ASSUME NEW r \in Request, r.op \in {"authenticated", "serving"}
  PROVE  r.k \in Keys /\ r.at \in Times /\ r = [op |-> r.op, k |-> r.k, at |-> r.at]
  BY DEF Request, Idle

LEMMA RevokeRequest ==
  ASSUME NEW r \in Request, r.op \in {"known", "revoke", "deleted"}
  PROVE  r.k \in Keys /\ r = [op |-> r.op, k |-> r.k]
  BY DEF Request, Idle

LEMMA CodeRequest ==
  ASSUME NEW r \in Request, r.op \in {"verify", "marked"}
  PROVE  r.c \in Codes /\ r = [op |-> r.op, c |-> r.c]
  BY DEF Request, Idle

LEMMA IdleRequest == Idle \in Request /\ Idle.op = "idle"
  BY DEF Request, Idle

LEMMA IdleSound == \A t, ks : Sound(Idle, t, ks)
  BY DEF Idle, Sound

LEMMA TimesFacts == 1 \in Times /\ Times \subseteq Nat /\ \A t \in Times : t # 0 /\ (t < LastTime => t + 1 \in Times)
  <1>1. LastTime \in Nat \ {0}
    BY AccountsAssumption
  <1>2. QED
    BY <1>1 DEF Times

LEMMA FaultFacts == 0 \in 0 .. MaxFaults /\ \A n \in 0 .. MaxFaults : n < MaxFaults => n + 1 \in 0 .. MaxFaults
  <1>1. MaxFaults \in Nat
    BY AccountsAssumption
  <1>2. QED
    BY <1>1

LEMMA AccessInit == Init => AccessInv
  <1> SUFFICES ASSUME Init PROVE AccessInv
    OBVIOUS
  <1>1. Typed
    <2>1. NewKey \in KeyRow /\ NewCode \in CodeRow
      BY DEF NewKey, NewCode, KeyRow, CodeRow, Never
    <2>2. QED
      BY <2>1, TimesFacts, FaultFacts, IdleRequest DEF Init, Typed
  <1>2. \A q \in Requests : req[q] = Idle
    BY DEF Init
  <1>3. KeysInTime /\ CodesCount
    BY DEF Init, KeysInTime, CodesCount, NewKey, NewCode, Never
  <1>4. AllSound
    BY <1>2, IdleSound DEF AllSound
  <1>5. HeldOnce
    BY <1>2, IdleRequest DEF HeldOnce, Holds
  <1>6. QED
    BY <1>1, <1>3, <1>4, <1>5 DEF AccessInv

LEMMA SoundLater ==
  ASSUME NEW r \in Request, NEW t \in Times, NEW u \in Times, t <= u, NEW ks, Sound(r, t, ks)
  PROVE  Sound(r, u, ks)
  <1>1. r.op \in {"authenticated", "serving"} => r.at \in Times
    BY KeyRequest
  <1>2. r.op \in {"authenticated", "serving"} => r.at <= u
    <2>1. t \in Nat /\ u \in Nat
      BY TimesFacts
    <2>2. r.op \in {"authenticated", "serving"} => r.at \in Nat /\ r.at <= t
      BY <1>1, TimesFacts DEF Sound
    <2>3. QED
      BY <2>1, <2>2
  <1>3. QED
    BY <1>2, Zenon DEF Sound

\* Time goes on or requests end: nothing else changes.
LEMMA Quieter ==
  ASSUME AccessInv, now' \in Times, now <= now', faults' \in 0 .. MaxFaults, cookie' \in BOOLEAN,
         UNCHANGED <<key, code>>, req' \in [Requests -> Request],
         \A q \in Requests : req'[q] = req[q] \/ req'[q] = Idle
  PROVE  AccessInv'
  <1>1. Typed'
    BY DEF AccessInv, Typed
  <1>2. KeysInTime'
    <2>1. now \in Nat /\ now' \in Nat /\ \A k \in Keys : key[k].used \in Nat
      BY TimesFacts DEF AccessInv, Typed, KeyRow
    <2>2. QED
      BY <2>1 DEF AccessInv, KeysInTime
  <1>3. CodesCount'
    BY DEF AccessInv, CodesCount
  <1>4. AllSound'
    <2> SUFFICES ASSUME NEW q \in Requests PROVE Sound(req'[q], now', key)
      BY DEF AllSound
    <2>1. req[q] \in Request /\ now \in Times /\ Sound(req[q], now, key)
      BY DEF AccessInv, Typed, AllSound
    <2>2. Sound(req[q], now', key)
      BY <2>1, SoundLater
    <2>3. QED
      BY <2>2, IdleSound
  <1>5. HeldOnce'
    BY IdleRequest DEF AccessInv, HeldOnce, Holds
  <1>6. QED
    BY <1>1, <1>2, <1>3, <1>4, <1>5 DEF AccessInv

\* One request finds something or gets a lock, which no other request has.
LEMMA OneRequest ==
  ASSUME AccessInv, NEW q \in Requests, NEW r \in Request, Sound(r, now, key),
         \A k \in Keys : Holds(r, k) => \A p \in Requests : ~Holds(req[p], k),
         req' = [req EXCEPT ![q] = r], UNCHANGED <<now, faults, key, code, cookie>>
  PROVE  AccessInv'
  <1>1. /\ req' \in [Requests -> Request] /\ req'[q] = r
        /\ \A p \in Requests \ {q} : req'[p] = req[p]
    BY DEF AccessInv, Typed
  <1>2. Typed'
    BY <1>1 DEF AccessInv, Typed
  <1>3. KeysInTime' /\ CodesCount'
    BY DEF AccessInv, KeysInTime, CodesCount
  <1>4. AllSound'
    BY <1>1 DEF AccessInv, AllSound
  <1>5. HeldOnce'
    BY <1>1 DEF AccessInv, HeldOnce
  <1>6. QED
    BY <1>2, <1>3, <1>4, <1>5 DEF AccessInv

\* The row of one key changes, and at most requests end.
LEMMA OneKey ==
  ASSUME AccessInv, NEW k \in Keys, NEW row \in KeyRow,
         row.used <= now,
         key' = [key EXCEPT ![k] = row], UNCHANGED <<now, faults, code, cookie>>,
         req' \in [Requests -> Request],
         \A q \in Requests : req'[q] = req[q] \/ req'[q] = Idle,
         \A q \in Requests : req'[q].op \in {"known", "authenticated", "serving", "deleted"} /\ req'[q].k = k
                             => Sound(req'[q], now, key')
  PROVE  AccessInv'
  <1>1. /\ key' \in [Keys -> KeyRow] /\ key'[k] = row
        /\ \A l \in Keys \ {k} : key'[l] = key[l]
    BY DEF AccessInv, Typed
  <1>2. Typed'
    BY <1>1 DEF AccessInv, Typed
  <1>3. KeysInTime'
    BY <1>1 DEF AccessInv, KeysInTime
  <1>4. CodesCount'
    BY DEF AccessInv, CodesCount
  <1>5. AllSound'
    <2> SUFFICES ASSUME NEW q \in Requests PROVE Sound(req'[q], now, key')
      BY DEF AllSound
    <2>1. CASE req'[q] = Idle
      BY <2>1, IdleSound
    <2>2. CASE req'[q] = req[q] /\ req[q].op \in {"known", "authenticated", "serving", "deleted"} /\ req[q].k # k
      <3>1. req[q] \in Request /\ Sound(req[q], now, key)
        BY DEF AccessInv, Typed, AllSound
      <3>2. req[q].k \in Keys
        BY <3>1, <2>2, KeyRequest, RevokeRequest
      <3>3. key'[req[q].k] = key[req[q].k]
        BY <3>2, <2>2, <1>1
      <3>4. QED
        BY <3>1, <3>3, <2>2 DEF Sound
    <2>3. CASE req'[q] = req[q] /\ req[q].op \notin {"known", "authenticated", "serving", "deleted"}
      BY <2>3 DEF AccessInv, AllSound, Sound
    <2>4. QED
      BY <2>1, <2>2, <2>3
  <1>6. HeldOnce'
    BY IdleRequest DEF AccessInv, HeldOnce, Holds
  <1>7. QED
    BY <1>2, <1>3, <1>4, <1>5, <1>6 DEF AccessInv

---------------------------------------------------------------------------
(* The actions of the requests *)

\* Time passes, the cookie goes or requests end.
LEMMA EndsOnly ==
  ASSUME AccessInv,
         Tick \/ EndSession \/ (\E r \in Replicas : Crash(r)) \/ (\E q \in Requests : Fails(q))
  PROVE  AccessInv'
  <1> USE IdleRequest DEF AccessInv, Typed, access
  <1>1. now \in Nat
    BY TimesFacts
  <1>2. CASE Tick
    BY <1>1, <1>2, TimesFacts, Quieter DEF Tick
  <1>3. CASE EndSession
    <2>1. UNCHANGED <<now, faults, key, code, req>>
      BY <1>3 DEF EndSession
    <2>2. cookie' \in BOOLEAN
      BY <1>3, Zenon DEF EndSession
    <2>3. now' \in Times /\ now <= now' /\ faults' \in 0 .. MaxFaults /\ req' \in [Requests -> Request]
      BY <1>1, <2>1
    <2>4. QED
      BY <2>1, <2>2, <2>3, Quieter
  <1>4. ASSUME NEW r \in Replicas, Crash(r) PROVE AccessInv'
    <2>1. PICK lost \in MayServe(r) : req' = [q \in Requests |-> IF q \in lost THEN Idle ELSE req[q]]
      BY <1>4 DEF Crash
    <2>2. QED
      BY <1>1, <1>4, <2>1, FaultFacts, Quieter DEF Crash, Fault
  <1>5. ASSUME NEW q \in Requests, Fails(q) PROVE AccessInv'
    BY <1>1, <1>5, FaultFacts, Quieter DEF Fails, Fault, Ends
  <1>6. QED
    BY <1>2, <1>3, <1>4, <1>5

LEMMA StepsOfStart ==
  ASSUME AccessInv, NEW r \in Replicas, Boot(r) \/ MigrationFails(r)
  PROVE  AccessInv'
  <1>1. /\ UNCHANGED <<now, cookie, key, code, req>>
        /\ faults' \in 0 .. MaxFaults
    BY FaultFacts DEF AccessInv, Typed, Boot, ReadRevision, CreateTables, FindAdmin, Seed, Restart,
                      MigrationFails, Fault, access
  <1>2. now \in Nat
    BY TimesFacts DEF AccessInv, Typed
  <1>3. QED
    BY <1>1, <1>2, Quieter DEF AccessInv, Typed

LEMMA RequestCodeKeeps ==
  ASSUME AccessInv, NEW c \in Codes, RequestCode(c)
  PROVE  AccessInv'
  <1>1. [state |-> "live", expires |-> now + CodeLife, used |-> FALSE, signIns |-> 0] \in CodeRow
    <2>1. CodeLife \in Nat
      BY AccountsAssumption
    <2>2. now \in Nat
      BY TimesFacts DEF AccessInv, Typed
    <2>3. QED
      BY <2>1, <2>2 DEF CodeRow
  <1>2. Typed'
    BY <1>1 DEF RequestCode, AccessInv, Typed
  <1>3. CodesCount'
    BY DEF RequestCode, AccessInv, Typed, CodesCount
  <1>4. KeysInTime' /\ AllSound' /\ HeldOnce'
    BY DEF RequestCode, AccessInv, KeysInTime, AllSound, HeldOnce
  <1>5. QED
    BY <1>2, <1>3, <1>4 DEF AccessInv

LEMMA BeginVerifyKeeps ==
  ASSUME AccessInv, NEW c \in Codes, NEW q \in Requests, BeginVerify(q, c)
  PROVE  AccessInv'
  <1> DEFINE r == [op |-> "verify", c |-> c]
  <1>1. r \in Request /\ Sound(r, now, key) /\ \A k \in Keys : ~Holds(r, k)
    BY DEF Request, Sound, Holds
  <1>2. QED
    BY <1>1, OneRequest DEF BeginVerify, Begin, start

LEMMA MarkUsedKeeps ==
  ASSUME AccessInv, NEW q \in Requests, MarkUsed(q)
  PROVE  AccessInv'
  <1> DEFINE r == [op |-> "marked", c |-> req[q].c]
  <1>1. req[q] \in Request /\ req[q].op = "verify"
    BY DEF MarkUsed, AccessInv, Typed
  <1>2. req[q] = [op |-> "verify", c |-> req[q].c] /\ req[q].c \in Codes
    BY <1>1, CodeRequest
  <1>3. r \in Request /\ Sound(r, now, key) /\ \A k \in Keys : ~Holds(r, k)
    BY <1>2 DEF Request, Sound, Holds
  <1>4. [req[q] EXCEPT !.op = "marked"] = r
    BY <1>2
  <1>5. req' = [req EXCEPT ![q] = r]
    BY <1>4 DEF MarkUsed
  <1>6. QED
    BY <1>3, <1>5, OneRequest DEF MarkUsed

\* The code of a sign-in has been used now, by this request at least.
LEMMA SignInKeeps ==
  ASSUME AccessInv, NEW q \in Requests, SignIn(q)
  PROVE  AccessInv'
  <1> DEFINE c == req[q].c
  <1>1. req[q] \in Request /\ req[q].op = "marked"
    BY DEF SignIn, AccessInv, Typed
  <1>2. c \in Codes
    BY <1>1, CodeRequest
  <1> DEFINE row == [state |-> code[c].state, expires |-> code[c].expires,
                     used |-> TRUE, signIns |-> code[c].signIns + 1]
  <1>3. code[c] \in CodeRow
    BY <1>2 DEF AccessInv, Typed
  <1>4. row \in CodeRow /\ row.used = TRUE /\ row.signIns > 0
    BY <1>3 DEF CodeRow
  <1>5. code' = [code EXCEPT ![c].used = TRUE, ![c].signIns = @ + 1]
    BY DEF SignIn
  <1>6. \A d \in Codes \ {c} : code'[d] = code[d]
    BY <1>5, <1>2 DEF AccessInv, Typed
  <1>7. code' \in [Codes -> CodeRow] /\ code'[c].used = TRUE /\ code'[c].signIns > 0
    BY <1>2, <1>3, <1>5 DEF AccessInv, Typed, CodeRow
  <1>8. /\ req' \in [Requests -> Request]
        /\ \A p \in Requests : req'[p] = req[p] \/ req'[p] = Idle
    BY IdleRequest DEF SignIn, Ends, AccessInv, Typed
  <1>9. UNCHANGED <<now, faults, key>> /\ cookie' \in BOOLEAN
    BY Zenon DEF SignIn
  <1>10. Typed'
    BY <1>7, <1>8, <1>9 DEF AccessInv, Typed
  <1>11. CodesCount'
    BY <1>6, <1>7 DEF AccessInv, CodesCount
  <1>12. KeysInTime' /\ AllSound' /\ HeldOnce'
    BY <1>8, <1>9, IdleSound, IdleRequest DEF AccessInv, KeysInTime, AllSound, HeldOnce, Holds
  <1>13. QED
    BY <1>10, <1>11, <1>12 DEF AccessInv

\* No request knows the key yet.
LEMMA CreateKeyKeeps ==
  ASSUME AccessInv, NEW k \in Keys, NEW days \in Lifetimes, CreateKey(k, days)
  PROVE  AccessInv'
  <1> DEFINE row == [state |-> "live", used |-> Never, expires |-> IF days = 0 THEN Never ELSE now + days]
  <1>1. now \in Nat /\ days \in Nat
    <2>1. Lifetimes \subseteq Nat
      BY AccountsAssumption
    <2>2. QED
      BY <2>1, TimesFacts DEF AccessInv, Typed
  <1>2. row \in KeyRow /\ row.used <= now
    BY <1>1 DEF KeyRow, Never
  <1>3. key' = [key EXCEPT ![k] = row] /\ UNCHANGED <<now, faults, code, cookie, req>> /\ key[k].state = "new"
    BY DEF CreateKey
  <1>4. ASSUME NEW q \in Requests, req[q].op \in {"known", "authenticated", "serving", "deleted"} PROVE req[q].k # k
    BY <1>3, <1>4 DEF AccessInv, AllSound, Sound
  <1>5. QED
    BY <1>2, <1>3, <1>4, OneKey DEF AccessInv, Typed

LEMMA AuthenticateKeeps ==
  ASSUME AccessInv, NEW k \in Keys, NEW q \in Requests, Authenticate(q, k)
  PROVE  AccessInv'
  <1> DEFINE r == [op |-> "known", k |-> k]
  <1>1. r \in Request /\ Sound(r, now, key) /\ \A l \in Keys : ~Holds(r, l)
    BY DEF Request, Sound, Holds, Authenticate, LiveKey
  <1>2. QED
    BY <1>1, OneRequest DEF Authenticate, Begin, start

LEMMA StampKeeps ==
  ASSUME AccessInv, NEW q \in Requests, Stamp(q)
  PROVE  AccessInv'
  <1> DEFINE r == [op |-> "authenticated", k |-> req[q].k, at |-> now]
  <1>1. req[q] \in Request /\ req[q].op = "known" /\ Sound(req[q], now, key)
    BY DEF Stamp, AccessInv, Typed, AllSound
  <1>2. req[q].k \in Keys
    BY <1>1, RevokeRequest
  <1>3. now \in Times /\ now \in Nat
    BY TimesFacts DEF AccessInv, Typed
  <1>4. r \in Request /\ Sound(r, now, key) /\ \A l \in Keys : ~Holds(r, l)
    BY <1>1, <1>2, <1>3 DEF Request, Sound, Holds
  <1>5. QED
    BY <1>4, OneRequest DEF Stamp

LEMMA BeginRevokeKeeps ==
  ASSUME AccessInv, NEW k \in Keys, NEW q \in Requests, BeginRevoke(q, k)
  PROVE  AccessInv'
  <1> DEFINE r == [op |-> "revoke", k |-> k]
  <1>1. r \in Request /\ Sound(r, now, key) /\ \A l \in Keys : ~Holds(r, l)
    BY DEF Request, Sound, Holds
  <1>2. QED
    BY <1>1, OneRequest DEF BeginRevoke, Begin, start

\* Only the request that finds the row of its key unlocked and stored gets the lock.
LEMMA ServeKeeps ==
  ASSUME AccessInv, NEW q \in Requests, Serve(q)
  PROVE  AccessInv'
  <1>1. req[q] \in Request /\ req[q].op = "authenticated" /\ Sound(req[q], now, key)
    BY DEF Serve, AccessInv, Typed, AllSound
  <1>2. req[q].k \in Keys /\ req[q].at \in Times /\ req[q] = [op |-> "authenticated", k |-> req[q].k, at |-> req[q].at]
    BY <1>1, KeyRequest
  <1>3. CASE key[req[q].k].state = "live"
    <2> DEFINE r == [op |-> "serving", k |-> req[q].k, at |-> req[q].at]
    <2>1. req' = [req EXCEPT ![q] = r]
      BY <1>2, <1>3 DEF Serve
    <2>2. r \in Request /\ Sound(r, now, key)
      BY <1>1, <1>2, <1>3 DEF Request, Sound
    <2>3. \A k \in Keys : Holds(r, k) => \A p \in Requests : ~Holds(req[p], k)
      BY DEF Serve, KeyLocked, Holds
    <2>4. QED
      BY <2>1, <2>2, <2>3, OneRequest DEF Serve
  <1>4. CASE key[req[q].k].state # "live"
    BY <1>4, IdleRequest, IdleSound, OneRequest DEF Serve, Ends, Holds
  <1>5. QED
    BY <1>3, <1>4

LEMMA DeleteKeyKeeps ==
  ASSUME AccessInv, NEW q \in Requests, DeleteKey(q)
  PROVE  AccessInv'
  <1>1. req[q] \in Request /\ req[q].op = "revoke"
    BY DEF DeleteKey, AccessInv, Typed
  <1>2. req[q].k \in Keys /\ req[q] = [op |-> "revoke", k |-> req[q].k]
    BY <1>1, RevokeRequest
  <1>3. CASE key[req[q].k].state = "live"
    <2> DEFINE r == [op |-> "deleted", k |-> req[q].k]
    <2>1. req' = [req EXCEPT ![q] = r]
      BY <1>2, <1>3 DEF DeleteKey
    <2>2. r \in Request /\ Sound(r, now, key)
      BY <1>2, <1>3 DEF Request, Sound
    <2>3. \A k \in Keys : Holds(r, k) => \A p \in Requests : ~Holds(req[p], k)
      BY DEF DeleteKey, KeyLocked, Holds
    <2>4. QED
      BY <2>1, <2>2, <2>3, OneRequest DEF DeleteKey
  <1>4. CASE key[req[q].k].state # "live"
    BY <1>4, IdleRequest, IdleSound, OneRequest DEF DeleteKey, Ends, Holds
  <1>5. QED
    BY <1>3, <1>4

LEMMA ServedKeeps ==
  ASSUME AccessInv, NEW q \in Requests, Served(q)
  PROVE  AccessInv'
  <1> DEFINE k == req[q].k
             row == [state |-> key[k].state, expires |-> key[k].expires, used |-> req[q].at]
  <1>1. req[q] \in Request /\ req[q].op = "serving" /\ Sound(req[q], now, key)
    BY DEF Served, AccessInv, Typed, AllSound
  <1>2. k \in Keys /\ req[q].at \in Nat
    BY <1>1, KeyRequest, TimesFacts
  <1>3. key[k] \in KeyRow
    BY <1>2 DEF AccessInv, Typed
  <1>4. row \in KeyRow /\ row.used <= now
    BY <1>1, <1>2, <1>3 DEF KeyRow, Sound
  <1>5. key' = [key EXCEPT ![k] = row]
    <2>1. key' = [key EXCEPT ![k].used = req[q].at]
      BY DEF Served
    <2>2. key' \in [Keys -> KeyRow] /\ \A l \in Keys \ {k} : key'[l] = key[l]
      BY <1>2, <1>3, <2>1 DEF AccessInv, Typed, KeyRow
    <2>3. key'[k] = row
      <3>1. /\ key'[k] \in KeyRow /\ key'[k].used = req[q].at
            /\ key'[k].state = key[k].state /\ key'[k].expires = key[k].expires
        BY <1>2, <1>3, <2>1, <2>2 DEF AccessInv, Typed, KeyRow
      <3>2. QED
        BY <3>1 DEF KeyRow
    <2>4. QED
      BY <1>2, <2>2, <2>3 DEF AccessInv, Typed
  <1>6. /\ req' \in [Requests -> Request]
        /\ \A p \in Requests : req'[p] = req[p] \/ req'[p] = Idle
    BY IdleRequest DEF Served, Ends, AccessInv, Typed
  <1>7. key'[k] = row
    BY <1>2, <1>5 DEF AccessInv, Typed
  <1>8. ASSUME NEW p \in Requests, req'[p].op \in {"known", "authenticated", "serving", "deleted"}, req'[p].k = k
        PROVE  Sound(req'[p], now, key')
    <2>1. req'[p] = req[p] /\ Sound(req[p], now, key)
      BY <1>6, <1>8, IdleRequest DEF AccessInv, AllSound
    <2>2. QED
      BY <2>1, <1>7, <1>8 DEF Sound
  <1> HIDE DEF row, k
  <1>9. QED
    BY <1>2, <1>4, <1>5, <1>6, <1>8, OneKey DEF Served

\* No other request works with the key that is deleted.
LEMMA RevokedKeeps ==
  ASSUME AccessInv, NEW q \in Requests, Revoked(q)
  PROVE  AccessInv'
  <1> DEFINE k == req[q].k
             row == [state |-> "gone", expires |-> Never, used |-> Never]
  <1>1. req[q] \in Request /\ req[q].op = "deleted"
    BY DEF Revoked, AccessInv, Typed
  <1>2. k \in Keys
    BY <1>1, RevokeRequest
  <1>3. now \in Nat
    BY TimesFacts DEF AccessInv, Typed
  <1>4. row \in KeyRow /\ row.used <= now
    BY <1>3 DEF KeyRow, Never
  <1>5. key' = [key EXCEPT ![k] = row]
    BY DEF Revoked
  <1>6. /\ req' \in [Requests -> Request] /\ req'[q] = Idle
        /\ \A p \in Requests : req'[p] = req[p] \/ req'[p] = Idle
    BY IdleRequest DEF Revoked, Ends, AccessInv, Typed
  <1>7. key'[k] = row
    BY <1>2, <1>5 DEF AccessInv, Typed
  <1>8. ASSUME NEW p \in Requests, req'[p].op \in {"known", "authenticated", "serving", "deleted"}, req'[p].k = k
        PROVE  Sound(req'[p], now, key')
    <2>1. req'[p] = req[p] /\ Sound(req[p], now, key) /\ p # q
      BY <1>6, <1>8, IdleRequest DEF AccessInv, AllSound
    <2>2. ~Holds(req[p], k)
      BY <1>1, <1>2, <2>1 DEF AccessInv, HeldOnce, Holds
    <2>3. QED
      BY <2>1, <2>2, <1>7, <1>8 DEF Sound, Holds
  <1> HIDE DEF row, k
  <1>9. QED
    BY <1>2, <1>4, <1>5, <1>6, <1>8, OneKey DEF Revoked

LEMMA AccessStep == AccessInv /\ [Next]_vars => AccessInv'
  <1> SUFFICES ASSUME AccessInv, [Next]_vars PROVE AccessInv'
    OBVIOUS
  <1>1. CASE Tick \/ EndSession \/ (\E r \in Replicas : Crash(r)) \/ (\E q \in Requests : Fails(q))
    BY <1>1, EndsOnly
  <1>2. ASSUME NEW r \in Replicas, Boot(r) \/ MigrationFails(r) PROVE AccessInv'
    BY <1>2, StepsOfStart
  <1>3. ASSUME NEW c \in Codes, RequestCode(c) \/ \E q \in Requests : BeginVerify(q, c) PROVE AccessInv'
    BY <1>3, RequestCodeKeeps, BeginVerifyKeeps
  <1>4. ASSUME NEW k \in Keys,
               \/ \E days \in Lifetimes : CreateKey(k, days)
               \/ \E q \in Requests : Authenticate(q, k) \/ BeginRevoke(q, k)
        PROVE  AccessInv'
    BY <1>4, CreateKeyKeeps, AuthenticateKeeps, BeginRevokeKeeps
  <1>5. ASSUME NEW q \in Requests, LockRow(q) \/ EndWork(q) PROVE AccessInv'
    BY <1>5, MarkUsedKeeps, ServeKeeps, DeleteKeyKeeps, StampKeeps, SignInKeeps, ServedKeeps, RevokedKeeps
       DEF LockRow, EndWork
  <1>6. CASE UNCHANGED vars
    <2>1. UNCHANGED <<now, faults, key, code, cookie, req>>
      BY <1>6 DEF vars, access
    <2>2. Typed'
      BY <2>1 DEF AccessInv, Typed
    <2>3. QED
      BY <2>1, <2>2 DEF AccessInv, KeysInTime, CodesCount, AllSound, HeldOnce
  <1>7. QED
    BY <1>1, <1>2, <1>3, <1>4, <1>5, <1>6 DEF Next

LEMMA AccessAlways == Spec => []AccessInv
  BY AccessInit, AccessStep, PTL DEF Spec

\* An endpoint that works with an API key works with one that is stored: a revoke
\* that began meanwhile waits for the lock of its row (authenticate_api_key and
\* revoke_api_key of services/auth.py).
THEOREM KeyInUse == Spec => []InUseIsStored
  <1>1. AccessInv => InUseIsStored
    BY DEF AccessInv, AllSound, Sound, InUseIsStored
  <1>2. QED
    BY <1>1, AccessAlways, PTL

\* Every variable has its type: no last use is in the future, and a code is marked
\* used exactly when somebody has signed in with it.
THEOREM AccountsTypeCorrect == Spec => []TypeOK
  <1>1. StartInv /\ AccessInv => TypeOK
    <2> SUFFICES ASSUME StartInv, AccessInv PROVE TypeOK
      OBVIOUS
    <2>1. /\ now \in Times /\ now \in Nat /\ faults \in 0 .. MaxFaults /\ cookie \in BOOLEAN
          /\ req \in [Requests -> Request]
      BY TimesFacts DEF AccessInv, Typed
    <2>2. schema \in BOOLEAN /\ admin \in BOOLEAN /\ replica \in [Replicas -> Start]
      BY DEF StartInv
    <2>3. ASSUME NEW k \in Keys
          PROVE  /\ key[k].state \in {"new", "live", "gone"} /\ key[k].used \in 0 .. now
                 /\ key[k].expires \in Nat
      BY <2>1 DEF AccessInv, Typed, KeyRow, KeysInTime
    <2>4. ASSUME NEW c \in Codes
          PROVE  /\ code[c].state \in {"new", "live"} /\ code[c].used \in BOOLEAN
                 /\ code[c].used <=> code[c].signIns > 0
      BY DEF AccessInv, Typed, CodeRow, CodesCount
    <2>5. QED
      BY <2>1, <2>2, <2>3, <2>4 DEF TypeOK, Start
  <1>2. Spec => []StartInv
    BY StartInit, StartStep, PTL DEF Spec
  <1>3. QED
    BY <1>1, <1>2, AccessAlways, PTL
=============================================================================
