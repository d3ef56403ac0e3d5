----------------------------- MODULE FindingLedger -----------------------------
(***************************************************************************)
(* What the scanning pipeline promises of the committed database, whatever  *)
(* its transactions interleave: which findings a committed scan, delete or  *)
(* prune may open, close, reopen or drop.  It knows nothing of statements,  *)
(* locks, queues or failures; ScanPipeline implements it.                   *)
(***************************************************************************)
EXTENDS Naturals

CONSTANTS
  Sboms, Findings,
  Scope,      \* Scope[s]: the (project, service) of SBOM s
  Expired     \* SBOMs past the retention cutoff

VARIABLES
  stored,     \* the SBOMs in the database
  arrival,    \* arrival[s]: uploaded_at of s, 0 until s is stored
  link        \* link[<<s, f>>]: absent, open or fixed

ledgerVars == <<stored, arrival, link>>

Keys == Sboms \X Findings

LedgerInit ==
  /\ stored = {}
  /\ arrival = [s \in Sboms |-> 0]
  /\ link = [r \in Keys |-> "absent"]

\* Uploads may be stored in another order than their timestamps.
Store(s) ==
  /\ arrival[s] = 0
  /\ arrival' \in [Sboms -> Nat]
  /\ arrival'[s] > 0
  /\ arrival' = [arrival EXCEPT ![s] = arrival'[s]]
  /\ stored' = stored \cup {s}
  /\ UNCHANGED link

\* What a scan of s may do to one link: open or close s's own, close an older
\* SBOM's in the scope of s, and nothing else.
ScanMay(s, r) ==
  \/ link'[r] = link[r]
  \/ r[1] = s /\ s \in stored
     /\ <<link[r], link'[r]>> \in {<<"absent", "open">>, <<"open", "fixed">>}
  \/ r[1] \in stored /\ Scope[r[1]] = Scope[s] /\ arrival[r[1]] < arrival[s]
     /\ link[r] = "open" /\ link'[r] = "fixed"

ScanCommitted(s) ==
  /\ arrival[s] > 0
  /\ link' \in [Keys -> {"absent", "open", "fixed"}]
  /\ \A r \in Keys : ScanMay(s, r)
  /\ UNCHANGED <<stored, arrival>>

\* A delete takes the links of s with it, and reopens or closes findings of
\* the SBOMs that remain in its scope.
DeleteMay(s, r) ==
  IF r[1] = s THEN link'[r] = "absent"
  ELSE \/ link'[r] = link[r]
       \/ r[1] \in stored /\ Scope[r[1]] = Scope[s]
          /\ link[r] # "absent" /\ link'[r] # "absent"

Deleted(s) ==
  /\ arrival[s] > 0
  /\ stored' = stored \ {s}
  /\ link' \in [Keys -> {"absent", "open", "fixed"}]
  /\ \A r \in Keys : DeleteMay(s, r)
  /\ UNCHANGED arrival

\* A prune removes expired SBOMs, and links of expired SBOMs.
Pruned(S) ==
  /\ S \subseteq Expired
  /\ stored' = stored \ S
  /\ link' \in [Keys -> {"absent", "open", "fixed"}]
  /\ \A r \in Keys : \/ link'[r] = link[r] /\ r[1] \notin S
                     \/ link'[r] = "absent" /\ r[1] \in Expired
  /\ UNCHANGED arrival

LedgerNext ==
  \/ \E s \in Sboms : Store(s) \/ ScanCommitted(s) \/ Deleted(s)
  \/ \E S \in SUBSET Expired : Pruned(S)

LedgerSpec == LedgerInit /\ [][LedgerNext]_ledgerVars
=============================================================================
