---------------------------------- MODULE Paging ----------------------------------
(***************************************************************************)
(* A client reads a list page by page while its rows are inserted and       *)
(* deleted.  Every page is a request of its own, and most run two           *)
(* statements, a count and the rows, each of which sees the commits so far. *)
(***************************************************************************)
EXTENDS Naturals, FiniteSets

CONSTANTS
  MaxRow,      \* bound: rows are 1 .. MaxRow
  Key,         \* Key[r]: the value of the column the list is sorted by
  PerPage,     \* page size
  MaxChanges   \* bound: inserts and deletes

Rows == 1 .. MaxRow

ASSUME PagingAssumption ==
  /\ MaxRow \in Nat /\ MaxChanges \in Nat /\ PerPage \in Nat \ {0}
  /\ \A r \in Rows : Key[r] \in Nat

---------------------------------------------------------------------------
(* The lists.  unique: the id ends the ORDER BY, or the key itself is unique;    *)
(* more: how has_more is known, from one row more than the page shows, from the  *)
(* count of the statement before, or from a list that is read whole; clamped:   *)
(* paginate cuts it, which skips no more rows than it has counted.              *)

AnyOrder   == [unique |-> FALSE, more |-> "ahead", clamped |-> TRUE]
FullOrder  == [unique |-> TRUE,  more |-> "ahead", clamped |-> FALSE]
CountFirst == [unique |-> TRUE,  more |-> "count", clamped |-> FALSE]
Whole      == [unique |-> FALSE, more |-> "whole", clamped |-> FALSE]

RestProjects      == AnyOrder    \* created_at; PATCH keeps it
RestHistory       == AnyOrder    \* created_at, the date in the document
RestActive        == AnyOrder    \* a score, shared by many
RestAcceptances   == AnyOrder
RestAlerts        == AnyOrder
ProjectsPage      == AnyOrder
ActivePage        == AnyOrder
AcceptedPage      == AnyOrder
SbomsPage         == AnyOrder
ProjectSbomsPage  == AnyOrder
ProjectVulnsPage  == Whole       \* _get_project_vulns, sliced
McpProjects       == CountFirst
McpServices       == CountFirst  \* the name is unique in its project
McpSboms          == CountFirst
McpDependencies   == FullOrder
McpSbomVulns      == FullOrder   \* sorted by the key of the rows
McpVulnerabilities == CountFirst
McpAlerts         == CountFirst
McpAcceptances    == CountFirst

Lists == {RestProjects, RestHistory, RestActive, RestAcceptances, RestAlerts,
          ProjectsPage, ActivePage, AcceptedPage, SbomsPage, ProjectSbomsPage, ProjectVulnsPage,
          McpProjects, McpServices, McpSboms, McpDependencies, McpSbomVulns,
          McpVulnerabilities, McpAlerts, McpAcceptances}

VARIABLES
  table,    \* the rows that are stored
  used,     \* rows that have ever been stored: ids are not used again
  changes,
  step,     \* what the client does next with its list, at which page,
  list, page,
  total,    \* the count that the last page began with
  times,    \* times[r]: how often r has been returned
  there,    \* the rows stored ever since the first request
  inserts, deletes   \* whether there were any during the walk

walk == <<step, list, page, total, times, there, inserts, deletes>>
vars == <<table, used, changes, walk>>

\* One for each time that a row was returned.
Returned == UNION {{r} \X (1 .. times[r]) : r \in Rows}

TypeOK ==
  /\ table \subseteq used /\ used \subseteq Rows /\ changes \in 0 .. MaxChanges
  /\ step \in {"idle", "count", "rows", "end"} /\ list \in Lists
  /\ page \in Nat /\ total \in Nat /\ times \in [Rows -> Nat]
  /\ there \subseteq Rows /\ inserts \in BOOLEAN /\ deletes \in BOOLEAN
  /\ Cardinality(Returned) <= page * PerPage

Init ==
  /\ table \in SUBSET Rows /\ used = table /\ changes = 0
  /\ step = "idle" /\ list = AnyOrder /\ page = 0 /\ total = 0
  /\ times = [r \in Rows |-> 0] /\ there = {} /\ inserts = FALSE /\ deletes = FALSE

\* A walk begins with any table, so changes matter while it lasts.
UnderWalk(kept) ==
  /\ step \in {"count", "rows"}
  /\ changes < MaxChanges /\ changes' = changes + 1
  /\ there' = there \cap kept
  /\ UNCHANGED <<step, list, page, total, times>>

Insert(r) ==
  /\ r \notin used /\ UnderWalk(table)
  /\ table' = table \cup {r} /\ used' = used \cup {r}
  /\ inserts' = TRUE /\ UNCHANGED deletes

Remove(r) ==
  /\ r \in table /\ UnderWalk(table \ {r})
  /\ table' = table \ {r} /\ deletes' = TRUE
  /\ UNCHANGED <<used, inserts>>

Begin(l) ==
  /\ step = "idle" /\ step' = "count"
  /\ list' = l /\ there' = table
  /\ UNCHANGED <<table, used, changes, page, total, times, inserts, deletes>>

Count ==
  /\ step = "count" /\ step' = "rows"
  /\ total' = Cardinality(table)
  /\ UNCHANGED <<table, used, changes, list, page, times, there, inserts, deletes>>

\* The sets of n rows a statement may put first; rows of one key come as the plan
\* of the day has them unless the id decides.
Before(r, s) == Key[r] > Key[s] \/ (list.unique /\ Key[r] = Key[s] /\ r < s)
Tops(n) ==
  {A \in SUBSET table :
     /\ Cardinality(A) = n \/ (A = table /\ Cardinality(A) < n)
     /\ \A r \in A, s \in table \ A : ~Before(s, r)}

\* Mutant: pages are counted from one, offsets too.
OffsetOneBased == (page + 1) * PerPage

Offset == page * PerPage

\* Mutant: a page beyond the end shows the last one.
LastPageInstead ==
  IF list.clamped /\ total <= Offset
  THEN IF total > PerPage THEN total - PerPage ELSE 0 ELSE Offset

\* paginate never skips more rows than it counted, against overflow.
Skipped == IF list.clamped /\ total < Offset THEN total ELSE Offset

\* Mutant: the row ahead is returned with the page.
PagesAndAhead(from) ==
  UNION {{B \ A : B \in {T \in Tops(from + PerPage + 1) : A \subseteq T}} : A \in Tops(from)}

Pages(from) ==
  UNION {{B \ A : B \in {T \in Tops(from + PerPage) : A \subseteq T}} : A \in Tops(from)}

\* Mutants: has_more from the count for every list; without the page's offset.
MoreCounted(rows) == Offset + Cardinality(rows) < total
MoreUnshifted(rows) == Cardinality(rows) < total

HasMore(rows) ==
  \/ list.more = "ahead" /\ Cardinality(table) > Skipped + PerPage
  \/ list.more = "count" /\ Offset + Cardinality(rows) < total
  \/ list.more = "whole" /\ Cardinality(table) > Offset + PerPage

\* Bound: the pages that begin after MaxRow rows are all taken for one.
Fetch ==
  /\ step = "rows"
  /\ \E rows \in Pages(Skipped) :
       /\ times' = [r \in Rows |-> IF r \in rows THEN times[r] + 1 ELSE times[r]]
       /\ step' = IF HasMore(rows) THEN "count" ELSE "end"
  /\ page' = IF Offset <= MaxRow THEN page + 1 ELSE page
  /\ UNCHANGED <<table, used, changes, list, total, there, inserts, deletes>>

Next ==
  \/ \E r \in Rows : Insert(r) \/ Remove(r)
  \/ \E l \in Lists : Begin(l)
  \/ Count
  \/ Fetch

Spec == Init /\ [][Next]_vars

\* Requests are answered, and the client asks as long as it is told to.
FairSpec == Spec /\ WF_vars(Count) /\ WF_vars(Fetch)

---------------------------------------------------------------------------
(* Properties *)

\* Nothing is promised about rows that share a key in a list without a full order.
Ordered ==
  list.unique \/ \A r, s \in used : Key[r] = Key[s] => r = s

Ended == step = "end"

\* A list that nobody changes is returned whole, each row once.
StillListIsRead ==
  Ended /\ Ordered /\ ~inserts /\ ~deletes =>
    \A r \in Rows : times[r] = IF r \in there THEN 1 ELSE 0

\* New rows push others to later pages but hide none of them, save from lists
\* that take has_more from a count which is older than the rows.
InsertsHideNothing ==
  Ended /\ Ordered /\ ~deletes /\ list.more # "count" =>
    \A r \in there : times[r] > 0

\* Deleted rows pull others forward, past the client, but none is returned twice.
DeletesRepeatNothing ==
  Ended /\ Ordered /\ ~inserts => \A r \in Rows : times[r] <= 1

\* A client that goes on as long as has_more says so comes to an end.
WalksEnd == step = "count" ~> Ended
=============================================================================
