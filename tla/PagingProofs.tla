------------------------------ MODULE PagingProofs ------------------------------
(***************************************************************************)
(* Theorems about Paging, for any number of rows, any keys, page size and   *)
(* changes: what a walk through a list returns.                             *)
(***************************************************************************)
EXTENDS Paging, FiniteSetTheorems, TLAPS

-----------------------------------------------------------------------------
(* The invariant.                                                            *)

\* The rows before r in the order of the list, and its place among them.
Ahead(r)    == {s \in table : Before(s, r)}
Position(r) == Cardinality(Ahead(r))

Typed ==
  /\ table \subseteq used /\ used \subseteq Rows
  /\ step \in {"idle", "count", "rows", "end"} /\ list \in Lists
  /\ page \in Nat /\ total \in Nat /\ times \in [Rows -> Nat]
  /\ there \subseteq Rows /\ inserts \in BOOLEAN /\ deletes \in BOOLEAN

\* Who was there and what was counted, as far as nothing has been changed.
Remembered ==
  /\ step = "idle" => page = 0 /\ ~inserts /\ ~deletes /\ there = {} /\ \A r \in Rows : times[r] = 0
  /\ ~deletes => there \subseteq table
  /\ ~inserts /\ ~deletes /\ step # "idle" => there = table
  /\ ~inserts /\ ~deletes => \A r \in Rows : times[r] > 0 => r \in there
  /\ step = "rows" /\ ~inserts => Cardinality(table) <= total
  /\ step = "rows" /\ ~deletes => total <= Cardinality(table)
  /\ list.more = "ahead" /\ ~deletes =>
       /\ step = "count" => Cardinality(table) >= Offset
       /\ step = "rows" => total >= Offset

\* Without inserts what was returned is before the page that comes next.
NotAgain ==
  Ordered /\ ~inserts =>
    \A r \in Rows : /\ times[r] <= 1
                    /\ times[r] = 1 /\ r \in table /\ step # "end" => Position(r) < Offset

\* Without deletes what was not returned is not before that page, save where a
\* count is older than the rows.
Steady == ~deletes /\ (list.more = "count" => ~inserts)

NotMissed ==
  Ordered /\ Steady =>
    \A r \in there : times[r] > 0 \/ (step # "end" /\ Position(r) >= Offset)

WalkInv == Typed /\ Remembered /\ NotAgain /\ NotMissed

-----------------------------------------------------------------------------
(* Sets of rows and their places.                                            *)

LEMMA ListKinds ==
  ASSUME NEW l \in Lists
  PROVE  /\ l.unique \in BOOLEAN /\ l.more \in {"ahead", "count", "whole"}
         /\ l.clamped => l.more = "ahead"
  <1>1. l \in {AnyOrder, FullOrder, CountFirst, Whole}
    BY DEF Lists,
       RestProjects, RestHistory, RestActive, RestAcceptances, RestAlerts,
       ProjectsPage, ActivePage, AcceptedPage, SbomsPage, ProjectSbomsPage, ProjectVulnsPage,
       McpProjects, McpServices, McpSboms, McpDependencies, McpSbomVulns,
       McpVulnerabilities, McpAlerts, McpAcceptances
  <1>2. /\ AnyOrder.more = "ahead" /\ FullOrder.more = "ahead"
        /\ CountFirst.more = "count" /\ Whole.more = "whole"
    BY DEF AnyOrder, FullOrder, CountFirst, Whole
  <1>3. l.more \in {"ahead", "count", "whole"}
    BY <1>1, <1>2
  <1>4. /\ AnyOrder.unique = FALSE /\ FullOrder.unique = TRUE
        /\ CountFirst.unique = TRUE /\ Whole.unique = FALSE
    BY DEF AnyOrder, FullOrder, CountFirst, Whole
  <1>5. l.unique \in BOOLEAN
    BY <1>1, <1>4, Zenon
  <1>6. ~FullOrder.clamped /\ ~CountFirst.clamped /\ ~Whole.clamped
    BY DEF FullOrder, CountFirst, Whole
  <1>7. l.clamped => l.more = "ahead"
    BY <1>1, <1>2, <1>6, Zenon
  <1>8. QED
    BY <1>3, <1>5, <1>7

LEMMA RowSets ==
  ASSUME NEW S \in SUBSET Rows
  PROVE  IsFiniteSet(S) /\ Cardinality(S) \in Nat /\ Cardinality(S) <= MaxRow
  <1>1. IsFiniteSet(Rows) /\ Cardinality(Rows) = MaxRow
    BY PagingAssumption, FS_Interval DEF Rows
  <1>2. QED
    BY <1>1, FS_Subset, FS_CardinalityType

LEMMA OffsetSum ==
  ASSUME NEW p \in Nat
  PROVE  /\ p * PerPage \in Nat
         /\ (p + 1) * PerPage = p * PerPage + PerPage
  BY PagingAssumption

LEMMA Places ==
  ASSUME Typed, NEW r \in table
  PROVE  /\ Ahead(r) \in SUBSET (table \ {r}) /\ table \in SUBSET Rows
         /\ Position(r) \in Nat /\ Position(r) < Cardinality(table) /\ Cardinality(table) <= MaxRow
  <1>1. r \in Rows /\ table \in SUBSET Rows
    BY DEF Typed
  <1>2. ~Before(r, r)
    BY <1>1, PagingAssumption DEF Before, Rows
  <1>3. Ahead(r) \in SUBSET (table \ {r})
    BY <1>2 DEF Ahead
  <1>4. IsFiniteSet(table) /\ Cardinality(table) \in Nat /\ Cardinality(table) <= MaxRow
    BY <1>1, RowSets
  <1>5. Cardinality(table \ {r}) = Cardinality(table) - 1 /\ IsFiniteSet(table \ {r})
    BY <1>4, FS_RemoveElement
  <1>6. Cardinality(Ahead(r)) <= Cardinality(table \ {r}) /\ Cardinality(Ahead(r)) \in Nat
    BY <1>3, <1>5, FS_Subset, FS_CardinalityType
  <1>7. QED
    BY <1>1, <1>3, <1>4, <1>5, <1>6 DEF Position

LEMMA Comparable ==
  ASSUME Typed, Ordered, NEW r \in used, NEW s \in used, r # s
  PROVE  Before(r, s) \/ Before(s, r)
  <1>1. r \in Nat /\ s \in Nat /\ Key[r] \in Nat /\ Key[s] \in Nat
    BY PagingAssumption DEF Typed, Rows
  <1>2. CASE Key[r] = Key[s]
    <2>1. list.unique
      BY <1>2 DEF Ordered
    <2>2. QED
      BY <1>1, <1>2, <2>1 DEF Before
  <1>3. CASE Key[r] # Key[s]
    BY <1>1, <1>3 DEF Before
  <1>4. QED
    BY <1>2, <1>3

\* The first n rows of a list with a full order are those at the places below n.
LEMMA FirstRows ==
  ASSUME Typed, Ordered, NEW n \in Nat, NEW A \in Tops(n), NEW r \in table
  PROVE  r \in A <=> Position(r) < n
  <1>1. /\ A \in SUBSET table /\ (Cardinality(A) = n \/ (A = table /\ Cardinality(A) < n))
        /\ \A x \in A, s \in table \ A : ~Before(s, x)
    BY DEF Tops
  <1>2. /\ IsFiniteSet(A) /\ Cardinality(A) \in Nat /\ IsFiniteSet(Ahead(r))
        /\ Position(r) \in Nat /\ r \notin Ahead(r) /\ Ahead(r) \in SUBSET table
    BY <1>1, Places, RowSets
  <1>3. ASSUME r \in A PROVE Position(r) < n
    <2>1. Ahead(r) \in SUBSET (A \ {r})
      BY <1>1, <1>2, <1>3 DEF Ahead
    <2>2. Cardinality(A \ {r}) = Cardinality(A) - 1 /\ IsFiniteSet(A \ {r})
      BY <1>2, <1>3, FS_RemoveElement
    <2>3. Position(r) <= Cardinality(A \ {r})
      BY <2>1, <2>2, FS_Subset DEF Position
    <2>4. QED
      BY <1>1, <1>2, <2>2, <2>3
  <1>4. ASSUME r \notin A PROVE ~(Position(r) < n)
    <2>1. Cardinality(A) = n
      BY <1>1, <1>4
    <2>2. ASSUME NEW s \in A PROVE s \in Ahead(r)
      <3>1. ~Before(r, s) /\ s \in table /\ r # s /\ s \in used /\ r \in used
        BY <1>1, <1>4 DEF Typed
      <3>2. QED
        BY <3>1, Comparable DEF Ahead
    <2>3. Cardinality(A) <= Cardinality(Ahead(r))
      BY <1>2, <2>2, FS_Subset
    <2>4. QED
      BY <1>2, <2>1, <2>3 DEF Position
  <1>5. QED
    BY <1>3, <1>4

\* A page is a subset of the table, and in a full order it is the rows of its places;
\* rows behind it mean that it is full and more than it is stored.
LEMMA PageRows ==
  ASSUME Typed, NEW from \in Nat, NEW rows \in Pages(from)
  PROVE  /\ rows \in SUBSET table
         /\ Ordered => \A r \in table : r \in rows <=> from <= Position(r) /\ Position(r) < from + PerPage
         /\ Ordered => \A r \in table : Position(r) >= from + PerPage =>
                         from + Cardinality(rows) < Cardinality(table)
  <1>1. PICK A \in Tops(from) : rows \in {B \ A : B \in {T \in Tops(from + PerPage) : A \subseteq T}}
    BY DEF Pages
  <1>2. PICK B \in Tops(from + PerPage) : A \subseteq B /\ rows = B \ A
    BY <1>1
  <1>3. A \in SUBSET table /\ B \in SUBSET table /\ from + PerPage \in Nat
    BY PagingAssumption DEF Tops
  <1>4. ASSUME Ordered, NEW r \in table
        PROVE  r \in rows <=> from <= Position(r) /\ Position(r) < from + PerPage
    <2>1. (r \in A <=> Position(r) < from) /\ (r \in B <=> Position(r) < from + PerPage)
      BY <1>3, <1>4, FirstRows
    <2>2. QED
      BY <1>2, <1>4, <2>1, Places
  <1>5. ASSUME Ordered, NEW r \in table, Position(r) >= from + PerPage
        PROVE  from + Cardinality(rows) < Cardinality(table)
    <2>1. r \notin B /\ r \notin A /\ Position(r) \in Nat
      <3>1. (r \in A <=> Position(r) < from) /\ (r \in B <=> Position(r) < from + PerPage)
        BY <1>3, <1>5, FirstRows
      <3>2. QED
        BY <1>5, <3>1, Places, PagingAssumption
    <2>2. Cardinality(A) = from /\ Cardinality(B) = from + PerPage
      BY <1>5, <2>1 DEF Tops
    <2>3. IsFiniteSet(A) /\ IsFiniteSet(B) /\ IsFiniteSet(table) /\ Cardinality(table) \in Nat
      BY <1>3, RowSets DEF Typed
    <2>4. Cardinality(rows) = Cardinality(B) - Cardinality(A)
      <3>1. B \cap A = A
        BY <1>2
      <3>2. QED
        BY <1>2, <2>3, <3>1, FS_Difference
    <2>5. B # table
      BY <1>5, <2>1
    <2>6. Cardinality(B) <= Cardinality(table) /\ Cardinality(B) # Cardinality(table)
      BY <1>3, <2>3, <2>5, FS_Subset
    <2>7. QED
      BY <2>2, <2>3, <2>4, <2>6, PagingAssumption
  <1>6. QED
    BY <1>2, <1>3, <1>4, <1>5

LEMMA PlacesNext ==
  ASSUME Typed', NEW r \in table'
  PROVE  Position(r)' \in Nat
  <1>1. Ahead(r)' \in SUBSET Rows
    BY DEF Ahead, Typed
  <1>2. QED
    BY <1>1, RowSets DEF Position

-----------------------------------------------------------------------------
(* The steps.                                                                *)

LEMMA WalkInit == Init => WalkInv
  <1> SUFFICES ASSUME Init PROVE WalkInv
    OBVIOUS
  <1>1. Typed
    BY DEF Init, Typed, Lists, RestProjects
  <1>2. Remembered
    <2>1. /\ step = "idle" /\ ~inserts /\ ~deletes /\ there = {} /\ \A r \in Rows : times[r] = 0
          /\ page = 0
      BY DEF Init
    <2>2. QED
      BY <2>1 DEF Remembered
  <1>3. NotAgain /\ NotMissed
    BY DEF Init, NotAgain, NotMissed
  <1>4. QED
    BY <1>1, <1>2, <1>3 DEF WalkInv

\* The order of the list is that of the step before as long as the list is the same.
LEMMA SameOrder ==
  ASSUME list' = list, used \subseteq used'
  PROVE  /\ \A r, s : Before(r, s)' <=> Before(r, s)
         /\ Ordered' => Ordered
  BY DEF Before, Ordered

LEMMA BeginStep ==
  ASSUME WalkInv, NEW l \in Lists, Begin(l)
  PROVE  WalkInv'
  <1>0. Typed /\ Remembered
    BY DEF WalkInv
  <1>1. /\ step = "idle" /\ step' = "count" /\ list' = l /\ there' = table
        /\ UNCHANGED <<table, used, page, total, times, inserts, deletes>>
    BY DEF Begin
  <1>2. Typed'
    BY <1>0, <1>1 DEF Typed
  <1>3. page' = 0 /\ Offset' = 0 /\ \A r \in Rows : times'[r] = 0
    BY <1>0, <1>1, PagingAssumption DEF Remembered, Offset
  <1>4. Cardinality(table) \in Nat
    BY <1>0, RowSets DEF Typed
  <1>5. ~inserts' /\ ~deletes'
    BY <1>0, <1>1, Zenon DEF Remembered
  <1>10. Remembered'
    BY <1>1, <1>3, <1>4, <1>5 DEF Remembered
  <1>6. NotAgain'
    BY <1>3 DEF NotAgain
  <1>7. \A r \in table' : Position(r)' \in Nat
    BY <1>2, PlacesNext
  <1>8. NotMissed'
    BY <1>1, <1>3, <1>7 DEF NotMissed
  <1>9. QED
    BY <1>2, <1>6, <1>8, <1>10 DEF WalkInv

LEMMA CountStep ==
  ASSUME WalkInv, Count
  PROVE  WalkInv'
  <1>0. Typed /\ Remembered /\ NotAgain /\ NotMissed
    BY DEF WalkInv
  <1>1. /\ step = "count" /\ step' = "rows" /\ total' = Cardinality(table)
        /\ UNCHANGED <<table, used, list, page, times, there, inserts, deletes>>
    BY DEF Count
  <1>2. Cardinality(table) \in Nat
    BY <1>0, RowSets DEF Typed
  <1>3. Typed'
    BY <1>0, <1>1, <1>2 DEF Typed
  <1>4. Remembered'
    <2>1. (inserts' <=> inserts) /\ (deletes' <=> deletes) /\ Offset' = Offset
      BY <1>1, Zenon DEF Offset
    <2>2. step = "count" /\ step' = "rows" /\ total' = Cardinality(table) /\ table' = table
          /\ list' = list /\ times' = times /\ there' = there
      BY <1>1
    <2>3. QED
      BY <1>0, <1>2, <2>1, <2>2 DEF Remembered
  <1>5. \A r : Position(r)' = Position(r)
    BY <1>1 DEF Position, Ahead, Before
  <1>6. NotAgain'
    BY <1>0, <1>1, <1>5 DEF NotAgain, Ordered, Offset
  <1>7. NotMissed'
    BY <1>0, <1>1, <1>5 DEF NotMissed, Steady, Ordered, Offset
  <1>8. QED
    BY <1>3, <1>4, <1>6, <1>7 DEF WalkInv

LEMMA InsertStep ==
  ASSUME WalkInv, NEW r \in Rows, Insert(r)
  PROVE  WalkInv'
  <1>0. Typed /\ Remembered /\ NotAgain /\ NotMissed
    BY DEF WalkInv
  <1>1. /\ r \notin used /\ table' = table \cup {r} /\ used' = used \cup {r} /\ inserts' = TRUE
        /\ there' = there \cap table /\ step \in {"count", "rows"}
        /\ UNCHANGED <<step, list, page, total, times, deletes>>
    BY DEF Insert, UnderWalk
  <1>2. Typed'
    BY <1>0, <1>1 DEF Typed
  <1>3. /\ IsFiniteSet(table') /\ Cardinality(table') \in Nat
        /\ Cardinality(table) \in Nat /\ Cardinality(table) <= Cardinality(table')
    <2>1. table' \in SUBSET Rows /\ table \in SUBSET table' /\ table \in SUBSET Rows
      BY <1>0, <1>1, <1>2 DEF Typed
    <2>2. QED
      BY <2>1, RowSets, FS_Subset
  <1>4. Remembered'
    <2>1. Offset' = Offset /\ Offset \in Nat
      BY <1>0, <1>1, OffsetSum DEF Offset, Typed
    <2>2. inserts' /\ (deletes' <=> deletes)
      BY <1>1, Zenon
    <2>3. total \in Nat /\ total' = total /\ list' = list /\ step' = step
      BY <1>0, <1>1 DEF Typed
    <2>4. ~deletes => there' \subseteq table'
      BY <1>1
    <2>5. QED
      BY <1>0, <1>1, <1>3, <2>1, <2>2, <2>3, <2>4 DEF Remembered
  <1>5. NotAgain'
    BY <1>1 DEF NotAgain
  <1>6. NotMissed'
    <2> SUFFICES ASSUME Ordered', Steady', NEW s \in there'
                 PROVE  times'[s] > 0 \/ (step' # "end" /\ Position(s)' >= Offset')
      BY DEF NotMissed
    <2>1. Ordered /\ Steady /\ s \in there /\ s \in table
      BY <1>0, <1>1, SameOrder DEF Steady
    <2>2. times[s] > 0 \/ Position(s) >= Offset
      BY <1>0, <2>1 DEF NotMissed
    <2>3. Position(s) <= Position(s)' /\ Position(s) \in Nat /\ Position(s)' \in Nat
      <3>1. Ahead(s) \subseteq Ahead(s)'
        BY <1>1, SameOrder DEF Ahead
      <3>2. Ahead(s)' \in SUBSET Rows
        BY <1>2 DEF Ahead, Typed
      <3>3. IsFiniteSet(Ahead(s)')
        BY <3>2, RowSets
      <3>4. Position(s) <= Position(s)'
        BY <3>1, <3>3, FS_Subset DEF Position
      <3>5. QED
        BY <1>0, <2>1, <3>2, <3>4, Places, RowSets DEF Position
    <2>4. Offset' = Offset /\ Offset \in Nat
      BY <1>0, <1>1, OffsetSum DEF Offset, Typed
    <2>5. QED
      BY <1>1, <2>2, <2>3, <2>4
  <1>7. QED
    BY <1>2, <1>4, <1>5, <1>6 DEF WalkInv

LEMMA RemoveStep ==
  ASSUME WalkInv, NEW r \in Rows, Remove(r)
  PROVE  WalkInv'
  <1>0. Typed /\ Remembered /\ NotAgain
    BY DEF WalkInv
  <1>1. /\ r \in table /\ table' = table \ {r} /\ deletes' = TRUE
        /\ there' = there \cap (table \ {r}) /\ step \in {"count", "rows"}
        /\ UNCHANGED <<used, step, list, page, total, times, inserts>>
    BY DEF Remove, UnderWalk
  <1>2. Typed'
    BY <1>0, <1>1 DEF Typed
  <1>3. /\ Cardinality(table') \in Nat
        /\ Cardinality(table) \in Nat /\ Cardinality(table') <= Cardinality(table)
    <2>1. table' \in SUBSET Rows /\ table' \in SUBSET table /\ table \in SUBSET Rows
      BY <1>0, <1>1, <1>2 DEF Typed
    <2>2. QED
      BY <2>1, RowSets, FS_Subset
  <1>4. Remembered'
    <2>1. deletes' /\ (inserts' <=> inserts)
      BY <1>1, Zenon
    <2>2. total \in Nat /\ total' = total /\ step' = step
      BY <1>0, <1>1 DEF Typed
    <2>3. QED
      BY <1>0, <1>1, <1>3, <2>1, <2>2 DEF Remembered
  <1>5. NotMissed'
    BY <1>1 DEF NotMissed, Steady
  <1>6. NotAgain'
    <2> SUFFICES ASSUME Ordered', ~inserts', NEW s \in Rows
                 PROVE  /\ times'[s] <= 1
                        /\ times'[s] = 1 /\ s \in table' /\ step' # "end" => Position(s)' < Offset'
      BY DEF NotAgain
    <2>1. Ordered /\ ~inserts
      BY <1>1, SameOrder
    <2>2. ASSUME s \in table' PROVE Position(s)' <= Position(s) /\ Position(s) \in Nat /\ Position(s)' \in Nat
      <3>1. Ahead(s)' \subseteq Ahead(s)
        BY <1>1, SameOrder DEF Ahead
      <3>2. Ahead(s)' \in SUBSET Rows /\ Ahead(s) \in SUBSET Rows
        BY <1>0, <1>2 DEF Ahead, Typed
      <3>3. IsFiniteSet(Ahead(s)) /\ Cardinality(Ahead(s)) \in Nat /\ Cardinality(Ahead(s)') \in Nat
        BY <3>2, RowSets
      <3>4. Cardinality(Ahead(s)') <= Cardinality(Ahead(s))
        BY <3>1, <3>3, FS_Subset
      <3>5. QED
        BY <3>3, <3>4 DEF Position
    <2>3. Offset' = Offset /\ Offset \in Nat
      BY <1>0, <1>1, OffsetSum DEF Offset, Typed
    <2>4. QED
      BY <1>0, <1>1, <2>1, <2>2, <2>3 DEF NotAgain
  <1>7. QED
    BY <1>2, <1>4, <1>5, <1>6 DEF WalkInv

\* The next page begins where this one ends, or beyond every row.
LEMMA NextOffset ==
  ASSUME Typed, Fetch
  PROVE  /\ Offset \in Nat /\ Offset' \in Nat /\ Offset <= Offset' /\ Offset' <= Offset + PerPage
         /\ Offset <= MaxRow => Offset' = Offset + PerPage
  <1>1. page' = IF Offset <= MaxRow THEN page + 1 ELSE page
    BY DEF Fetch
  <1>2. page \in Nat /\ PerPage \in Nat
    BY PagingAssumption DEF Typed
  <1>3. Offset \in Nat /\ (page + 1) * PerPage = Offset + PerPage
    BY <1>2, OffsetSum DEF Offset
  <1>4. Offset' = IF Offset <= MaxRow THEN Offset + PerPage ELSE Offset
    BY <1>1, <1>3 DEF Offset
  <1>5. QED
    BY <1>2, <1>3, <1>4

LEMMA FetchStep ==
  ASSUME WalkInv, Fetch
  PROVE  WalkInv'
  <1>0. Typed /\ Remembered /\ NotAgain /\ NotMissed
    BY DEF WalkInv
  <1>1. PICK rows \in Pages(Skipped) :
          /\ times' = [r \in Rows |-> IF r \in rows THEN times[r] + 1 ELSE times[r]]
          /\ step' = IF HasMore(rows) THEN "count" ELSE "end"
    BY DEF Fetch
  <1>2. /\ step = "rows" /\ step' \in {"count", "end"}
        /\ UNCHANGED <<table, used, list, total, there, inserts, deletes>>
    BY <1>1 DEF Fetch
  <1>3. /\ Offset \in Nat /\ Offset' \in Nat /\ Offset <= Offset' /\ Offset' <= Offset + PerPage
        /\ Offset <= MaxRow => Offset' = Offset + PerPage
    BY <1>0, NextOffset
  <1>4. /\ MaxRow \in Nat /\ PerPage \in Nat /\ total \in Nat /\ times \in [Rows -> Nat]
        /\ table \in SUBSET Rows /\ there \in SUBSET Rows /\ Cardinality(table) \in Nat
        /\ list.more \in {"ahead", "count", "whole"}
    BY <1>0, PagingAssumption, RowSets, ListKinds DEF Typed
  <1>5. Skipped \in Nat /\ (Skipped = Offset \/ (Skipped = total /\ total < Offset))
    BY <1>3, <1>4 DEF Skipped
  <1>6. ~deletes => Skipped = Offset
    <2>1. CASE list.clamped
      <3>1. list.more = "ahead"
        BY <1>0, <2>1, ListKinds DEF Typed
      <3>2. QED
        BY <1>0, <1>2, <1>3, <1>4, <3>1 DEF Remembered, Skipped
    <2>2. CASE ~list.clamped
      BY <2>2 DEF Skipped
    <2>3. QED
      BY <2>1, <2>2
  <1>7. /\ rows \in SUBSET table
        /\ Ordered => \A r \in table :
             r \in rows <=> Skipped <= Position(r) /\ Position(r) < Skipped + PerPage
        /\ Ordered => \A r \in table : Position(r) >= Skipped + PerPage =>
             Skipped + Cardinality(rows) < Cardinality(table)
    BY <1>0, <1>5, PageRows
  <1>8. Cardinality(rows) \in Nat
    BY <1>4, <1>7, RowSets
  <1>9. \A r \in Rows : times'[r] = IF r \in rows THEN times[r] + 1 ELSE times[r]
    BY <1>1
  <1>10. Typed'
    <2>1. times' \in [Rows -> Nat]
      BY <1>1, <1>4
    <2>2. page' \in Nat
      BY <1>0 DEF Fetch, Typed
    <2>3. QED
      BY <1>0, <1>2, <2>1, <2>2 DEF Typed
  <1>11. \A r \in table : Position(r)' = Position(r) /\ Position(r) \in Nat
                          /\ Position(r) < Cardinality(table) /\ Cardinality(table) <= MaxRow
    <2>1. \A r : Position(r)' = Position(r)
      BY <1>2 DEF Position, Ahead, Before
    <2>2. QED
      BY <1>0, <2>1, Places
  <1>12. Ordered' <=> Ordered
    BY <1>2 DEF Ordered
  <1>13. Remembered'
    <2>1. ~inserts' /\ ~deletes' => \A r \in Rows : times'[r] > 0 => r \in there'
      BY <1>0, <1>2, <1>4, <1>7, <1>9 DEF Remembered
    <2>2. list'.more = "ahead" /\ ~deletes' /\ step' = "count" => Cardinality(table') >= Offset'
      <3> SUFFICES ASSUME list.more = "ahead", ~deletes, step' = "count"
                   PROVE  Cardinality(table) >= Offset'
        BY <1>2
      <3>1. HasMore(rows)
        BY <1>1
      <3>2. Cardinality(table) > Skipped + PerPage
        BY <3>1 DEF HasMore
      <3>3. QED
        BY <1>3, <1>4, <1>6, <3>2
    <2>3. QED
      BY <1>0, <1>2, <2>1, <2>2 DEF Remembered
  <1>14. NotAgain'
    <2> SUFFICES ASSUME Ordered, ~inserts, NEW r \in Rows
                 PROVE  /\ times'[r] <= 1
                        /\ times'[r] = 1 /\ r \in table => Position(r) < Offset'
      BY <1>2, <1>11, <1>12 DEF NotAgain
    <2>1. /\ times[r] \in Nat /\ times[r] <= 1
          /\ times[r] = 1 /\ r \in table => Position(r) < Offset
      BY <1>0, <1>2, <1>4 DEF NotAgain
    <2>2. CASE r \in rows
      <3>1. r \in table /\ Skipped <= Position(r) /\ Position(r) < Skipped + PerPage
        BY <1>7, <2>2
      <3>2. Cardinality(table) <= total
        BY <1>0, <1>2 DEF Remembered
      <3>3. Skipped = Offset
        BY <1>3, <1>4, <1>5, <1>11, <3>1, <3>2
      <3>4. times[r] = 0
        BY <1>3, <1>11, <2>1, <3>1, <3>3
      <3>5. Offset' = Offset + PerPage
        BY <1>3, <1>4, <1>11, <3>1, <3>3
      <3>6. QED
        BY <1>9, <2>2, <3>1, <3>3, <3>4, <3>5
    <2>3. CASE r \notin rows
      BY <1>3, <1>9, <1>11, <2>1, <2>3
    <2>4. QED
      BY <2>2, <2>3
  <1>15. NotMissed'
    <2> SUFFICES ASSUME Ordered, Steady, NEW r \in there, r \notin rows, times[r] = 0
                 PROVE  step' # "end" /\ Position(r) >= Offset'
      <3>1. Steady' <=> Steady
        BY <1>2 DEF Steady
      <3>2. \A r \in there : r \in Rows /\ times[r] \in Nat
        BY <1>4
      <3>3. \A r \in there : Steady => r \in table
        BY <1>0 DEF Remembered, Steady
      <3>4. QED
        BY <1>2, <1>9, <1>11, <1>12, <3>1, <3>2, <3>3 DEF NotMissed
    <2>1. ~deletes /\ (list.more = "count" => ~inserts)
      BY DEF Steady
    <2>2. r \in table /\ Position(r) >= Offset
      BY <1>0, <2>1 DEF Remembered, NotMissed
    <2>3. Skipped = Offset
      BY <1>6, <2>1
    <2>4. Position(r) >= Offset + PerPage
      BY <1>3, <1>4, <1>7, <1>11, <2>2, <2>3
    <2>5. Offset + Cardinality(rows) < Cardinality(table)
      BY <1>7, <2>2, <2>3, <2>4
    <2>6. HasMore(rows)
      <3>1. CASE list.more = "count"
        <4>1. ~inserts
          BY <2>1, <3>1
        <4>2. total = Cardinality(table)
          BY <1>0, <1>2, <1>4, <2>1, <4>1 DEF Remembered
        <4>3. QED
          BY <2>5, <3>1, <4>2 DEF HasMore
      <3>2. CASE list.more \in {"ahead", "whole"}
        <4>1. Cardinality(table) > Offset + PerPage
          BY <1>3, <1>4, <1>11, <2>2, <2>4
        <4>2. QED
          BY <2>3, <3>2, <4>1 DEF HasMore
      <3>3. QED
        BY <1>4, <3>1, <3>2
    <2>7. QED
      BY <1>1, <1>3, <1>4, <1>11, <2>2, <2>4, <2>6
  <1>16. QED
    BY <1>10, <1>13, <1>14, <1>15 DEF WalkInv

LEMMA WalkStep == WalkInv /\ [Next]_vars => WalkInv'
  <1> SUFFICES ASSUME WalkInv, [Next]_vars PROVE WalkInv'
    OBVIOUS
  <1>1. CASE \E r \in Rows : Insert(r) \/ Remove(r)
    BY <1>1, InsertStep, RemoveStep
  <1>2. CASE \E l \in Lists : Begin(l)
    BY <1>2, BeginStep
  <1>3. CASE Count
    BY <1>3, CountStep
  <1>4. CASE Fetch
    BY <1>4, FetchStep
  <1>5. CASE UNCHANGED vars
    BY <1>5 DEF vars, walk, WalkInv, Typed, Remembered, NotAgain, NotMissed, Steady,
                Ordered, Position, Ahead, Before, Offset
  <1>6. QED
    BY <1>1, <1>2, <1>3, <1>4, <1>5 DEF Next

LEMMA WalkInvHolds == Spec => []WalkInv
  BY WalkInit, WalkStep, PTL DEF Spec

-----------------------------------------------------------------------------
(* What a client has when its walk is over.                                  *)

\* A list that nobody changes is returned whole, each row once, whichever way it
\* knows of more (paginate and PageMeta in api/v1, the slices of api/pages, the
\* statements of mcp_server).
THEOREM StillListRead == Spec => []StillListIsRead
  <1>1. WalkInv => StillListIsRead
    <2> SUFFICES ASSUME WalkInv, step = "end", Ordered, ~inserts, ~deletes, NEW r \in Rows
                 PROVE  times[r] = IF r \in there THEN 1 ELSE 0
      BY DEF StillListIsRead, Ended
    <2>1. times[r] \in Nat /\ times[r] <= 1
      BY DEF WalkInv, Typed, NotAgain
    <2>2. r \notin there => ~(times[r] > 0)
      BY DEF WalkInv, Remembered
    <2>3. r \in there => times[r] > 0
      BY DEF WalkInv, NotMissed, Steady
    <2>4. QED
      BY <2>1, <2>2, <2>3
  <1>2. QED
    BY <1>1, WalkInvHolds, PTL

\* Rows that come in during the walk hide none that were there, save from the lists of
\* mcp_server that compare a page with a count taken before it.
THEOREM NothingHidden == Spec => []InsertsHideNothing
  <1>1. WalkInv => InsertsHideNothing
    BY DEF WalkInv, NotMissed, Steady, InsertsHideNothing, Ended
  <1>2. QED
    BY <1>1, WalkInvHolds, PTL

\* Rows that go during the walk pull the others forward: none is returned twice, though
\* paginate skips no more rows than it has counted.
THEOREM NothingTwice == Spec => []DeletesRepeatNothing
  <1>1. WalkInv => DeletesRepeatNothing
    BY DEF WalkInv, NotAgain, DeletesRepeatNothing, Ended
  <1>2. QED
    BY <1>1, WalkInvHolds, PTL

-----------------------------------------------------------------------------
(* How much is returned.                                                     *)

\* No page has more rows than it may, and none that begins behind the table has any.
LEMMA PageSize ==
  ASSUME Typed, NEW from \in Nat, NEW rows \in Pages(from)
  PROVE  /\ Cardinality(rows) <= PerPage
         /\ from >= Cardinality(table) => rows = {}
  <1>1. PICK A \in Tops(from) : rows \in {B \ A : B \in {T \in Tops(from + PerPage) : A \subseteq T}}
    BY DEF Pages
  <1>2. PICK B \in Tops(from + PerPage) : A \subseteq B /\ rows = B \ A
    BY <1>1
  <1>3. A \in SUBSET table /\ B \in SUBSET table
    BY DEF Tops
  <1>4. /\ IsFiniteSet(table) /\ Cardinality(table) \in Nat
        /\ IsFiniteSet(A) /\ Cardinality(A) \in Nat /\ IsFiniteSet(B) /\ Cardinality(B) \in Nat
    BY <1>3, RowSets DEF Typed
  <1>5. /\ A \in SUBSET table /\ (Cardinality(A) = from \/ (A = table /\ Cardinality(A) < from))
        /\ B \in SUBSET table /\ Cardinality(B) <= from + PerPage
    <2>1. Cardinality(B) = from + PerPage \/ Cardinality(B) < from + PerPage
      BY DEF Tops
    <2>2. Cardinality(B) <= from + PerPage
      BY <1>4, <2>1, PagingAssumption
    <2>3. Cardinality(A) = from \/ (A = table /\ Cardinality(A) < from)
      BY DEF Tops
    <2>4. QED
      BY <1>3, <2>2, <2>3
  <1>6. PerPage \in Nat
    BY PagingAssumption
  <1>7. ASSUME A = table PROVE rows = {} /\ Cardinality(rows) = 0
    <2>1. rows = {}
      BY <1>2, <1>5, <1>7
    <2>2. QED
      BY <2>1, FS_EmptySet
  <1>8. Cardinality(rows) <= PerPage
    <2>1. CASE A = table
      BY <1>6, <1>7, <2>1
    <2>2. CASE Cardinality(A) = from
      <3>1. B \cap A = A
        BY <1>2
      <3>2. Cardinality(rows) = Cardinality(B) - Cardinality(A)
        BY <1>2, <1>4, <3>1, FS_Difference
      <3>3. QED
        BY <1>5, <1>4, <1>6, <2>2, <3>2
    <2>3. QED
      BY <1>5, <2>1, <2>2
  <1>9. ASSUME from >= Cardinality(table) PROVE rows = {}
    <2>1. Cardinality(A) <= Cardinality(table) /\ (Cardinality(A) = Cardinality(table) => A = table)
      BY <1>5, <1>4, FS_Subset
    <2>2. A = table
      BY <1>5, <1>4, <1>9, <2>1
    <2>3. QED
      BY <1>7, <2>2
  <1>10. QED
    BY <1>8, <1>9

\* A page that comes after a row ahead is not behind the rows that ever were: a count that
\* was too low for it only says that rows have come in since.
Reached ==
  list.more = "ahead" =>
    /\ step \in {"count", "rows"} => Offset <= Cardinality(used)
    /\ step = "rows" => Offset + Cardinality(table) <= Cardinality(used) + total

Filled ==
  /\ changes \in 0 .. MaxChanges
  /\ IsFiniteSet(Returned) /\ Cardinality(Returned) <= Offset

PageInv == WalkInv /\ Reached /\ Filled

LEMMA Stored ==
  ASSUME Typed
  PROVE  /\ Cardinality(table) \in Nat /\ Cardinality(used) \in Nat
         /\ Cardinality(table) <= Cardinality(used) /\ Cardinality(used) <= MaxRow
         /\ IsFiniteSet(table) /\ IsFiniteSet(used)
  <1>1. table \in SUBSET used /\ used \in SUBSET Rows /\ table \in SUBSET Rows
    BY DEF Typed
  <1>2. QED
    BY <1>1, RowSets, FS_Subset

LEMMA PageInit == Init => PageInv
  <1> SUFFICES ASSUME Init PROVE PageInv
    OBVIOUS
  <1>1. WalkInv
    BY WalkInit
  <1>2. step = "idle" /\ page = 0 /\ changes = 0 /\ \A r \in Rows : times[r] = 0
    BY DEF Init
  <1>3. Returned = {}
    BY <1>2 DEF Returned
  <1>4. Offset = 0
    BY <1>2, PagingAssumption DEF Offset
  <1>5. Filled
    BY <1>2, <1>3, <1>4, PagingAssumption, FS_EmptySet DEF Filled
  <1>6. Reached
    BY <1>2 DEF Reached
  <1>7. QED
    BY <1>1, <1>5, <1>6 DEF PageInv

\* A page returns its rows once more each.
LEMMA FetchFills ==
  ASSUME PageInv, Fetch
  PROVE  Filled'
  <1>0. Typed /\ Remembered /\ Reached /\ Filled
    BY DEF PageInv, WalkInv
  <1>1. PICK rows \in Pages(Skipped) :
          times' = [r \in Rows |-> IF r \in rows THEN times[r] + 1 ELSE times[r]]
    BY DEF Fetch
  <1>2. /\ step = "rows" /\ changes' = changes /\ UNCHANGED <<table, total>>
    BY DEF Fetch
  <1>3. /\ Offset \in Nat /\ Offset' \in Nat /\ Offset <= Offset'
        /\ Offset <= MaxRow => Offset' = Offset + PerPage
    BY <1>0, NextOffset
  <1>4. /\ MaxRow \in Nat /\ PerPage \in Nat /\ total \in Nat /\ times \in [Rows -> Nat]
        /\ Cardinality(table) \in Nat /\ Cardinality(table) <= MaxRow
        /\ Cardinality(used) \in Nat /\ Cardinality(used) <= MaxRow
    <2>1. /\ MaxRow \in Nat /\ PerPage \in Nat
      BY PagingAssumption
    <2>2. QED
      BY <1>0, <2>1, Stored DEF Typed
  <1>5. Skipped \in Nat /\ (list.more # "ahead" => Skipped = Offset)
    <2>1. Skipped \in Nat
      BY <1>3, <1>4 DEF Skipped
    <2>2. list.clamped => list.more = "ahead"
      BY <1>0, ListKinds DEF Typed
    <2>3. list.more # "ahead" => Skipped = Offset
      BY <2>2 DEF Skipped
    <2>4. QED
      BY <2>1, <2>3
  <1>6. rows \in SUBSET Rows /\ Cardinality(rows) <= PerPage
    BY <1>0, <1>5, PageRows, PageSize DEF Typed
  <1>7. Offset <= MaxRow \/ rows = {}
    <2>1. CASE list.more = "ahead"
      BY <1>0, <1>2, <1>3, <1>4, <2>1 DEF Reached
    <2>2. CASE list.more # "ahead"
      <3>1. Offset >= Cardinality(table) => rows = {}
        BY <1>0, <1>3, <1>5, <2>2, PageSize
      <3>2. QED
        BY <1>3, <1>4, <3>1
    <2>3. QED
      BY <2>1, <2>2
  <1> DEFINE New == {<<r, times[r] + 1>> : r \in rows}
             f   == [r \in rows |-> <<r, times[r] + 1>>]
  <1>8. IsFiniteSet(rows) /\ Cardinality(rows) \in Nat
    BY <1>6, RowSets
  <1>9. IsFiniteSet(New) /\ Cardinality(New) <= Cardinality(rows) /\ Cardinality(New) \in Nat
    <2>1. f \in Surjection(rows, New)
      BY DEF Surjection
    <2>2. IsFiniteSet(New) /\ Cardinality(New) <= Cardinality(rows)
      BY <1>8, <2>1, FS_Surjection
    <2>3. QED
      BY <2>2, FS_CardinalityType
  <1>10. Returned' \subseteq Returned \cup New
    <2> SUFFICES ASSUME NEW r \in Rows, NEW n \in 1 .. times'[r]
                 PROVE  <<r, n>> \in Returned \cup New
      BY DEF Returned
    <2>1. CASE n \in 1 .. times[r]
      BY <2>1 DEF Returned
    <2>2. CASE n \notin 1 .. times[r]
      <3>1. r \in rows /\ n = times[r] + 1
        BY <1>1, <1>4, <2>2
      <3>2. QED
        BY <3>1
    <2>3. QED
      BY <2>1, <2>2
  <1>11. /\ IsFiniteSet(Returned \cup New)
         /\ Cardinality(Returned \cup New) <= Cardinality(Returned) + Cardinality(New)
         /\ Cardinality(Returned) \in Nat
    <2>1. IsFiniteSet(Returned) /\ Cardinality(Returned) \in Nat
      BY <1>0, FS_CardinalityType DEF Filled
    <2>2. IsFiniteSet(Returned \cap New)
      BY <2>1, FS_Subset
    <2>3. Cardinality(Returned \cap New) \in Nat
      BY <2>2, FS_CardinalityType
    <2>4. /\ IsFiniteSet(Returned \cup New)
          /\ Cardinality(Returned \cup New) =
               Cardinality(Returned) + Cardinality(New) - Cardinality(Returned \cap New)
      BY <1>9, <2>1, FS_Union
    <2>5. QED
      BY <1>9, <2>1, <2>3, <2>4
  <1>12. /\ IsFiniteSet(Returned') /\ Cardinality(Returned') \in Nat
         /\ Cardinality(Returned') <= Cardinality(Returned) + Cardinality(New)
    <2>1. /\ IsFiniteSet(Returned') /\ Cardinality(Returned') <= Cardinality(Returned \cup New)
      BY <1>10, <1>11, FS_Subset
    <2>2. Cardinality(Returned') \in Nat /\ Cardinality(Returned \cup New) \in Nat
      BY <1>11, <2>1, FS_CardinalityType
    <2>3. QED
      BY <1>9, <1>11, <2>1, <2>2
  <1>13. Cardinality(Returned) <= Offset
    BY <1>0 DEF Filled
  <1>14. Cardinality(Returned') <= Offset'
    <2>1. CASE rows = {}
      <3>1. Cardinality(New) = 0
        BY <1>8, <1>9, <2>1, FS_EmptySet
      <3>2. QED
        BY <1>3, <1>11, <1>12, <1>13, <3>1
    <2>2. CASE Offset <= MaxRow
      BY <1>3, <1>4, <1>6, <1>8, <1>9, <1>11, <1>12, <1>13, <2>2
    <2>3. QED
      BY <1>7, <2>1, <2>2
  <1>15. QED
    BY <1>0, <1>2, <1>12, <1>14 DEF Filled

\* Whether the page is reached is known from the row ahead, not from the count.
LEMMA FetchReaches ==
  ASSUME PageInv, Fetch
  PROVE  Reached'
  <1>0. Typed /\ Reached
    BY DEF PageInv, WalkInv
  <1> SUFFICES ASSUME list'.more = "ahead", step' \in {"count", "rows"}
               PROVE  step' = "count" /\ Offset' <= Cardinality(used')
    BY DEF Reached
  <1>1. PICK rows \in Pages(Skipped) : step' = IF HasMore(rows) THEN "count" ELSE "end"
    BY DEF Fetch
  <1>2. /\ step = "rows" /\ step' = "count" /\ HasMore(rows)
        /\ used' = used /\ list' = list
    BY <1>1 DEF Fetch
  <1>3. Cardinality(table) > Skipped + PerPage
    BY <1>2 DEF HasMore
  <1>4. Offset \in Nat /\ Offset' \in Nat /\ Offset' <= Offset + PerPage
    BY <1>0, NextOffset
  <1>5. total \in Nat /\ (Skipped = Offset \/ Skipped = total)
    BY <1>0 DEF Skipped, Typed
  <1>6. Offset + Cardinality(table) <= Cardinality(used) + total
    BY <1>0, <1>2 DEF Reached
  <1>7. Cardinality(table) \in Nat /\ Cardinality(used) \in Nat /\ Cardinality(table) <= Cardinality(used)
    BY <1>0, Stored
  <1>8. PerPage \in Nat
    BY PagingAssumption
  <1>9. QED
    BY <1>2, <1>3, <1>4, <1>5, <1>6, <1>7, <1>8

LEMMA ChangeStep ==
  ASSUME PageInv, WalkInv', NEW r \in Rows, Insert(r) \/ Remove(r)
  PROVE  Reached' /\ Filled'
  <1>0. Typed /\ Typed' /\ Reached /\ Filled
    BY DEF PageInv, WalkInv
  <1>1. /\ UNCHANGED <<step, list, page, total, times>>
        /\ changes < MaxChanges /\ changes' = changes + 1
    BY DEF Insert, Remove, UnderWalk
  <1>2. Offset' = Offset /\ Offset \in Nat /\ Returned' = Returned
    BY <1>0, <1>1, OffsetSum DEF Offset, Typed, Returned
  <1>3. Filled'
    BY <1>0, <1>1, <1>2, PagingAssumption DEF Filled
  <1>4. /\ Cardinality(table) \in Nat /\ Cardinality(used) \in Nat
        /\ Cardinality(table') \in Nat /\ Cardinality(used') \in Nat
        /\ IsFiniteSet(table) /\ IsFiniteSet(used)
    <2>1. table' \in SUBSET Rows /\ used' \in SUBSET Rows
      BY <1>0 DEF Typed
    <2>2. QED
      BY <1>0, <2>1, Stored, RowSets
  <1>5. /\ Cardinality(used) <= Cardinality(used')
        /\ Cardinality(table') + Cardinality(used) <= Cardinality(table) + Cardinality(used')
    <2>1. CASE Insert(r)
      <3>1. r \notin used /\ r \notin table /\ table' = table \cup {r} /\ used' = used \cup {r}
        BY <1>0, <2>1 DEF Insert, Typed
      <3>2. Cardinality(table') = Cardinality(table) + 1 /\ Cardinality(used') = Cardinality(used) + 1
        BY <1>4, <3>1, FS_AddElement
      <3>3. QED
        BY <1>4, <3>2
    <2>2. CASE Remove(r)
      <3>1. table' \in SUBSET table /\ used' = used
        BY <2>2 DEF Remove
      <3>2. Cardinality(table') <= Cardinality(table)
        BY <1>4, <3>1, FS_Subset
      <3>3. QED
        BY <1>4, <3>1, <3>2
    <2>3. QED
      BY <2>1, <2>2
  <1>6. total \in Nat
    BY <1>0 DEF Typed
  <1>7. Reached'
    BY <1>0, <1>1, <1>2, <1>4, <1>5, <1>6 DEF Reached
  <1>8. QED
    BY <1>3, <1>7

LEMMA PageStep == PageInv /\ [Next]_vars => PageInv'
  <1> SUFFICES ASSUME PageInv, [Next]_vars PROVE PageInv'
    OBVIOUS
  <1>1. WalkInv'
    BY WalkStep DEF PageInv
  <1>2. Typed /\ Remembered /\ Reached /\ Filled
    BY DEF PageInv, WalkInv
  <1>3. CASE \E r \in Rows : Insert(r) \/ Remove(r)
    BY <1>1, <1>3, ChangeStep DEF PageInv
  <1>4. CASE \E l \in Lists : Begin(l)
    <2>1. /\ step = "idle" /\ step' = "count"
          /\ UNCHANGED <<used, changes, page, times>>
      BY <1>4 DEF Begin
    <2>2. page = 0
      BY <1>2, <2>1 DEF Remembered
    <2>3. Offset' = Offset /\ Offset = 0 /\ Returned' = Returned
      BY <2>1, <2>2, PagingAssumption DEF Offset, Returned
    <2>4. Cardinality(used) \in Nat
      BY <1>2, Stored
    <2>5. Reached' /\ Filled'
      BY <1>2, <2>1, <2>3, <2>4 DEF Reached, Filled
    <2>6. QED
      BY <1>1, <2>5 DEF PageInv
  <1>5. CASE Count
    <2>1. /\ step = "count" /\ step' = "rows" /\ total' = Cardinality(table)
          /\ UNCHANGED <<table, used, changes, list, page, times>>
      BY <1>5 DEF Count
    <2>2. Offset' = Offset /\ Offset \in Nat /\ Returned' = Returned
      BY <1>2, <2>1, OffsetSum DEF Offset, Typed, Returned
    <2>3. Cardinality(used) \in Nat /\ Cardinality(table) \in Nat
      BY <1>2, Stored
    <2>4. Reached' /\ Filled'
      BY <1>2, <2>1, <2>2, <2>3 DEF Reached, Filled
    <2>5. QED
      BY <1>1, <2>4 DEF PageInv
  <1>6. CASE Fetch
    BY <1>1, <1>6, FetchFills, FetchReaches DEF PageInv
  <1>7. CASE UNCHANGED vars
    <2>1. Reached' /\ Filled'
      BY <1>2, <1>7 DEF vars, walk, Reached, Filled, Offset, Returned
    <2>2. QED
      BY <1>1, <2>1 DEF PageInv
  <1>8. QED
    BY <1>3, <1>4, <1>5, <1>6, <1>7 DEF Next

\* Every page returns at most as many rows as it has room for, a repeated row counted each
\* time, though a page may be cut off at a count that is older than its rows (paginate).
THEOREM PagesNotOverfull == Spec => []TypeOK
  <1>1. Spec => []PageInv
    BY PageInit, PageStep, PTL DEF Spec
  <1>2. PageInv => TypeOK
    BY DEF PageInv, WalkInv, Typed, Filled, TypeOK, Offset
  <1>3. QED
    BY <1>1, <1>2, PTL
=============================================================================
