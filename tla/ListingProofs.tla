---------------------------- MODULE ListingProofs ----------------------------
(***************************************************************************)
(* For any number of rows, any page size and any changes while a list is   *)
(* read: what the reader of an ordered list misses or sees twice was moved *)
(* by a row before it.                                                     *)
(*                                                                         *)
(* The place of a row is the number of listed rows before it.  As long as  *)
(* no row before it comes or goes it stands still, and the pages, which    *)
(* are ranges of places, take it in their turn.                            *)
(***************************************************************************)
EXTENDS Listing, FiniteSetTheorems, TLAPS

RowsBefore(k) == {j \in Matching : Before(j, k)}
Place(k) == Cardinality(RowsBefore(k))

\* Pages are being read.
Reading == pc \in {"count", "findMany"}

\* A row that was there all the while, behind rows that were all the while, and
\* on no page yet, is on one to come, within what was counted.
Missing ==
    Ordered => \A k \in stayed \ seen :
        (\A j \in entered \cup left : ~Before(j, k)) =>
            /\ Reading => k \in Matching /\ Skip <= Place(k)
            /\ pc = "findMany" => Place(k) < totalRecord
            /\ pc # "done"

\* A row that was read is on none of the pages to come, unless one entered before it.
Repeating ==
    /\ RepeatedRowWasPushed
    /\ Ordered /\ Reading =>
          \A k \in seen : Place(k) < Skip \/ \E j \in entered : Before(j, k)

\* Before the first page nothing was read.
Unread == pc = "idle" => page = 1 /\ seen = {} /\ stayed = {}

ListInv == TypeOK /\ Missing /\ Repeating /\ Unread

-------------------------------------------------------------------------------
\* How many pages it takes.
LEMMA LessTimes ==
    ASSUME NEW a \in Int, NEW b \in Int, NEW d \in Int, d > 0, a * d < b * d PROVE a < b
OBVIOUS

LEMMA CeilCovers ==
    ASSUME NEW n \in Nat, NEW d \in Nat \ {0}
    PROVE  Ceil(n, d) \in Nat /\ n <= Ceil(n, d) * d /\ (n > 0 => Ceil(n, d) >= 1)
<1> DEFINE m == n + d - 1
           q == m \div d
<1>1. m \in Int /\ d \in Int /\ d > 0
    OBVIOUS
<1>2. q \in Int /\ m < (q + 1) * d /\ (q + 1) * d = q * d + d
    BY <1>1
<1> HIDE DEF q
<1>3. q * d \in Int /\ n <= q * d
    BY <1>2
<1>4. 0 * d < (q + 1) * d /\ (n > 0 => 1 * d < (q + 1) * d)
    BY <1>2
<1>5. 0 < q + 1 /\ (n > 0 => 1 < q + 1)
    BY <1>1, <1>2, <1>4, LessTimes
<1> QED BY <1>2, <1>3, <1>5 DEF Ceil, q

LEMMA CeilMonotonic ==
    ASSUME NEW m \in Nat, NEW n \in Nat, m <= n, NEW d \in Nat \ {0}
    PROVE  Ceil(m, d) <= Ceil(n, d)
<1>1. ASSUME NEW a \in Int, NEW b \in Int, a <= b PROVE a \div d <= b \div d
    BY <1>1
<1>2. m + d - 1 \in Int /\ n + d - 1 \in Int /\ m + d - 1 <= n + d - 1
    OBVIOUS
<1> QED BY <1>1, <1>2 DEF Ceil

-------------------------------------------------------------------------------
\* The sets of rows are finite, and no larger than the table.
LEMMA SetsOfRows ==
    ASSUME NEW S \in SUBSET Keys, NEW T \in SUBSET S
    PROVE  /\ IsFiniteSet(S) /\ Cardinality(S) \in 0 .. Cardinality(Keys)
           /\ Cardinality(Keys) \in Nat /\ Cardinality(T) \in Nat
           /\ Cardinality(T) <= Cardinality(S)
           /\ T # S => Cardinality(T) < Cardinality(S)
<1>1. IsFiniteSet(Keys) /\ IsFiniteSet(S) /\ IsFiniteSet(T)
    BY KeysAreIntegers, FS_Subset
<1>2. /\ Cardinality(S) <= Cardinality(Keys) /\ Cardinality(T) <= Cardinality(S)
      /\ Cardinality(S) = Cardinality(T) => S = T
    BY <1>1, FS_Subset
<1>3. Cardinality(Keys) \in Nat /\ Cardinality(S) \in Nat /\ Cardinality(T) \in Nat
    BY <1>1, FS_CardinalityType
<1> QED BY <1>1, <1>2, <1>3

LEMMA Places ==
    ASSUME TypeOK, NEW k \in Keys
    PROVE  Place(k) \in Nat /\ RowsBefore(k) \in SUBSET Keys /\ ~Before(k, k)
<1>1. RowsBefore(k) \in SUBSET Keys
    BY DEF RowsBefore, Matching
<1>2. ~Before(k, k)
    BY KeysAreIntegers DEF Before
<1> QED BY <1>1, <1>2, SetsOfRows DEF Place

LEMMA SkipsPages ==
    ASSUME TypeOK
    PROVE  Skip \in Nat /\ page * PageSize \in Nat /\ Skip + PageSize = page * PageSize
BY PageSizeIsPositive, CeilCovers, SetsOfRows DEF TypeOK, Skip

-------------------------------------------------------------------------------
\* What a change of the table amounts to for the reader.
Change ==
    /\ UNCHANGED <<list, query, pc, page, totalRecord, seen, repeated>> /\ Reading
    /\ entered \subseteq entered' /\ left \subseteq left' /\ stayed' \subseteq stayed
    /\ \A j \in Matching' \ Matching : j \in entered'
    /\ \A j \in Matching \ Matching' : j \in left' /\ j \notin stayed'

LEMMA TableChanges ==
    ASSUME TypeOK, NEW k \in Keys, NEW j \in Keys, NEW place \in {"in", "out"},
           InsertRow(k, place) \/ UpdateUser(k, j, place)
    PROVE  TypeOK' /\ Change
<1>1. /\ Reading /\ UNCHANGED <<list, query, pc, page, totalRecord, seen, repeated>>
      /\ rows' \in [Keys -> {"none", "in", "out"}]
    BY DEF TypeOK, InsertRow, UpdateUser, Changed, Reading, reading
<1>2. ASSUME NEW in \in SUBSET Keys, NEW out \in SUBSET Keys, Changed(in, out),
             (Matching' \ Matching) \subseteq in, (Matching \ Matching') \subseteq out
      PROVE  TypeOK' /\ Change
    BY <1>1, <1>2 DEF TypeOK, Change, Changed, Queries, Filters
<1>3. CASE InsertRow(k, place)
  <2>1. /\ rows[k] = "none" /\ rows'[k] = place
        /\ \A i \in Keys \ {k} : rows'[i] = rows[i]
    BY <1>3 DEF InsertRow, TypeOK
  <2>2. /\ (Matching' \ Matching) \subseteq (IF place = "in" THEN {k} ELSE {})
        /\ Matching \subseteq Matching'
    BY <1>1, <2>1 DEF Matching
  <2> QED BY <1>2, <1>3, <2>2 DEF InsertRow
<1>4. CASE UpdateUser(k, j, place)
  <2>1. Changed(Matching' \ Matching, Matching \ Matching')
    BY <1>4 DEF UpdateUser
  <2>2. Matching \subseteq Keys /\ Matching' \subseteq Keys
    BY DEF Matching
  <2> QED BY <1>2, <2>1, <2>2
<1> QED BY <1>3, <1>4

LEMMA ChangeKeeps ==
    ASSUME ListInv, TypeOK', Change PROVE Missing' /\ Repeating' /\ Unread'
<1>1. /\ (Ordered' <=> Ordered) /\ Skip' = Skip /\ (Reading' <=> Reading) /\ TypeOK
      /\ \A j, k \in Keys : Before(j, k)' <=> Before(j, k)
    BY DEF Change, Ordered, Skip, Reading, Before, ListInv
<1>2. /\ Matching \subseteq Keys /\ Matching' \subseteq Keys
      /\ entered' \subseteq Keys /\ left' \subseteq Keys /\ seen \subseteq Keys /\ stayed \subseteq Keys
    BY <1>1 DEF Matching, TypeOK
<1>3. ASSUME NEW k \in Keys, \A j \in entered' : ~Before(j, k)
      PROVE  RowsBefore(k)' \subseteq RowsBefore(k) /\ Place(k)' <= Place(k)
  <2>1. RowsBefore(k)' \subseteq RowsBefore(k)
    BY <1>1, <1>2, <1>3 DEF RowsBefore, Change
  <2> QED BY <1>1, <2>1, Places, SetsOfRows DEF Place
<1>4. ASSUME NEW k \in Keys, \A j \in entered' \cup left' : ~Before(j, k)
      PROVE  Place(k)' = Place(k)
  <2>1. RowsBefore(k)' = RowsBefore(k)
    BY <1>1, <1>2, <1>3, <1>4 DEF RowsBefore, Change
  <2> QED BY <2>1 DEF Place
<1>5. Missing'
  <2> SUFFICES ASSUME Ordered', NEW k \in stayed' \ seen', \A j \in entered' \cup left' : ~Before(j, k)'
               PROVE  /\ Reading' => k \in Matching' /\ Skip' <= Place(k)'
                      /\ pc' = "findMany" => Place(k)' < totalRecord'
                      /\ pc' # "done"
    BY DEF Missing
  <2>1. k \in Keys /\ k \in stayed \ seen /\ \A j \in entered' \cup left' : ~Before(j, k)
    BY <1>1, <1>2 DEF Change
  <2>2. Place(k)' = Place(k) /\ \A j \in entered \cup left : ~Before(j, k)
    BY <1>4, <2>1 DEF Change
  <2>3. /\ k \in Matching /\ Skip <= Place(k)
        /\ pc = "findMany" => Place(k) < totalRecord
    BY <1>1, <2>1, <2>2 DEF ListInv, Missing, Change
  <2>4. k \in Matching'
    BY <2>3 DEF Change
  <2> QED BY <1>1, <2>2, <2>3, <2>4 DEF Change, Reading
<1>6. Repeating'
  <2>1. RepeatedRowWasPushed'
    BY <1>1, <1>2 DEF ListInv, Repeating, RepeatedRowWasPushed, Change, TypeOK
  <2>2. ASSUME Ordered, NEW k \in seen, \A j \in entered' : ~Before(j, k)
        PROVE  Place(k)' < Skip
    <3>1. Place(k)' <= Place(k) /\ k \in Keys
      BY <1>2, <1>3, <2>2
    <3>2. Place(k) < Skip
      BY <2>2 DEF ListInv, Repeating, Change
    <3>3. RowsBefore(k)' \in SUBSET Keys
      BY <1>2 DEF RowsBefore
    <3>4. Place(k) \in Nat /\ Place(k)' \in Nat /\ Skip \in Nat
      BY <1>1, <3>1, <3>3, Places, SkipsPages, SetsOfRows DEF Place
    <3> QED BY <3>1, <3>2, <3>4
  <2> QED BY <1>1, <1>2, <2>1, <2>2 DEF Repeating, Change
<1>7. Unread'
    BY DEF Unread, Change, Reading
<1> QED BY <1>5, <1>6, <1>7

-------------------------------------------------------------------------------
\* What the reader does leaves the table alone, and so every place.
LEMMA TableStays ==
    ASSUME UNCHANGED <<list, rows, query>>
    PROVE  /\ (Ordered' <=> Ordered) /\ Matching' = Matching
           /\ \A j, k \in Keys : Before(j, k)' <=> Before(j, k)
           /\ \A k \in Keys : Place(k)' = Place(k)
<1>1. /\ (Ordered' <=> Ordered) /\ Matching' = Matching /\ Matching \subseteq Keys
      /\ \A j, k \in Keys : Before(j, k)' <=> Before(j, k)
    BY DEF Ordered, Matching, Before
<1>2. ASSUME NEW k \in Keys PROVE Place(k)' = Place(k)
  <2>1. RowsBefore(k)' = RowsBefore(k)
    BY <1>1 DEF RowsBefore
  <2> QED BY <2>1 DEF Place
<1> QED BY <1>1, <1>2

LEMMA BeginKeeps == ASSUME ListInv, Begin PROVE ListInv'
<1>1. /\ TypeOK /\ pc = "idle" /\ pc' = "count" /\ page = 1 /\ seen = {} /\ stayed' = Matching
      /\ UNCHANGED <<list, rows, query, page, totalRecord, seen, repeated, entered, left>>
    BY DEF ListInv, Unread, Begin
<1>2. /\ (Ordered' <=> Ordered) /\ Matching' = Matching /\ Matching \subseteq Keys
      /\ \A j, k \in Keys : Before(j, k)' <=> Before(j, k)
      /\ \A k \in Keys : Place(k)' = Place(k) /\ Place(k) \in Nat
    BY <1>1, TableStays, Places DEF Matching
<1>3. TypeOK'
    BY <1>1, <1>2 DEF TypeOK, Queries, Filters
<1>4. Skip' = 0
    BY <1>1, PageSizeIsPositive DEF Skip
<1>5. Missing' /\ Repeating' /\ Unread'
    BY <1>1, <1>2, <1>4 DEF ListInv, Missing, Repeating, RepeatedRowWasPushed, Unread, Reading, TypeOK
<1> QED BY <1>3, <1>5 DEF ListInv

LEMMA CountKeeps == ASSUME ListInv, Count PROVE ListInv'
<1>1. /\ TypeOK /\ pc = "count" /\ pc' = "findMany" /\ totalRecord' = Cardinality(Matching)
      /\ UNCHANGED <<list, rows, query, page, seen, repeated, stayed, entered, left>>
    BY DEF ListInv, Count
<1>2. /\ (Ordered' <=> Ordered) /\ Matching' = Matching /\ Skip' = Skip /\ Matching \subseteq Keys
      /\ \A j, k \in Keys : Before(j, k)' <=> Before(j, k)
      /\ \A k \in Keys : Place(k)' = Place(k)
    BY <1>1, TableStays DEF Matching, Skip
<1>3. TypeOK'
  <2>1. Cardinality(Matching) \in 0 .. Cardinality(Keys)
    BY <1>2, SetsOfRows
  <2> QED BY <1>1, <2>1 DEF TypeOK, Queries, Filters
<1>4. ASSUME NEW k \in Matching PROVE Place(k) < Cardinality(Matching)
  <2>1. RowsBefore(k) \in SUBSET Matching /\ RowsBefore(k) # Matching
    BY <1>1, <1>2, Places DEF RowsBefore
  <2> QED BY <1>2, <2>1, SetsOfRows DEF Place
<1>5. Missing'
    BY <1>1, <1>2, <1>4 DEF ListInv, Missing, Reading, TypeOK
<1>6. Repeating' /\ Unread'
    BY <1>1, <1>2 DEF ListInv, Repeating, RepeatedRowWasPushed, Unread, Reading, TypeOK
<1> QED BY <1>3, <1>5, <1>6 DEF ListInv

LEMMA RejectedKeeps == ASSUME ListInv, Rejected PROVE ListInv'
<1>1. /\ TypeOK /\ pc = "findMany" /\ pc' = "rejected"
      /\ UNCHANGED <<list, rows, query, page, totalRecord, seen, repeated, stayed, entered, left>>
    BY DEF ListInv, Rejected
<1>2. /\ (Ordered' <=> Ordered) /\ \A j, k \in Keys : Before(j, k)' <=> Before(j, k)
    BY <1>1, TableStays
<1>3. TypeOK'
    BY <1>1 DEF TypeOK, Queries, Filters
<1>4. Missing' /\ Repeating' /\ Unread'
    BY <1>1, <1>2 DEF ListInv, Missing, Repeating, RepeatedRowWasPushed, Unread, Reading, TypeOK
<1> QED BY <1>3, <1>4 DEF ListInv

\* A page of an ordered list is a range of places.
LEMMA PageIsRange ==
    ASSUME Ordered, NEW p \in Page
    PROVE  p = {k \in Matching : Skip <= Place(k) /\ Place(k) < Skip + PageSize}
BY DEF Page, Place, RowsBefore

LEMMA FindManyKeeps == ASSUME ListInv, FindMany PROVE ListInv'
<1>1. PICK p \in Page : seen' = seen \cup p /\ repeated' = repeated \cup (seen \cap p)
    BY DEF FindMany
<1>2. /\ TypeOK /\ pc = "findMany"
      /\ \/ page < TotalPage /\ page' = page + 1 /\ pc' = "count"
         \/ ~(page < TotalPage) /\ page' = page /\ pc' = "done"
      /\ UNCHANGED <<list, rows, query, totalRecord, stayed, entered, left>>
    BY DEF ListInv, FindMany
<1>3. /\ (Ordered' <=> Ordered) /\ Matching' = Matching /\ Matching \subseteq Keys
      /\ \A j, k \in Keys : Before(j, k)' <=> Before(j, k)
      /\ \A k \in Keys : Place(k)' = Place(k) /\ Place(k) \in Nat
    BY <1>2, TableStays, Places DEF Matching
<1>4. p \subseteq Keys
    BY <1>3 DEF Page, kSubset
<1>5. Skip \in Nat /\ PageSize \in Nat /\ page * PageSize \in Nat /\ Skip + PageSize = page * PageSize
    BY <1>2, SkipsPages, PageSizeIsPositive
<1>6. pc' = "count" => Skip' = Skip + PageSize
    BY <1>2, <1>5 DEF Skip, TypeOK
<1>7. TypeOK'
  <2>1. /\ totalRecord \in Nat /\ Cardinality(Keys) \in Nat /\ totalRecord <= Cardinality(Keys)
        /\ page \in Nat /\ page >= 1
    BY <1>2, SetsOfRows DEF TypeOK
  <2>2. /\ TotalPage <= Ceil(Cardinality(Keys), PageSize)
        /\ TotalPage \in Nat /\ Ceil(Cardinality(Keys), PageSize) \in Nat
    BY <2>1, PageSizeIsPositive, CeilMonotonic, CeilCovers DEF TotalPage
  <2>3. page' \in 1 .. Ceil(Cardinality(Keys), PageSize)
    BY <1>2, <2>1, <2>2 DEF TypeOK
  <2> QED BY <1>1, <1>2, <1>4, <2>3 DEF TypeOK, Queries, Filters
<1>8. ASSUME Ordered, NEW k \in stayed \ seen', \A j \in entered \cup left : ~Before(j, k)
      PROVE  k \in Matching /\ Skip + PageSize <= Place(k) /\ pc' # "done"
  <2>1. k \in Matching /\ Skip <= Place(k) /\ Place(k) < totalRecord /\ Place(k) \in Nat
    BY <1>1, <1>2, <1>3, <1>8 DEF ListInv, Missing, Reading
  <2>2. Skip + PageSize <= Place(k)
    BY <1>1, <1>5, <1>8, <2>1, PageIsRange
  <2>3. TotalPage * PageSize >= totalRecord /\ TotalPage \in Nat /\ totalRecord \in Nat
    BY <1>2, SetsOfRows, PageSizeIsPositive, CeilCovers DEF TotalPage, TypeOK
  <2>4. page * PageSize < TotalPage * PageSize /\ TotalPage * PageSize \in Nat
    BY <1>5, <2>1, <2>2, <2>3
  <2>5. page < TotalPage
    BY <1>2, <1>5, <2>3, <2>4, PageSizeIsPositive, LessTimes DEF TypeOK
  <2> QED BY <1>2, <2>1, <2>2, <2>5
<1>9. Missing'
    BY <1>1, <1>2, <1>3, <1>6, <1>8 DEF Missing, Reading, TypeOK
<1>10. ASSUME Ordered, NEW k \in seen, \A j \in entered : ~Before(j, k)
       PROVE  Place(k) < Skip /\ k \notin p
  <2>1. Place(k) < Skip
    BY <1>2, <1>10 DEF ListInv, Repeating, Reading
  <2> QED BY <1>2, <1>3, <1>5, <1>10, <2>1, PageIsRange DEF TypeOK
<1>11. Repeating'
  <2>1. RepeatedRowWasPushed'
    BY <1>1, <1>2, <1>3, <1>4, <1>10 DEF ListInv, Repeating, RepeatedRowWasPushed, TypeOK
  <2>2. ASSUME Ordered, pc' = "count", NEW k \in seen', \A j \in entered : ~Before(j, k)
        PROVE  Place(k) < Skip'
    <3>1. CASE k \in seen
      BY <1>2, <1>3, <1>5, <1>6, <1>10, <2>2, <3>1 DEF TypeOK
    <3>2. CASE k \in p
      BY <1>6, <2>2, <3>2, PageIsRange
    <3> QED BY <1>1, <3>1, <3>2
  <2> QED BY <1>1, <1>2, <1>3, <1>4, <2>1, <2>2 DEF Repeating, Reading, TypeOK
<1>12. Unread'
    BY <1>2 DEF Unread
<1> QED BY <1>7, <1>9, <1>11, <1>12 DEF ListInv

-------------------------------------------------------------------------------
LEMMA ListInvHolds == Spec => []ListInv
<1>1. Init => ListInv
  <2> SUFFICES ASSUME Init PROVE ListInv
      OBVIOUS
  <2>1. Cardinality(Keys) \in Nat /\ Cardinality(Keys) > 0
    BY KeysAreIntegers, FS_CardinalityType, FS_EmptySet
  <2>2. 1 \in 1 .. Ceil(Cardinality(Keys), PageSize)
    BY <2>1, CeilCovers, PageSizeIsPositive
  <2>3. TypeOK
    BY <2>1, <2>2 DEF Init, TypeOK, Selected
  <2> QED BY <2>3 DEF ListInv, Init, Missing, Repeating, RepeatedRowWasPushed, Unread, Reading
<1>2. ListInv /\ [Next]_vars => ListInv'
  <2>1. ASSUME ListInv, UNCHANGED vars PROVE ListInv'
    <3>1. UNCHANGED <<list, rows, query, pc, page, totalRecord, seen, repeated, stayed, entered, left>>
      BY <2>1 DEF vars, reading
    <3>2. /\ (Ordered' <=> Ordered) /\ Matching' = Matching /\ Skip' = Skip
          /\ \A j, k \in Keys : Before(j, k)' <=> Before(j, k)
          /\ \A k \in Keys : Place(k)' = Place(k)
      BY <3>1, TableStays DEF Skip
    <3>3. TypeOK'
      BY <2>1, <3>1 DEF ListInv, TypeOK, Queries, Filters
    <3>4. Missing' /\ Repeating' /\ Unread'
      BY <2>1, <3>1, <3>2 DEF ListInv, Missing, Repeating, RepeatedRowWasPushed, Unread, Reading, TypeOK
    <3> QED BY <3>3, <3>4 DEF ListInv
  <2>2. ASSUME ListInv, NEW k \in Keys, NEW j \in Keys, NEW place \in {"in", "out"},
               InsertRow(k, place) \/ UpdateUser(k, j, place)
        PROVE  ListInv'
    <3>1. TypeOK' /\ Change
      BY <2>2, TableChanges DEF ListInv
    <3> QED BY <2>2, <3>1, ChangeKeeps DEF ListInv
  <2> QED BY <2>1, <2>2, BeginKeeps, CountKeeps, FindManyKeeps, RejectedKeeps DEF Next
<1> QED BY <1>1, <1>2, PTL DEF Spec

\* The variables keep their types; the page that is asked for is one that the
\* table can have (totalPage of PageMetaDto).
THEOREM TypesHold == Spec => []TypeOK
<1>1. ListInv => TypeOK
    BY DEF ListInv
<1> QED BY <1>1, ListInvHolds, PTL

\* With any number of rows and pages, a row of an ordered list that is on none
\* of the pages was moved by a row before it (findAll).
THEOREM WhatIsMissedWasMoved == Spec => []MissedRowWasMoved
<1>1. ListInv => MissedRowWasMoved
    BY DEF ListInv, Missing, MissedRowWasMoved
<1> QED BY <1>1, ListInvHolds, PTL

\* A row that is on two pages of an ordered list was pushed on by one that
\* entered before it (findAll).
THEOREM WhatIsRepeatedWasPushed == Spec => []RepeatedRowWasPushed
<1>1. ListInv => RepeatedRowWasPushed
    BY DEF ListInv, Repeating
<1> QED BY <1>1, ListInvHolds, PTL
==============================================================================
