-------------------------------- MODULE Listing --------------------------------
(***************************************************************************)
(* Reading a list page by page (findAll of TransactionService and of       *)
(* UserService) while its rows change.  A page is two calls, the count and *)
(* the rows, and a list is as many pages as the last answer's totalPage    *)
(* says: my-transactions of a user, or the users that a filter selects.    *)
(*                                                                         *)
(* A row is its place in the column the list is ordered by.  Transactions  *)
(* never leave the list of their user.  Users do, and come back, when what *)
(* they are filtered by changes; and one whose id or createdAt changes     *)
(* leaves its place and is another row in the next.                        *)
(***************************************************************************)
EXTENDS Integers, FiniteSets, FiniteSetsExt

CONSTANTS
    Keys,           \* places of rows, a bound on their number
    PageSize

ASSUME KeysAreIntegers == Keys \subseteq Int /\ Keys # {} /\ IsFiniteSet(Keys)
ASSUME PageSizeIsPositive == PageSize \in Nat \ {0}

VARIABLES
    list,           \* what is listed: "transaction" or "user"
    rows,           \* per key: no row, one in the list, one that is filtered out
    query,          \* the filter, and the client's order: parameter, column, direction
    pc,
    page,           \* the page that is asked for
    totalRecord,    \* what the count of this page returned
    seen, repeated, \* rows the client has read, and has read twice
    stayed,         \* history: rows in the list ever since the reading began
    entered, left   \* history: rows that entered or left it meanwhile

reading == <<query, pc, page, totalRecord, seen, repeated>>
vars == <<list, rows, reading, stayed, entered, left>>

\* Transactions are filtered by their owner; users by what WhereUser reads (status,
\* id, identifiers, ...), or by what it does not (email, walletAddress, isAdmin).
Filters(l) == IF l = "transaction" THEN {"owner"} ELSE {"status", "email"}

\* buildOrders is given `order` alone.  WhereUser reads `orders` alone, and what
\* it does with a single one is no order.
OrderParam(l) == IF l = "transaction" THEN "order" ELSE "orders[]"

\* A list without an order has no column nor direction; let them be these.  It is
\* the one whose order is in the parameter of the other list.
Queries(l) ==
    {q \in [filter : Filters(l), param : {"order", "orders[]"},
            column : {"createdAt", "id"}, direction : {"asc", "desc"}] :
        q.param # OrderParam(l) => q.column = "id" /\ q.direction = "asc"}

Ceil(n, d) == (n + d - 1) \div d

TypeOK ==
    /\ list \in {"transaction", "user"}
    /\ rows \in [Keys -> {"none", "in", "out"}]
    /\ query \in Queries(list)
    /\ pc \in {"idle", "count", "findMany", "rejected", "done"}
    /\ page \in 1 .. Ceil(Cardinality(Keys), PageSize)
    /\ totalRecord \in 0 .. Cardinality(Keys)
    /\ {seen, repeated, stayed, entered, left} \subseteq SUBSET Keys

Matching == {k \in Keys : rows[k] = "in"}

\* Where the filter may put a row.
Selected == IF query.filter = "status" THEN {"in", "out"} ELSE {"in"}

Init ==
    /\ list \in {"transaction", "user"}
    /\ query \in Queries(list)
    /\ rows \in [Keys -> {"none"} \cup Selected]
    /\ pc = "idle"
    /\ page = 1
    /\ totalRecord = 0
    /\ seen = {}
    /\ repeated = {}
    /\ stayed = {}
    /\ entered = {}
    /\ left = {}

-------------------------------------------------------------------------------
\* These rows enter and leave the list.  What changes before it is read is in
\* Init, which begins with any rows.
Changed(in, out) ==
    /\ pc \in {"count", "findMany"}
    /\ entered' = entered \cup in
    /\ left' = left \cup out
    /\ stayed' = stayed \ out

\* A record, or a user.  A new row is the last in createdAt.
InsertRow(k, place) ==
    /\ rows[k] = "none"
    /\ place \in Selected
    /\ query.column = "createdAt" => \A j \in Keys : j > k => rows[j] = "none"
    /\ rows' = [rows EXCEPT ![k] = place]
    /\ Changed(IF place = "in" THEN {k} ELSE {}, {})
    /\ UNCHANGED <<list, reading>>

\* PUT users/:id, whose body may have any of the columns that users are filtered or
\* ordered by, or update-status, which writes one: the row is in the list or not,
\* in its place or another.
UpdateUser(k, j, place) ==
    /\ list = "user"
    /\ rows[k] # "none"
    /\ j = k \/ rows[j] = "none"
    /\ place \in Selected
    /\ rows' = [rows EXCEPT ![k] = "none", ![j] = place]
    /\ Changed(Matching' \ Matching, Matching \ Matching')
    /\ UNCHANGED <<list, reading>>

-------------------------------------------------------------------------------
Ordered == query.param = OrderParam(list)

\* WhereUser's decamelize makes created_at of createdAt, which is no field.
UnknownField == list = "user" /\ Ordered /\ query.column = "createdAt"

Before(j, k) == IF query.direction = "asc" THEN j < k ELSE k < j

\* Faulty variants: pages counted from zero; rows skipped instead of pages.
SkipFromZero == page * PageSize
SkipRows == page - 1

Skip == (page - 1) * PageSize

\* What findMany may return: any rows will do for a list without an order.
Page ==
    IF Ordered
    THEN {{k \in Matching : LET place == Cardinality({j \in Matching : Before(j, k)})
                            IN  Skip <= place /\ place < Skip + PageSize}}
    ELSE LET rest == Cardinality(Matching) - Skip
         IN  kSubset(IF rest < 0 THEN 0 ELSE IF rest > PageSize THEN PageSize ELSE rest,
                     Matching)

\* A faulty variant: one page too many.
TotalPageAndOne == Ceil(totalRecord, PageSize) + 1

\* PageMetaDto.
TotalPage == Ceil(totalRecord, PageSize)

-------------------------------------------------------------------------------
\* The client asks for the first page.
Begin ==
    /\ pc = "idle"
    /\ pc' = "count"
    /\ stayed' = Matching
    /\ UNCHANGED <<list, rows, query, page, totalRecord, seen, repeated, entered, left>>

\* findAll: the count, ...
Count ==
    /\ pc = "count"
    /\ totalRecord' = Cardinality(Matching)
    /\ pc' = "findMany"
    /\ UNCHANGED <<list, rows, query, page, seen, repeated, stayed, entered, left>>

\* ... then the rows, with which the answer is made of both.
FindMany ==
    /\ pc = "findMany"
    /\ ~UnknownField
    /\ \E p \in Page : /\ seen' = seen \cup p
                       /\ repeated' = repeated \cup (seen \cap p)
    /\ IF page < TotalPage THEN page' = page + 1 /\ pc' = "count"
                           ELSE pc' = "done" /\ UNCHANGED page
    /\ UNCHANGED <<list, rows, query, totalRecord, stayed, entered, left>>

Rejected ==
    /\ pc = "findMany"
    /\ UnknownField
    /\ pc' = "rejected"
    /\ UNCHANGED <<list, rows, query, page, totalRecord, seen, repeated, stayed, entered, left>>

Next ==
    \/ \E k \in Keys, place \in {"in", "out"} : InsertRow(k, place)
    \/ \E k, j \in Keys, place \in {"in", "out"} : UpdateUser(k, j, place)
    \/ Begin \/ Count \/ FindMany \/ Rejected

Spec == Init /\ [][Next]_vars

-------------------------------------------------------------------------------
\* A row that was in an ordered list all the while and is on none of its pages
\* was moved by a row before it that left, or that entered after the count.  So
\* the records of a user read oldest first are all there: none leaves, and a new
\* one comes last.
MissedRowWasMoved ==
    pc = "done" /\ Ordered =>
        \A k \in stayed \ seen : \E j \in entered \cup left : Before(j, k)

\* A row that is on two pages of an ordered list was pushed on by a row that
\* entered before it; leaving rows repeat none.
RepeatedRowWasPushed ==
    Ordered => \A k \in repeated : \E j \in entered : Before(j, k)
===============================================================================
