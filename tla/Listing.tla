------------------------------ MODULE Listing ------------------------------
(***************************************************************************)
(* The paged lists: what each service's list method finds, how it cuts a   *)
(* page of it and where its cursor points, and the page of the admin web,  *)
(* or the API client, that walks the list by following the next link while *)
(* rows are inserted and updated.  Rows of a list are never deleted.       *)
(***************************************************************************)
EXTENDS Naturals, FiniteSets

CONSTANTS
    Id,        \* ids of rows, ordered as their UUIDs are
    Time,      \* createdAt, in milliseconds
    Value,     \* what a column of a row holds
    Page,      \* the pages and clients that walk a list
    Pending,   \* of them, the status a payment awaits its review in
    Hidden,    \* TENANT_HIDDEN_INVOICE_STATUSES
    Limit,     \* the limits a query may carry
    MaxWrites, \* bound: inserts and updates
    None,
    Any        \* a filter that is not sent, or sent empty

Dates == {"fromDate", "toDate"}

(* The rows of a list, in the columns that a page of it filters by.        *)
Column(p) == p.list.columns \cap (p.sends \cup {"status"})

Row(p) == [made : Time, cols : [Column(p) -> Value]]

ListingConstants ==
    /\ Id \subseteq Nat /\ Time \subseteq Nat /\ Limit \subseteq Nat \ {0} /\ MaxWrites \in Nat
    /\ IsFiniteSet(Id) /\ Pending \in Value
    /\ Any \notin Value /\ Any \notin Time /\ None \notin [made : Time, id : Id]
    /\ \A p \in Page : /\ p.unset \in Value \cup {Any} /\ (p.unset # Any => p.sends \cap Dates = {})
                       /\ None \notin Row(p)

ASSUME ListingAssumption == ListingConstants

(* A list: the columns its query may filter by, whether toDate bounds      *)
(* createdAt with lt or lte, and the statuses it never returns.            *)
List(columns, dates, hidden) == [columns |-> columns, dates |-> dates, hidden |-> hidden]

ListTenants       == List({"status"}, "none", {})
ListProperties    == List({}, "none", {})
ListUnits         == List({"propertyId", "status"}, "none", {})
ListMeters        == List({"unitId", "kind"}, "none", {})
ListReadings      == List({"meterId", "period"}, "none", {})
ListUsers         == List({"status"}, "none", {})
ListTenantInvites == List({"tenantId", "status"}, "none", {})
ListContracts     == List({"unitId", "tenantId", "status"}, "none", {})
ListPayments      == List({"status", "invoiceId", "tenantId"}, "none", {})
ListInvoices      == List({"status", "period", "tenantId"}, "none", {})
ListMyInvoices    == List({"status", "period"}, "none", Hidden)
ListAnnouncements == List({"status", "audience", "createdByUserId"}, "lte", {})
ListMaintenance   ==
    List({"status", "priority", "category", "unitId", "tenantId", "assignedToUserId"}, "lt", {})
ListMyMaintenance == ListMaintenance
ListAuditLogs     == List({"actorUserId", "resource", "action"}, "lt", {})

(* A page of the web: the list it shows, the filters it sends, those its   *)
(* next link keeps, and what it takes for a filter its URL does not have.  *)
Walker(list, sends, keeps, unset) == [list |-> list, sends |-> sends, keeps |-> keeps, unset |-> unset]

(* A client of the API sends the same query again, with the cursor added.  *)
Client(list, sends) == Walker(list, sends, sends, Any)

InvoicesPage      == Walker(ListInvoices, {"period", "status"}, {"period", "status"}, Any)
ContractsPage     == Walker(ListContracts, {"status"}, {"status"}, Any)
TenantsPage       == Walker(ListTenants, {"status"}, {"status"}, Any)
MaintenancePage   == Walker(ListMaintenance, {"status"}, {"status"}, Any)
AnnouncementsPage == Walker(ListAnnouncements, {"status"}, {"status"}, Any)
AuditLogPage      == Walker(ListAuditLogs, {"action", "resource"}, {"action", "resource"}, Any)
PropertiesPage    == Walker(ListProperties, {}, {}, Any)
UnitsPage         == Walker(ListUnits, {"propertyId"}, {}, Any)
PaymentsPage      == Walker(ListPayments, {"status"}, {"status"}, Pending)

VARIABLES
    page,   \* the page this walk is of
    rows,   \* [Id -> None or the row]
    walk,   \* at: closed, open, end; the filters asked for and in the URL; the cursor
    shown,  \* history: rows the walk has shown
    twice,  \* history: rows it has shown on two pages
    still,  \* history: rows that were there at its first page and matched ever since
    writes  \* how many inserts and updates there were

listVars == <<page, rows, walk, shown, twice, still, writes>>

Filters == {f \in [page.sends -> Value \cup Time \cup {Any}] :
               \A c \in page.sends : f[c] \in (IF c \in Dates THEN Time ELSE Value) \cup {Any}}

Cursor == [made : Time, id : Id]

ListTypeOK ==
    /\ page \in Page /\ rows \in [Id -> Row(page) \cup {None}] /\ writes \in 0 .. MaxWrites
    /\ walk.at \in {"closed", "open", "end"}
    /\ walk.at # "closed" => walk.asked \in Filters /\ walk.filter \in Filters
    /\ walk.at = "open" => walk.after \in Cursor
    /\ shown \subseteq Id /\ twice \subseteq Id /\ still \subseteq Id

Closed == [at |-> "closed", asked |-> None, filter |-> None, after |-> None]

ListInit ==
    /\ page \in Page
    /\ rows = [i \in Id |-> None]
    /\ walk = Closed
    /\ shown = {} /\ twice = {} /\ still = {}
    /\ writes = 0

There == {i \in Id : rows[i] # None}

(* The where clause of a query.                                            *)
Kept(c, want, row) ==
    \/ want = Any
    \/ c \in page.list.columns /\ row.cols[c] = want
    \/ c = "fromDate" /\ row.made >= want
    \/ c = "toDate" /\ row.made < want
    \/ c = "toDate" /\ row.made = want /\ page.list.dates = "lte"

Where(f, row) ==
    /\ \A c \in page.sends : Kept(c, f[c], row)
    /\ page.list.hidden # {} => row.cols["status"] \notin page.list.hidden

(* A mutant: whatever shares the cursor's millisecond comes again.          *)
AfterByTime(i, cursor) == rows[i].made <= cursor.made

(* The keyset clause: strictly after the cursor in (createdAt, id) DESC.   *)
After(i, cursor) ==
    \/ rows[i].made < cursor.made
    \/ rows[i].made = cursor.made /\ i < cursor.id

CursorOf(i) == [made |-> rows[i].made, id |-> i]

Found(f, cursor) == {i \in There : Where(f, rows[i]) /\ (cursor = None \/ After(i, cursor))}

(* orderBy, take: items is what limit lets through of the rows found.      *)
FirstOf(items, found, limit) ==
    /\ items \subseteq found
    /\ Cardinality(items) = IF Cardinality(found) <= limit THEN Cardinality(found) ELSE limit
    /\ \A i \in items, j \in found \ items : After(j, CursorOf(i))

Last(items) == CHOOSE i \in items : \A j \in items \ {i} : After(i, CursorOf(j))

(* A mutant: the cursor is the row fetched beyond the limit, and cut off.  *)
NextCursorAtOverflow(items, found) ==
    IF items = found THEN None
    ELSE CursorOf(CHOOSE i \in found \ items : \A j \in found \ items : i = j \/ After(j, CursorOf(i)))

(* buildCursorPage: the cursor is the last row returned, when more follow. *)
NextCursor(items, found) == IF items = found THEN None ELSE CursorOf(Last(items))

(* A page of the walk is read and shown: the first, or the next.           *)
Read(asked, filter, cursor, limit, before) ==
    LET found == Found(filter, cursor) IN
    \E items \in SUBSET found :
        /\ FirstOf(items, found, limit)
        /\ walk' = [at |-> IF NextCursor(items, found) = None THEN "end" ELSE "open",
                    asked |-> asked, filter |-> filter, after |-> NextCursor(items, found)]
        /\ shown' = before \cup items
        /\ twice' = twice \cup (before \cap items)

(* The list is opened with a filter, or the filter changed: no cursor.     *)
Open(f, limit) ==
    /\ f \in Filters
    /\ Read(f, f, None, limit, {})
    /\ still' = Found(f, None)
    /\ UNCHANGED <<page, rows, writes>>

(* The filters the next link carries, as the page then reads them.         *)
Carried(f) == [c \in page.sends |-> IF c \in page.keeps /\ f[c] # Any THEN f[c] ELSE page.unset]

(* The next link is followed.                                              *)
Turn(limit) ==
    /\ walk.at = "open"
    /\ Read(walk.asked, Carried(walk.filter), walk.after, limit, shown)
    /\ UNCHANGED <<page, rows, still, writes>>

Write(i, row) ==
    /\ writes < MaxWrites /\ writes' = writes + 1
    /\ rows' = [rows EXCEPT ![i] = row]
    /\ still' = {j \in still : Where(walk.asked, rows'[j])}
    /\ UNCHANGED <<page, walk, shown, twice>>

(* A row is inserted: its createdAt is of before its commit, however long. *)
Create(i) == rows[i] = None /\ \E row \in Row(page) : Write(i, row)

(* What an update may change of the columns lists filter by: never createdAt. *)
Updated == {"status", "assignedToUserId", "priority", "propertyId"}

Change(i, c, v) ==
    /\ rows[i] # None /\ c \in Updated /\ rows[i].cols[c] # v
    /\ Write(i, [rows[i] EXCEPT !.cols[c] = v])

ListNext ==
    \/ \E limit \in Limit : (\E f \in Filters : Open(f, limit)) \/ Turn(limit)
    \/ \E i \in Id : Create(i) \/ \E c \in Column(page), v \in Value : Change(i, c, v)

ListSpec == ListInit /\ [][ListNext]_listVars

(* No row is on two pages of one walk, whatever was inserted or updated    *)
(* between them, also among rows of the same millisecond: the cursor is    *)
(* the last row shown and the next page starts strictly after it.          *)
NothingTwice == twice = {}

(* A next link that never narrows what was asked for.                      *)
Widens(f) == \A c \in page.sends : Carried(f)[c] \in {Any, f[c]}

(* A walk that has come to its end has shown every row that was in the     *)
(* list at its first page and matched the filters ever since.  Rows that   *)
(* leave the filter meanwhile, as payments do when the operator confirms   *)
(* them out of the pending queue, take no others with them.                *)
NothingSkipped == walk.at = "end" /\ Widens(walk.asked) => still \subseteq shown

(* The same of every page and every filter.  payment-status-filter.tsx     *)
(* keeps "all statuses" apart from "no filter chosen yet" by an empty      *)
(* parameter, which the next link of the payments page drops.              *)
EveryRowIsShown == walk.at = "end" => still \subseteq shown
=============================================================================
