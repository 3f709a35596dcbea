------------------------------ MODULE Occupancy ------------------------------
(***************************************************************************)
(* Properties, units, tenants and contracts: the create and update of the  *)
(* four services, each in the transaction of its request (READ COMMITTED), *)
(* the soft warning of the plan's limits, and the detail pages of the      *)
(* admin web, which show a new status before the API has agreed to it.     *)
(*                                                                         *)
(* The four services are one program with different columns, so they share *)
(* one table here: a row has the rows it refers to, a key some index keeps *)
(* unique, a period and a status.  What a transaction wrote is seen when    *)
(* it commits; until then it holds the row and the key.                    *)
(***************************************************************************)
EXTENDS Naturals, FiniteSets

CONSTANTS
    Id,           \* ids of rows
    KindOf,       \* [Id -> Kind]
    Staff,        \* staff members, each with at most one request
    Viewer,       \* those whose detail pages are followed; anyone's requests may come without
    Company,
    CompanyOf,    \* [Staff -> Company]
    Rows0,        \* the rows there are at first
    Key,          \* room numbers, slugs and LINE users
    Day,          \* days of a contract
    NoEnd,        \* the day that an open-ended contract ends: after all others
    StatusOf,     \* [Kind -> the statuses a request may ask for]
    Limit,        \* how many properties, and how many units, the plan allows
    MaxOf,        \* bound, [Kind -> Nat]: a request about a kind is one of the first so many
    None

Kind == {"property", "unit", "tenant", "contract"}

Status == {"draft", "active", "ended", "terminated",
           "vacant", "occupied", "maintenance", "reserved", "moved_out", "blocked"}

Row == [company : Company, refs : SUBSET Id, key : Key \cup {None},
        start : Day \cup {None}, end : Day \cup {NoEnd, None}, status : Status]

Rows == [Id -> Row \cup {None}]

(* The kinds of the rows that a row of a kind refers to.                   *)
RefersTo(kind) ==
    CASE kind = "unit" -> {"property"} [] kind = "contract" -> {"unit", "tenant"} [] OTHER -> {}

Kinds(ids) == {KindOf[id] : id \in ids}

Live(status) == status \in {"draft", "active"}

UnitOf(refs) == CHOOSE id \in refs : KindOf[id] = "unit"

Overlap(start1, end1, start2, end2) == start1 <= end2 /\ start2 <= end1

(* Two live contracts of one unit.                                         *)
Clash(rows_, id1, id2) ==
    /\ KindOf[id1] = "contract" /\ KindOf[id2] = "contract" /\ id1 # id2
    /\ Live(rows_[id1].status) /\ Live(rows_[id2].status)
    /\ UnitOf(rows_[id1].refs) = UnitOf(rows_[id2].refs)
    /\ Overlap(rows_[id1].start, rows_[id1].end, rows_[id2].start, rows_[id2].end)

Refers(rows_, id) ==
    /\ Kinds(rows_[id].refs) = RefersTo(KindOf[id])
    /\ \A ref \in rows_[id].refs : rows_[ref] # None /\ rows_[ref].company = rows_[id].company

OccupancyConstants ==
    /\ IsFiniteSet(Id) /\ Viewer \subseteq Staff
    /\ KindOf \in [Id -> Kind] /\ CompanyOf \in [Staff -> Company]
    /\ Day \subseteq Nat /\ NoEnd \in Nat /\ \A d \in Day : d < NoEnd
    /\ None \notin Id /\ None \notin Key /\ None \notin Day \cup {NoEnd} /\ None \notin Status
    /\ None \notin Row
    /\ StatusOf \in [Kind -> SUBSET Status] /\ Limit \in Nat /\ MaxOf \in [Kind -> Nat]
    /\ Rows0 \in Rows
    /\ \A id \in Id : Rows0[id] # None => Refers(Rows0, id)
    /\ \A id1, id2 \in {id \in Id : Rows0[id] # None} : ~Clash(Rows0, id1, id2)

ASSUME OccupancyAssumption == OccupancyConstants

VARIABLES
    rows,      \* the tables, as committed
    req,       \* [Staff -> the request the server is working on]
    page,      \* [Viewer -> the detail page that is open]
    warnings,  \* plan.limit_exceeded rows of the audit log: [company, kind, count]
    recent,    \* those <<company, kind>> whose last warning is less than a day old
    sent,      \* how many requests were sent
    was,       \* history: the statuses each row has had
    raced,     \* history: units of which two overlapping transactions wrote contracts
    unkept     \* history: [Viewer -> what its open page asked for, was told is done, and is not kept]

vars == <<rows, req, page, warnings, recent, sent, was, raced, unkept>>

Idle == [at |-> "idle", id |-> None, create |-> FALSE, refs |-> {}, key |-> None,
         start |-> None, end |-> None, status |-> None, seen |-> None,
         count |-> 0, warn |-> FALSE, crossed |-> FALSE, paged |-> FALSE]

NoPage == [id |-> None, shown |-> None, before |-> None]

Request ==
    [at : {"idle", "find", "check", "write", "commit", "ok", "failed"}, id : Id \cup {None},
     create : BOOLEAN, refs : SUBSET Id, key : Key \cup {None}, start : Day \cup {None},
     end : Day \cup {NoEnd, None}, status : Status \cup {None}, seen : Row \cup {None},
     count : Nat, warn : BOOLEAN, crossed : BOOLEAN, paged : BOOLEAN]

TypeOK ==
    /\ rows \in Rows /\ req \in [Staff -> Request]
    /\ \A id \in Id : rows[id] # None => Kinds(rows[id].refs) = RefersTo(KindOf[id])
    /\ \A s \in Staff : req[s].at = "idle" <=> req[s] = Idle
    /\ page \in [Viewer -> [id : Id \cup {None}, shown : Status \cup {None}, before : Status \cup {None}]]
    /\ \A s \in Viewer : page[s].id # None => rows[page[s].id] # None
    /\ warnings \subseteq [company : Company, kind : Kind, count : Nat]
    /\ recent \subseteq Company \X Kind
    /\ \E kind \in Kind : sent \in 0 .. MaxOf[kind]
    /\ was \in [Id -> SUBSET Status] /\ unkept \in [Viewer -> SUBSET Status]

Init ==
    /\ rows = Rows0
    /\ req = [s \in Staff |-> Idle]
    /\ page = [s \in Viewer |-> NoPage]
    /\ warnings = {} /\ recent = {} /\ sent = 0 /\ raced = {}
    /\ unkept = [s \in Viewer |-> {}]
    /\ was = [id \in Id |-> IF Rows0[id] = None THEN {} ELSE {Rows0[id].status}]

-----------------------------------------------------------------------------
There == {id \in Id : rows[id] # None}

Of(kind) == {id \in Id : KindOf[id] = kind}

(* What the row-level security policies show a staff member's transaction. *)
Visible(s, id) == id \in There /\ rows[id].company = CompanyOf[s]

(* The unique indexes: (company, slug), (property, number), and             *)
(* (company, LINE user), which a tenant without one does not enter.        *)
SameKey(kind, row1, row2) ==
    CASE kind = "property" -> row1.company = row2.company /\ row1.key = row2.key
      [] kind = "unit"     -> row1.refs = row2.refs /\ row1.key = row2.key
      [] kind = "tenant"   -> row1.company = row2.company /\ row1.key = row2.key /\ row1.key # None
      [] kind = "contract" -> FALSE

Or(value, otherwise) == IF value = None THEN otherwise ELSE value

FirstStatus(kind) ==
    CASE kind = "contract" -> "draft" [] kind = "unit" -> "vacant" [] OTHER -> "active"

(* A mutant: a property that was not sent is taken away. *)
WrittenClearing(s) ==
    LET r == req[s]
    IN  IF r.create
        THEN [company |-> CompanyOf[s], refs |-> r.refs, key |-> r.key,
              start |-> r.start, end |-> r.end, status |-> FirstStatus(KindOf[r.id])]
        ELSE [rows[r.id] EXCEPT !.refs = r.refs, !.key = Or(r.key, @), !.end = Or(r.end, @),
                                !.status = Or(r.status, @)]

(* The row a request would leave: a field that was not sent stays.         *)
Written(s) ==
    LET r == req[s]
    IN  IF r.create
        THEN [company |-> CompanyOf[s], refs |-> r.refs, key |-> r.key,
              start |-> r.start, end |-> r.end, status |-> FirstStatus(KindOf[r.id])]
        ELSE [rows[r.id] EXCEPT !.refs = IF r.refs = {} THEN @ ELSE r.refs, !.key = Or(r.key, @),
                                !.end = Or(r.end, @), !.status = Or(r.status, @)]

-----------------------------------------------------------------------------
(* Requests.  The web and the API validate them with the same schemas.     *)

Sends(s, r) ==
    /\ req[s] = Idle /\ sent < MaxOf[KindOf[r.id]]
    /\ sent' = sent + 1
    /\ req' = [req EXCEPT ![s] = r]

Taken == There \cup {req[s].id : s \in Staff}

Posts(s, kind, r) ==
    /\ Of(kind) \ Taken # {}
    /\ Sends(s, [r EXCEPT !.at = "check", !.create = TRUE, !.id = CHOOSE id \in Of(kind) \ Taken : TRUE])
    /\ UNCHANGED <<rows, page, warnings, recent, was, raced, unkept>>

PostProperty(s, slug) == Posts(s, "property", [Idle EXCEPT !.key = slug])

PostUnit(s, property, number) ==
    Posts(s, "unit", [Idle EXCEPT !.refs = {property}, !.key = number])

PostTenant(s, lineUser) == Posts(s, "tenant", [Idle EXCEPT !.key = lineUser])

(* createContractInputSchema: the last day is after the first.             *)
PostContract(s, unit, tenant, start, end) ==
    /\ start < end
    /\ Posts(s, "contract", [Idle EXCEPT !.refs = {unit, tenant}, !.start = start, !.end = end])

Patches(s, id, r) ==
    /\ Sends(s, [r EXCEPT !.at = "find", !.id = id])
    /\ UNCHANGED <<rows, warnings, recent, was, raced, unkept>>

(* updateContractInputSchema has no refinement: the new last day may be    *)
(* before the first.                                                       *)
PatchContract(s, id, status, end) ==
    /\ id \in There /\ <<status, end>> # <<None, None>>
    /\ Patches(s, id, [Idle EXCEPT !.status = status, !.end = end])
    /\ UNCHANGED page

PatchUnit(s, id, property, number, status) ==
    /\ id \in There /\ <<property, number, status>> # <<None, None, None>>
    /\ Patches(s, id, [Idle EXCEPT !.refs = {property} \ {None}, !.key = number, !.status = status])
    /\ UNCHANGED page

PatchOther(s, id, key, status) ==
    /\ id \in There /\ <<key, status>> # <<None, None>>
    /\ KindOf[id] = "property" => status = None
    /\ Patches(s, id, [Idle EXCEPT !.key = key, !.status = status])
    /\ UNCHANGED page

-----------------------------------------------------------------------------
(* The services.                                                           *)

(* Goes on, or ends: a request that no page waits for is then forgotten.   *)
Ends(s, at) ==
    req' = [req EXCEPT ![s] = IF at = "failed" /\ ~@.paged THEN Idle ELSE [@ EXCEPT !.at = at]]

(* getById: 404 when the policies hide the row.  The row read here is what *)
(* the rest of an update goes by.                                          *)
Find(s) ==
    /\ req[s].at = "find"
    /\ IF Visible(s, req[s].id)
       THEN req' = [req EXCEPT ![s].at = "check", ![s].seen = rows[req[s].id]]
       ELSE Ends(s, "failed")
    /\ UNCHANGED <<rows, page, warnings, recent, sent, was, raced, unkept>>

(* A mutant: reopening an ended contract is no reason to look again. *)
ChecksMovedDates(r) ==
    KindOf[r.id] = "contract" /\ (r.create \/ (Live(Or(r.status, r.seen.status)) /\ r.end # None))

(* A create always looks for an overlap; an update does when the contract  *)
(* will be live, and its dates move or it was not live.                    *)
NeedsOverlapCheck(r) ==
    /\ KindOf[r.id] = "contract"
    /\ r.create \/ (Live(Or(r.status, r.seen.status)) /\ (r.end # None \/ ~Live(r.seen.status)))

(* assertNoOverlap, on the committed contracts of the unit.                *)
Overlaps(r) ==
    LET start == IF r.create THEN r.start ELSE r.seen.start
        end   == IF r.create THEN r.end ELSE Or(r.end, r.seen.end)
        unit  == UnitOf(IF r.create THEN r.refs ELSE r.seen.refs)
    IN  \E id \in There \ {r.id} :
            /\ KindOf[id] = "contract" /\ UnitOf(rows[id].refs) = unit /\ Live(rows[id].status)
            /\ Overlap(rows[id].start, rows[id].end, start, end)

(* A mutant: an update does not ask whose property it moves the unit to. *)
CheckCreates(s) ==
    /\ req[s].at = "check"
    /\ Ends(s, IF /\ req[s].create => \A id \in req[s].refs : Visible(s, id)
                  /\ ~(NeedsOverlapCheck(req[s]) /\ Overlaps(req[s]))
               THEN "write" ELSE "failed")
    /\ UNCHANGED <<rows, page, warnings, recent, sent, was, raced, unkept>>

(* The rows referred to are visible (400), no contract overlaps (409).     *)
Check(s) ==
    /\ req[s].at = "check"
    /\ Ends(s, IF /\ \A id \in req[s].refs : Visible(s, id)
                  /\ ~(NeedsOverlapCheck(req[s]) /\ Overlaps(req[s]))
               THEN "write" ELSE "failed")
    /\ UNCHANGED <<rows, page, warnings, recent, sent, was, raced, unkept>>

(* Whoever has written and not committed holds the row and its keys.       *)
Holds(s, t) ==
    /\ t # s /\ req[t].at = "commit" /\ KindOf[req[t].id] = KindOf[req[s].id]
    /\ req[t].id = req[s].id \/ SameKey(KindOf[req[s].id], Written(t), Written(s))

Duplicate(s) ==
    \E id \in There \ {req[s].id} :
        KindOf[id] = KindOf[req[s].id] /\ SameKey(KindOf[id], rows[id], Written(s))

Counted(s) ==
    Cardinality({id \in There : KindOf[id] = KindOf[req[s].id] /\ rows[id].company = CompanyOf[s]}) + 1

(* INSERT or UPDATE: it waits for a holder, and a duplicate key is a 409.  *)
(* A create then counts the rows it sees, its own and the committed ones.  *)
Write(s) ==
    /\ req[s].at = "write" /\ \A t \in Staff : ~Holds(s, t)
    /\ IF Duplicate(s)
       THEN Ends(s, "failed")
       ELSE req' = [req EXCEPT ![s].at = "commit",
                               ![s].count = IF req[s].create THEN Counted(s) ELSE 0]
    /\ UNCHANGED <<rows, page, warnings, recent, sent, was, raced, unkept>>

(* What a warning is about, at most one a day.                              *)
Limited(s) == <<CompanyOf[s], KindOf[req[s].id]>>

(* A mutant: the warning has a transaction of its own. *)
WarnApart(s) ==
    /\ req[s].at = "commit" /\ Limited(s) \notin recent /\ KindOf[req[s].id] \in {"property", "unit"}
    /\ req[s].count > Limit
    /\ warnings' = warnings \cup {[company |-> CompanyOf[s], kind |-> KindOf[req[s].id], count |-> req[s].count]}
    /\ recent' = recent \cup {Limited(s)}
    /\ UNCHANGED <<rows, req, page, sent, was, raced, unkept>>

(* softWarnPlanLimit, not awaited: once the plan is read it writes in the   *)
(* transaction of the request, if that is still open, and otherwise never. *)
Warn(s) ==
    /\ req[s].at = "commit" /\ Limited(s) \notin recent /\ KindOf[req[s].id] \in {"property", "unit"}
    /\ req[s].count > Limit /\ ~req[s].warn
    /\ req' = [req EXCEPT ![s].warn = TRUE]
    /\ UNCHANGED <<rows, page, warnings, recent, sent, was, raced, unkept>>

Tomorrow ==
    /\ recent # {} /\ recent' = {}
    /\ UNCHANGED <<rows, req, page, warnings, sent, was, raced, unkept>>

(* Both write a contract of one unit.                                      *)
SameUnit(s, t) ==
    LET unit(r) == UnitOf(IF r.create THEN r.refs ELSE rows[r.id].refs)
    IN  /\ t # s /\ req[t].at \in {"find", "check", "write", "commit"}
        /\ KindOf[req[s].id] = "contract" /\ KindOf[req[t].id] = "contract"
        /\ unit(req[s]) = unit(req[t])

Commit(s) ==
    LET id  == req[s].id
        row == Written(s)
    IN  /\ req[s].at = "commit"
        /\ rows' = [rows EXCEPT ![id] = row]
        /\ was' = [was EXCEPT ![id] = @ \cup {row.status}]
        /\ warnings' = IF ~req[s].warn THEN warnings ELSE
                warnings \cup {[company |-> CompanyOf[s], kind |-> KindOf[id], count |-> req[s].count]}
        /\ recent' = IF req[s].warn THEN recent \cup {Limited(s)} ELSE recent
        /\ raced' = IF req[s].crossed THEN raced \cup {UnitOf(row.refs)} ELSE raced
        /\ req' = [t \in Staff |->
                IF t = s THEN IF req[s].paged THEN [req[s] EXCEPT !.at = "ok"] ELSE Idle
                ELSE IF SameUnit(s, t) THEN [req[t] EXCEPT !.crossed = TRUE] ELSE req[t]]
        /\ UNCHANGED <<page, sent, unkept>>

(* The audit INSERT failed (or that of the warning): both errors are        *)
(* swallowed and the answer is a success, but the transaction is aborted    *)
(* and its COMMIT keeps nothing.                                           *)
CommitAborted(s) ==
    /\ req[s].at = "commit"
    /\ req' = [req EXCEPT ![s] = IF @.paged THEN [@ EXCEPT !.at = "ok"] ELSE Idle]
    /\ unkept' = IF req[s].paged THEN [unkept EXCEPT ![s] = @ \cup {req[s].status}] ELSE unkept
    /\ UNCHANGED <<rows, page, warnings, recent, sent, was, raced>>

(* The transaction times out, or the connection is lost; had it been lost   *)
(* earlier, there would be as little to see.                               *)
Rollback(s) ==
    /\ req[s].at = "commit"
    /\ Ends(s, "failed")
    /\ UNCHANGED <<rows, page, warnings, recent, sent, was, raced, unkept>>

-----------------------------------------------------------------------------
(* The detail pages of a contract and of a tenant.                         *)

(* Loading the page; it keeps the status in a state of its own after that. *)
Open(s, id) ==
    /\ req[s] = Idle /\ Visible(s, id)
    /\ page' = [page EXCEPT ![s] = [NoPage EXCEPT !.id = id, !.shown = rows[id].status]]
    /\ unkept' = [unkept EXCEPT ![s] = {}]
    /\ UNCHANGED <<rows, req, warnings, recent, sent, was, raced>>

Offered(kind, status) ==
    CASE kind = "tenant" -> StatusOf["tenant"] \ {status}
      [] status = "draft" -> {"active", "terminated"}
      [] status = "active" -> {"ended", "terminated"}
      [] OTHER -> {}

Click(s, status) ==
    /\ page[s].id # None /\ status \in Offered(KindOf[page[s].id], page[s].shown)
    /\ page' = [page EXCEPT ![s].shown = status, ![s].before = page[s].shown]
    /\ Patches(s, page[s].id, [Idle EXCEPT !.status = status, !.paged = TRUE])

(* A mutant: the page keeps what was clicked. *)
AnswerKeeping(s) ==
    /\ req[s].at \in {"ok", "failed"}
    /\ req' = [req EXCEPT ![s] = Idle]
    /\ UNCHANGED <<rows, page, warnings, recent, sent, was, raced, unkept>>

(* The page keeps the new status when it hears of success, and otherwise    *)
(* goes back to the one before; the answer may be lost.                    *)
Answer(s) ==
    /\ req[s].at \in {"ok", "failed"}
    /\ req' = [req EXCEPT ![s] = Idle]
    /\ \/ page' = [page EXCEPT ![s].shown = page[s].before, ![s].before = None]
       \/ req[s].at = "ok" /\ page' = [page EXCEPT ![s].before = None]
    /\ UNCHANGED <<rows, warnings, recent, sent, was, raced, unkept>>

Serve(s) ==
    Find(s) \/ Check(s) \/ Write(s) \/ Commit(s) \/ CommitAborted(s) \/ (s \in Viewer /\ Answer(s))

(* The forms for a new row, and the ways to change one; the web changes a   *)
(* status only, other clients of the API whatever the schemas allow.       *)
NewProperty(s) == \E key \in Key : PostProperty(s, key)

NewTenant(s) == \E key \in Key \cup {None} : PostTenant(s, key)

NewUnit(s) == \E property \in Of("property"), number \in Key : PostUnit(s, property, number)

NewContract(s) ==
    \E unit \in Of("unit"), tenant \in Of("tenant"), start \in Day, end \in Day \cup {NoEnd} :
       PostContract(s, unit, tenant, start, end)

Edit(s) ==
    \/ \E id \in Of("contract"), status \in StatusOf["contract"] \cup {None}, end \in Day \cup {None} :
          PatchContract(s, id, status, end)
    \/ \E id \in Of("unit"), property \in Of("property") \cup {None}, number \in Key \cup {None},
          status \in StatusOf["unit"] \cup {None} : PatchUnit(s, id, property, number, status)
    \/ \E id \in Of("property") \cup Of("tenant"), key \in Key \cup {None},
          status \in StatusOf["tenant"] \cup {None} : PatchOther(s, id, key, status)

Send(s) == NewProperty(s) \/ NewTenant(s) \/ NewUnit(s) \/ NewContract(s) \/ Edit(s)

Next ==
    \/ \E s \in Staff : Send(s) \/ Serve(s) \/ Warn(s) \/ Rollback(s)
    \/ \E s \in Viewer :
          \/ \E id \in Of("contract") \cup Of("tenant") : Open(s, id)
          \/ \E status \in StatusOf["contract"] \cup StatusOf["tenant"] : Click(s, status)
    \/ Tomorrow

Spec == Init /\ [][Next]_vars

-----------------------------------------------------------------------------
(* The overlap check leaves no hole of its own: two live contracts of one   *)
(* unit overlap only when transactions that wrote contracts of that unit    *)
(* ran at the same time (assertNoOverlap, and when update skips it).       *)
OverlapOnlyByRace ==
    \A id1, id2 \in There : Clash(rows, id1, id2) => UnitOf(rows[id1].refs) \in raced

(* No row refers to a row of another company or to none, which the policies, *)
(* one per table, do not see to: a unit's property, a contract's unit and  *)
(* tenant.                                                                 *)
RefsStayHome == \A id \in There : Refers(rows, id)

(* What the services look up before they write keeps the rows consistent   *)
(* with each other, whoever writes beside them.                            *)
RowsAgree == OverlapOnlyByRace /\ RefsStayHome

(* A warning of plan limits in the audit log tells of rows that are there:  *)
(* none is left by a create that was rolled back after it had counted.     *)
WarningIsTrue ==
    \A w \in warnings :
        w.count > Limit /\ w.count <= Cardinality({id \in There : KindOf[id] = w.kind /\ rows[id].company = w.company})

(* A detail page that waits for nothing shows a status its row has really   *)
(* had, whether the change it asked for was made, refused or unheard of;    *)
(* unless its own change was answered and not kept.                        *)
ShownWasTrue ==
    \A s \in Viewer : page[s].id # None /\ ~req[s].paged =>
        page[s].shown \in was[page[s].id] \cup unkept[s]

(* audit-log.interceptor.ts:49-50: a failing audit insert does not fail the *)
(* user's action; so what a page was told of has been so.                  *)
ToldWasKept == \A s \in Viewer : page[s].id # None => unkept[s] \subseteq was[page[s].id]

(* dashboard.service.ts counts occupied units by unit.status, and says the  *)
(* unit and contract services keep it in step with the contracts.          *)
OccupiedHasContract ==
    (\A s \in Staff : req[s] = Idle) =>
        \A unit \in {id \in There : KindOf[id] = "unit"} :
            rows[unit].status = "occupied" <=>
                \E id \in There : KindOf[id] = "contract" /\ rows[id].status = "active" /\ unit \in rows[id].refs
=============================================================================
