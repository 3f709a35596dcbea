----------------------------- MODULE Maintenance -----------------------------
(***************************************************************************)
(* Repair tickets: MaintenanceService with its two surfaces, the staff's    *)
(* and the tenant's, and the detail page of the admin web.  An update reads *)
(* the ticket, decides by what it read, and writes the columns it decided   *)
(* on, in one READ COMMITTED transaction that locks nothing before.        *)
(***************************************************************************)
EXTENDS Naturals, Sequences, FiniteSets, Functions

CONSTANTS
    Ticket,      \* ids of tickets that can be made
    Staff,       \* staff members: requests of the admin surface
    Viewer,      \* those of them whose detail page is followed
    Tenant,      \* requests of the tenant's surface
    Photo,       \* object keys of photos
    PrefixOf,    \* [Photo -> Tenant]: whose prefix the server minted the key under
    User,        \* accounts an update may name as assignee
    Colleague,   \* those of them that are of the company
    Unit,
    RentedBy,    \* [Tenant -> SUBSET Unit]: units of contracts of the tenant
    PhotoMax,    \* MAINTENANCE_PHOTO_MAX
    MaxRequests, \* bound: requests sent
    None

Client == Staff \cup Tenant

Status == {"open", "in_progress", "resolved", "closed", "cancelled"}

TicketRow == [tenant : Tenant, unit : Unit, status : Status, note : {"none", "given"}, resolvedAt : BOOLEAN,
        assignee : User \cup {None}, photos : Seq(Photo)]

MaintenanceConstants ==
    /\ Viewer \subseteq Staff /\ Staff \cap Tenant = {} /\ PrefixOf \in [Photo -> Tenant]
    /\ Colleague \subseteq User /\ RentedBy \in [Tenant -> SUBSET Unit]
    /\ PhotoMax \in Nat \ {0} /\ MaxRequests \in Nat
    /\ None \notin User /\ None \notin Unit /\ None \notin Ticket /\ None \notin TicketRow

ASSUME MaintenanceAssumption == MaintenanceConstants

VARIABLES
    tickets,   \* [Ticket -> None or a row]
    landed,    \* photos whose bytes are in the bucket
    rents,     \* [Tenant -> the unit of its active contract, None without one]
    req,       \* [Client -> its request in progress]
    page,      \* [Viewer -> the ticket as its page has it]
    sent,      \* how many requests were sent
    stale      \* history: tickets written by an update that had read an older row

vars == <<tickets, landed, rents, req, page, sent, stale>>

(* What an update may ask for; "keep" is a field that was not sent.        *)
NoChange == [status |-> "keep", note |-> "keep", assignee |-> "keep", photos |-> <<>>, cancel |-> FALSE]

NoReq == [at |-> "idle", ticket |-> None, change |-> NoChange, seen |-> None, unit |-> None, paged |-> FALSE]

NoPage == [ticket |-> None, row |-> None]

TypeOK ==
    /\ tickets \in [Ticket -> TicketRow \cup {None}]
    /\ \A t \in Ticket : tickets[t] # None => Len(tickets[t].photos) <= PhotoMax
    /\ landed \subseteq Photo /\ sent \in 0 .. MaxRequests
    /\ \A c \in Client :
          /\ req[c].at \in {"idle", "rent", "insert", "read", "write", "done", "refused"}
          /\ req[c].at = "insert" => req[c].unit \in Unit

Init ==
    /\ tickets = [t \in Ticket |-> None] /\ landed = {}
    /\ rents \in [Tenant -> Unit] /\ \A n \in Tenant : rents[n] \in RentedBy[n]
    /\ req = [c \in Client |-> NoReq]
    /\ page = [s \in Viewer |-> NoPage]
    /\ sent = 0 /\ stale = {}

There == {t \in Ticket : tickets[t] # None}

(* A photo is minted a key, then its bytes are PUT to the bucket.          *)
PutPhoto(k) ==
    /\ landed' = landed \cup {k} /\ k \notin landed
    /\ UNCHANGED <<tickets, rents, req, page, sent, stale>>

(* ContractService ends the contract of a tenant, or starts another.       *)
Move(n, unit) ==
    /\ unit \in (RentedBy[n] \cup {None}) \ {rents[n]}
    /\ rents' = [rents EXCEPT ![n] = unit]
    /\ UNCHANGED <<tickets, landed, req, page, sent, stale>>

-----------------------------------------------------------------------------
Send(c, r) ==
    /\ req[c] = NoReq /\ sent < MaxRequests
    /\ sent' = sent + 1 /\ req' = [req EXCEPT ![c] = r]
    /\ UNCHANGED <<tickets, landed, rents, page, stale>>

(* Only a page follows what its request was answered: with the row as it    *)
(* is then, or with an error.                                              *)
Answer(c, at) ==
    req' = [req EXCEPT ![c] = IF req[c].paged THEN [@ EXCEPT !.at = at] ELSE NoReq]

(* POST /me/maintenance.                                                   *)
File(n, photos) ==
    Send(n, [NoReq EXCEPT !.at = "rent", !.change = [NoChange EXCEPT !.photos = photos]])

(* Each key is under the tenant's own prefix, and its bytes have landed.    *)
PhotosLanded(n, photos) == \A k \in Range(photos) : PrefixOf[k] = n /\ k \in landed

(* createForTenant: the unit is that of the active contract, whatever unit  *)
(* the tenant sent.                                                        *)
ReadRent(n) ==
    /\ req[n].at = "rent"
    /\ IF rents[n] # None /\ PhotosLanded(n, req[n].change.photos)
       THEN req' = [req EXCEPT ![n].at = "insert", ![n].unit = rents[n]]
       ELSE Answer(n, "refused")
    /\ UNCHANGED <<tickets, landed, rents, page, sent, stale>>

Insert(n) ==
    /\ req[n].at = "insert"
    /\ \/ Answer(n, "refused") /\ UNCHANGED tickets
       \/ /\ Ticket \ There # {}
          /\ tickets' = [tickets EXCEPT ![CHOOSE t \in Ticket \ There : TRUE] =
                [tenant |-> n, unit |-> req[n].unit, status |-> "open", note |-> "none",
                 resolvedAt |-> FALSE, assignee |-> None, photos |-> req[n].change.photos]]
          /\ Answer(n, "done")
    /\ UNCHANGED <<landed, rents, page, sent, stale>>

-----------------------------------------------------------------------------
(* Updates.                                                                *)

Patch(c, t, change) ==
    /\ t \in There /\ change # NoChange
    /\ Send(c, [NoReq EXCEPT !.at = "read", !.ticket = t, !.change = change])

(* STATUS_TRANSITIONS and assertStatusTransition: to itself is accepted.    *)
Transitions ==
    [open |-> {"in_progress", "cancelled"}, in_progress |-> {"resolved", "cancelled"},
     resolved |-> {"in_progress", "closed", "cancelled"}, closed |-> {}, cancelled |-> {}]

MayMove(from, to) == from = to \/ to \in Transitions[from]

(* A mutant: the note of the row is not asked for. *)
UpdateRefusesLittle(row, change) ==
    \/ change.assignee \notin {"keep", None} \cup Colleague
    \/ change.status # "keep" /\ ~MayMove(row.status, change.status)

(* update: why it is refused, by the row it read.                          *)
UpdateRefuses(row, change) ==
    \/ change.assignee \notin {"keep", None} \cup Colleague
    \/ change.status # "keep" /\ ~MayMove(row.status, change.status)
    \/ change.status \in {"resolved", "cancelled"} /\ change.note \in {"none", "keep"}
          /\ ~(change.note = "keep" /\ row.note = "given")

(* A mutant: what is uploaded last is not looked at. *)
TenantRefusesSome(n, row, change) ==
    \/ row.tenant # n
    \/ change.cancel /\ (row.status # "open" \/ change.photos # <<>>)
    \/ /\ change.photos # <<>>
       /\ \/ row.status \notin {"open", "in_progress"}
          \/ Len(row.photos) + Len(change.photos) > PhotoMax

(* A mutant: the cap is asked of the photos that are sent. *)
TenantRefusesMany(n, row, change) ==
    \/ row.tenant # n
    \/ change.cancel /\ (row.status # "open" \/ change.photos # <<>>)
    \/ /\ change.photos # <<>>
       /\ \/ row.status \notin {"open", "in_progress"}
          \/ Len(change.photos) > PhotoMax
          \/ ~PhotosLanded(n, change.photos)

(* updateForTenant: the tenant's own ticket, cancelled only while it is     *)
(* open, edited only before it is resolved, and never both at once.        *)
TenantRefuses(n, row, change) ==
    \/ row.tenant # n
    \/ change.cancel /\ (row.status # "open" \/ change.photos # <<>>)
    \/ /\ change.photos # <<>>
       /\ \/ row.status \notin {"open", "in_progress"}
          \/ Len(row.photos) + Len(change.photos) > PhotoMax
          \/ ~PhotosLanded(n, change.photos)

ReadRow(c) ==
    LET row == tickets[req[c].ticket]
        change == req[c].change
    IN  /\ req[c].at = "read"
        /\ IF IF c \in Staff THEN UpdateRefuses(row, change) ELSE TenantRefuses(c, row, change)
           THEN Answer(c, "refused")
           ELSE req' = [req EXCEPT ![c].at = "write", ![c].seen = row]
        /\ UNCHANGED <<tickets, landed, rents, page, sent, stale>>

Or(sent_, otherwise) == IF sent_ = "keep" THEN otherwise ELSE sent_

(* A mutant: only a reopening clears the time of the repair. *)
WrittenReopening(c, row) ==
    LET change == req[c].change
        seen   == req[c].seen
        status == IF change.cancel THEN "cancelled" ELSE change.status
    IN  [row EXCEPT
            !.status = Or(status, @),
            !.note = IF change.cancel THEN "given" ELSE Or(change.note, @),
            !.resolvedAt = CASE change.status = "resolved" -> TRUE
                             [] change.status = "in_progress" /\ seen.status = "resolved" -> FALSE
                             [] OTHER -> @,
            !.assignee = Or(change.assignee, @),
            !.photos = IF change.photos = <<>> THEN @ ELSE seen.photos \o change.photos]

(* A mutant: photos replace the ones before. *)
WrittenReplacing(c, row) ==
    LET change == req[c].change
        seen   == req[c].seen
        status == IF change.cancel THEN "cancelled" ELSE change.status
    IN  [row EXCEPT !.status = Or(status, @), !.note = IF change.cancel THEN "given" ELSE Or(change.note, @),
                    !.photos = IF change.photos = <<>> THEN @ ELSE change.photos]

(* The columns that are written, over the row as it is now: what they hold  *)
(* was decided by the row that was read.                                   *)
Written(c, row) ==
    LET change == req[c].change
        seen   == req[c].seen
        status == IF change.cancel THEN "cancelled" ELSE change.status
    IN  [row EXCEPT
            !.status = Or(status, @),
            !.note = IF change.cancel THEN "given" ELSE Or(change.note, @),
            !.resolvedAt = CASE change.status = "resolved" -> TRUE
                             [] change.status # "keep" /\ change.status # "resolved"
                                /\ seen.status = "resolved" -> FALSE
                             [] OTHER -> @,
            !.assignee = Or(change.assignee, @),
            !.photos = IF change.photos = <<>> THEN @ ELSE seen.photos \o change.photos]

(* The answer has the row as it is written.                                *)
AnswerWritten(c) ==
    req' = [req EXCEPT ![c] = IF req[c].paged
                              THEN [@ EXCEPT !.at = "done", !.seen = Written(c, tickets[req[c].ticket])]
                              ELSE NoReq]

Write(c) ==
    LET t == req[c].ticket
    IN  /\ req[c].at = "write"
        /\ tickets' = [tickets EXCEPT ![t] = Written(c, @)]
        /\ stale' = IF tickets[t] # req[c].seen THEN stale \cup {t} ELSE stale
        /\ AnswerWritten(c)
        /\ UNCHANGED <<landed, rents, page, sent>>

(* The audit INSERT after it fails: it is answered, and COMMIT keeps        *)
(* nothing, so a page may show a row that never was.                       *)
WriteAborted(c) ==
    /\ req[c].at = "write" /\ AnswerWritten(c)
    /\ UNCHANGED <<tickets, landed, rents, page, sent, stale>>

(* The transaction fails, or is given up.                                  *)
Fail(c) ==
    /\ req[c].at = "write" /\ Answer(c, "refused")
    /\ UNCHANGED <<tickets, landed, rents, page, sent, stale>>

-----------------------------------------------------------------------------
(* The detail page, whose copy of the ticket is replaced only by answers.   *)

Open(s, t) ==
    /\ req[s] = NoReq /\ t \in There
    /\ page' = [page EXCEPT ![s] = [ticket |-> t, row |-> tickets[t]]]
    /\ UNCHANGED <<tickets, landed, rents, req, sent, stale>>

(* TRANSITIONS_FROM of the page.                                           *)
Offered ==
    [open |-> {"in_progress", "cancelled"}, in_progress |-> {"resolved", "cancelled"},
     resolved |-> {"in_progress", "closed", "cancelled"}, closed |-> {}, cancelled |-> {}]

(* The note in the box is sent along with every new status.                *)
Click(s, status, note) ==
    /\ page[s].ticket # None /\ status \in Offered[page[s].row.status]
    /\ Send(s, [NoReq EXCEPT !.at = "read", !.ticket = page[s].ticket, !.paged = TRUE,
                             !.change = [NoChange EXCEPT !.status = status, !.note = note]])

Tell(c) ==
    /\ req[c].at \in {"done", "refused"}
    /\ req' = [req EXCEPT ![c] = NoReq]
    /\ page' = IF req[c].at = "refused" THEN page
               ELSE [page EXCEPT ![c].row = req[c].seen]
    /\ UNCHANGED <<tickets, landed, rents, sent, stale>>

-----------------------------------------------------------------------------
Next ==
    \/ \E k \in Photo : PutPhoto(k)
    \/ \E n \in Tenant :
          \/ \E unit \in Unit \cup {None} : Move(n, unit)
          \/ ReadRent(n) \/ Insert(n)
          \/ \E photos \in {<<>>} \cup {<<k>> : k \in Photo} :
                \/ File(n, photos)
                \/ \E t \in Ticket, cancel \in BOOLEAN :
                      Patch(n, t, [NoChange EXCEPT !.photos = photos, !.cancel = cancel])
    \/ \E s \in Staff \ Viewer, t \in Ticket :
          \/ \E status \in Status \cup {"keep"}, note \in {"none", "given", "keep"} :
                Patch(s, t, [NoChange EXCEPT !.status = status, !.note = note])
          \/ \E assignee \in User \cup {None} : Patch(s, t, [NoChange EXCEPT !.assignee = assignee])
    \/ \E s \in Viewer :
          \/ \E t \in Ticket : Open(s, t)
          \/ \E status \in Status, note \in {"none", "given"} : Click(s, status, note)
          \/ Tell(s)
    \/ \E c \in Client : ReadRow(c) \/ Write(c) \/ WriteAborted(c) \/ Fail(c)

Spec == Init /\ [][Next]_vars

-----------------------------------------------------------------------------
(* A ticket has a time of repair just while it is resolved, after any       *)
(* sequence of repairs, reopenings and closings; only an update that had    *)
(* read an older row can leave the two apart.                              *)
RepairTimeTells ==
    \A t \in There \ stale : tickets[t].resolvedAt <=> tickets[t].status = "resolved"

(* What a ticket names is its own: a colleague as assignee, a unit of the   *)
(* tenant, and photos, few enough, that are in the bucket under the         *)
(* tenant's prefix: checked when a ticket is filed and when photos are added. *)
NamesItsOwn ==
    \A t \in There :
        /\ tickets[t].assignee \in Colleague \cup {None}
        /\ tickets[t].unit \in RentedBy[tickets[t].tenant]
        /\ Len(tickets[t].photos) <= PhotoMax
        /\ \A k \in Range(tickets[t].photos) : k \in landed /\ PrefixOf[k] = tickets[t].tenant

(* Both, whatever the two surfaces do to one ticket.                       *)
TicketsAreSound == RepairTimeTells /\ NamesItsOwn

(* An update that had read the ticket as it is neither moves a closed or    *)
(* cancelled ticket nor takes a photo from one, and gives a reason the      *)
(* tenant can read for what it resolves or cancels.                        *)
FinalAndKept ==
    [][\A t \in There : t \notin stale' =>
          /\ tickets[t].status \in {"closed", "cancelled"} => tickets'[t].status = tickets[t].status
          /\ Range(tickets[t].photos) \subseteq Range(tickets'[t].photos)
          /\ tickets'[t].status # tickets[t].status /\ tickets'[t].status \in {"resolved", "cancelled"}
             => tickets'[t].note = "given"]_vars
=============================================================================
