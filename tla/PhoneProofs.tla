---------------------------- MODULE PhoneProofs -----------------------------
(***************************************************************************)
(* What holds of the two things a tenant does from the phone, for any number *)
(* of tabs, uploads, clients and tickets: asking for a repair, with the    *)
(* updates of the staff beside (Maintenance), and, apart from it and under *)
(* its own assumption, paying a bill with a slip (PayFlow).                *)
(***************************************************************************)
EXTENDS Maintenance, PayFlow, TLAPS, FiniteSetTheorems, SequenceTheorems

-----------------------------------------------------------------------------
(***************************************************************************)
(* Repair tickets.  An update decides by the row it read: what it may      *)
(* write whoever wrote the ticket since is what the row cannot lose, its    *)
(* tenant and what it names; the rest holds when the row is still the one.  *)
(***************************************************************************)
Changes == [status : Status \cup {"keep"}, note : {"none", "given", "keep"},
            assignee : User \cup {None, "keep"}, photos : Seq(Photo), cancel : BOOLEAN]

Asked == [at : {"idle", "rent", "insert", "read", "write", "done", "refused"},
          ticket : Ticket \cup {None}, change : Changes, seen : TicketRow \cup {None},
          unit : Unit \cup {None}, paged : BOOLEAN]

(* What a row names is its own.                                            *)
OwnPhotos(photos, n) == \A i \in 1 .. Len(photos) : photos[i] \in landed /\ PrefixOf[photos[i]] = n

RowNames(row) ==
    /\ row.assignee \in Colleague \cup {None}
    /\ row.unit \in RentedBy[row.tenant]
    /\ Len(row.photos) <= PhotoMax
    /\ OwnPhotos(row.photos, row.tenant)

(* What a request still asks, by the surface it was sent to.               *)
StaffAsks(change) == change.photos = <<>> /\ ~change.cancel

TenantAsks(change) ==
    change.status = "keep" /\ change.note = "keep" /\ change.assignee = "keep" /\ Len(change.photos) <= 1

RequestOK(c) ==
    /\ IF c \in Staff THEN StaffAsks(req[c].change) ELSE TenantAsks(req[c].change)
    /\ req[c].at \in {"rent", "insert"} => c \in Tenant
    /\ req[c].at = "insert" =>
          req[c].unit \in RentedBy[c] /\ OwnPhotos(req[c].change.photos, c)
    /\ req[c].at \in {"read", "write"} => req[c].ticket \in There
    /\ req[c].at = "write" =>
          /\ req[c].seen \in TicketRow /\ RowNames(req[c].seen)
          /\ req[c].seen.tenant = tickets[req[c].ticket].tenant
          /\ IF c \in Staff THEN ~UpdateRefuses(req[c].seen, req[c].change)
             ELSE ~TenantRefuses(c, req[c].seen, req[c].change)

RepairsInv ==
    /\ tickets \in [Ticket -> TicketRow \cup {None}] /\ landed \subseteq Photo /\ sent \in 0 .. MaxRequests
    /\ rents \in [Tenant -> Unit \cup {None}]
    /\ \A n \in Tenant : rents[n] \in RentedBy[n] \cup {None}
    /\ req \in [Client -> Asked]
    /\ page \in [Viewer -> [ticket : Ticket \cup {None}, row : TicketRow \cup {None}]]
    /\ \A s \in Viewer : page[s].ticket # None => page[s].ticket \in There
    /\ \A t \in There : RowNames(tickets[t])
    /\ \A c \in Client : RequestOK(c)
    /\ RepairTimeTells

LEMMA RepairsInit == ASSUME MaintenanceConstants, Init PROVE RepairsInv
<1>1. NoReq \in Asked
  BY DEF NoReq, NoChange, Asked, Changes
<1>2. \A c \in Client : RequestOK(c)
  BY <1>1 DEF Init, RequestOK, NoReq, NoChange, StaffAsks, TenantAsks, Client
<1>3. There = {}
  BY DEF There, Init
<1>4. req \in [Client -> Asked]
  BY <1>1 DEF Init
<1>5. page \in [Viewer -> [ticket : Ticket \cup {None}, row : TicketRow \cup {None}]]
      /\ \A s \in Viewer : page[s].ticket = None
  BY DEF Init, NoPage
<1>6. rents \in [Tenant -> Unit \cup {None}] /\ \A n \in Tenant : rents[n] \in RentedBy[n] \cup {None}
  BY DEF Init
<1> QED BY <1>2, <1>3, <1>4, <1>5, <1>6
        DEF Init, MaintenanceConstants, RepairsInv, RepairTimeTells

-----------------------------------------------------------------------------
LEMMA LandedIsOwn ==
    ASSUME NEW photos \in Seq(Photo), NEW n
    PROVE  PhotosLanded(n, photos) <=> OwnPhotos(photos, n)
BY DEF PhotosLanded, OwnPhotos, Range

(* A request keeps what it relies on, whatever the others do.              *)
LEMMA OtherRequests ==
    ASSUME RepairsInv, landed \subseteq landed',
           \A t \in There : tickets'[t] # None /\ tickets'[t].tenant = tickets[t].tenant,
           NEW c \in Client, req'[c] = req[c]
    PROVE  RequestOK(c)'
<1>1. RequestOK(c) /\ req[c] \in Asked
  BY DEF RepairsInv
<1>2. \A photos, n : OwnPhotos(photos, n) => OwnPhotos(photos, n)'
  BY DEF OwnPhotos
<1>3. \A row : RowNames(row) => RowNames(row)'
  BY <1>2 DEF RowNames
<1>4. \A n, row : TenantRefuses(n, row, req[c].change)' => TenantRefuses(n, row, req[c].change)
  BY DEF TenantRefuses, PhotosLanded
<1>5. \A t \in There : t \in There'
  BY DEF There
<1>6. \A row, change : UpdateRefuses(row, change)' <=> UpdateRefuses(row, change)
  BY DEF UpdateRefuses
<1> QED BY <1>1, <1>2, <1>3, <1>4, <1>5, <1>6 DEF RequestOK, StaffAsks, TenantAsks

(* A step that writes no ticket.                                           *)
LEMMA NoTicketWritten ==
    ASSUME RepairsInv, tickets' = tickets, stale' = stale,
           landed \subseteq landed', landed' \subseteq Photo, sent' \in 0 .. MaxRequests,
           rents' \in [Tenant -> Unit \cup {None}],
           \A n \in Tenant : rents'[n] \in RentedBy[n] \cup {None},
           req' \in [Client -> Asked],
           \A c \in Client : req'[c] # req[c] => RequestOK(c)',
           page' \in [Viewer -> [ticket : Ticket \cup {None}, row : TicketRow \cup {None}]],
           \A s \in Viewer : page'[s].ticket # None => page'[s].ticket \in There
    PROVE  RepairsInv'
<1>1. There' = There
  BY DEF There
<1>2. \A t \in There' : RowNames(tickets[t])'
  BY <1>1 DEF RepairsInv, RowNames, OwnPhotos
<1>3. \A c \in Client : RequestOK(c)'
  BY OtherRequests DEF There
<1>4. RepairTimeTells'
  BY <1>1 DEF RepairsInv, RepairTimeTells
<1> QED BY <1>1, <1>2, <1>3, <1>4 DEF RepairsInv, Client

LEMMA RepairsPutPhoto ==
    ASSUME RepairsInv, NEW k \in Photo, PutPhoto(k)
    PROVE  RepairsInv'
BY NoTicketWritten DEF RepairsInv, PutPhoto

LEMMA RepairsMove ==
    ASSUME RepairsInv, MaintenanceConstants, NEW n \in Tenant, NEW unit, Move(n, unit)
    PROVE  RepairsInv'
<1>1. /\ rents' \in [Tenant -> Unit \cup {None}]
      /\ \A m \in Tenant : rents'[m] \in RentedBy[m] \cup {None}
  BY DEF RepairsInv, Move, MaintenanceConstants
<1> QED BY <1>1, NoTicketWritten DEF RepairsInv, Move

(* Sending a request of the right surface.                                 *)
LEMMA RepairsSend ==
    ASSUME RepairsInv, MaintenanceConstants, NEW c \in Client,
           NEW r \in Asked, Send(c, r),
           (r.at = "rent" /\ c \in Tenant) \/ (r.at = "read" /\ r.ticket \in There),
           IF c \in Staff THEN StaffAsks(r.change) ELSE TenantAsks(r.change)
    PROVE  RepairsInv'
<1>1. /\ sent' = sent + 1 /\ sent' \in 0 .. MaxRequests
      /\ req' = [req EXCEPT ![c] = r]
      /\ UNCHANGED <<tickets, landed, rents, page, stale>>
  BY DEF Send, RepairsInv, MaintenanceConstants
<1>2. req' \in [Client -> Asked] /\ req'[c] = r
      /\ \A d \in Client : req'[d] # req[d] => d = c
  BY <1>1 DEF RepairsInv
<1>3. RequestOK(c)'
  BY <1>1, <1>2 DEF RequestOK, StaffAsks, TenantAsks, There
<1> QED BY <1>1, <1>2, <1>3, NoTicketWritten DEF RepairsInv

(* An answer, which a page follows and other clients do not.               *)
LEMMA AnswerTyped ==
    ASSUME RepairsInv, NEW c \in Client, NEW at \in {"done", "refused"},
           Answer(c, at)
    PROVE  /\ req' \in [Client -> Asked]
           /\ \A d \in Client : req'[d] # req[d] => d = c
           /\ req'[c].at \in {"idle", "done", "refused"}
           /\ RequestOK(c)'
<1>1. NoReq \in Asked
  BY DEF NoReq, NoChange, Asked, Changes
<1>2. req[c] \in Asked /\ RequestOK(c)
  BY DEF RepairsInv
<1>3. req' = [req EXCEPT ![c] = IF req[c].paged THEN [req[c] EXCEPT !.at = at] ELSE NoReq]
  BY DEF Answer
<1>4. CASE req[c].paged
  <2>1. req'[c] = [req[c] EXCEPT !.at = at] /\ req'[c] \in Asked
    BY <1>2, <1>3, <1>4 DEF RepairsInv, Asked
  <2>2. req'[c].at = at /\ req'[c].change = req[c].change
    BY <2>1, <1>2 DEF Asked
  <2>3. RequestOK(c)'
    BY <1>2, <2>2 DEF RequestOK, StaffAsks, TenantAsks
  <2> QED BY <1>2, <1>3, <2>1, <2>2, <2>3 DEF RepairsInv
<1>5. CASE ~req[c].paged
  <2>1. req'[c] = NoReq
    BY <1>3, <1>5 DEF RepairsInv
  <2>2. RequestOK(c)'
    BY <2>1 DEF RequestOK, StaffAsks, TenantAsks, NoReq, NoChange
  <2> QED BY <1>1, <1>3, <1>5, <2>1, <2>2 DEF RepairsInv, NoReq
<1> QED BY <1>4, <1>5

LEMMA RepairsReadRent ==
    ASSUME RepairsInv, MaintenanceConstants, NEW n \in Tenant, ReadRent(n)
    PROVE  RepairsInv'
<1>1. n \in Client /\ req[n].at = "rent" /\ req[n] \in Asked /\ RequestOK(n)
      /\ UNCHANGED <<tickets, landed, rents, page, sent, stale>>
  BY DEF Client, RepairsInv, ReadRent
<1>2. CASE Answer(n, "refused")
  BY <1>1, <1>2, AnswerTyped, NoTicketWritten DEF RepairsInv
<1>3. CASE rents[n] # None /\ PhotosLanded(n, req[n].change.photos)
           /\ req' = [req EXCEPT ![n].at = "insert", ![n].unit = rents[n]]
  <2>1. req'[n] = [req[n] EXCEPT !.at = "insert", !.unit = rents[n]]
        /\ \A d \in Client : d # n => req'[d] = req[d]
    BY <1>1, <1>3 DEF RepairsInv
  <2>2. rents[n] \in RentedBy[n] /\ rents[n] \in Unit \cup {None}
    BY <1>3 DEF RepairsInv
  <2>3. req'[n] \in Asked /\ req'[n].at = "insert" /\ req'[n].unit = rents[n] /\ req'[n].change = req[n].change
    BY <1>1, <2>1, <2>2 DEF Asked
  <2>4. OwnPhotos(req[n].change.photos, n)
    BY <1>1, <1>3, LandedIsOwn DEF Asked, Changes
  <2>5. RequestOK(n)'
    BY <1>1, <2>2, <2>3, <2>4 DEF RequestOK, StaffAsks, TenantAsks, OwnPhotos
  <2>6. req' \in [Client -> Asked]
    BY <1>1, <1>3, <2>1, <2>3 DEF RepairsInv
  <2> QED BY <1>1, <2>1, <2>5, <2>6, NoTicketWritten DEF RepairsInv
<1> QED BY <1>2, <1>3 DEF ReadRent

LEMMA RepairsFail ==
    ASSUME RepairsInv, NEW c \in Client, Fail(c)
    PROVE  RepairsInv'
BY AnswerTyped, NoTicketWritten DEF RepairsInv, Fail

LEMMA RepairsInsert ==
    ASSUME RepairsInv, MaintenanceConstants, NEW n \in Tenant, Insert(n)
    PROVE  RepairsInv' /\ (\A t \in There : tickets'[t] = tickets[t])
<1>1. n \in Client /\ n \notin Staff /\ req[n].at = "insert" /\ req[n] \in Asked /\ RequestOK(n)
      /\ UNCHANGED <<landed, rents, page, sent, stale>>
  BY DEF Client, RepairsInv, Insert, MaintenanceConstants
<1>2. CASE Answer(n, "refused") /\ UNCHANGED tickets
  BY <1>1, <1>2, AnswerTyped, NoTicketWritten DEF RepairsInv
<1>3. ASSUME NEW t \in Ticket \ There, NEW row,
             row = [tenant |-> n, unit |-> req[n].unit, status |-> "open", note |-> "none",
                    resolvedAt |-> FALSE, assignee |-> None, photos |-> req[n].change.photos],
             tickets' = [tickets EXCEPT ![t] = row],
             Answer(n, "done")
      PROVE  RepairsInv' /\ (\A u \in There : tickets'[u] = tickets[u])
  <2>1. t \in Ticket /\ t \notin There
    BY <1>3
  <2>2. req[n].unit \in RentedBy[n] /\ RentedBy[n] \subseteq Unit
        /\ req[n].change.photos \in Seq(Photo) /\ Len(req[n].change.photos) <= 1
        /\ OwnPhotos(req[n].change.photos, n)
    BY <1>1 DEF Asked, Changes, RequestOK, TenantAsks, MaintenanceConstants
  <2>3. row \in TicketRow /\ row # None
    <3>1. row \in TicketRow
      BY <1>3, <2>2 DEF TicketRow, Status
    <3> QED BY <3>1 DEF MaintenanceConstants
  <2>4. /\ row.assignee \in Colleague \cup {None} /\ row.unit \in RentedBy[row.tenant]
        /\ Len(row.photos) <= PhotoMax /\ OwnPhotos(row.photos, row.tenant)
        /\ row.status = "open" /\ row.resolvedAt = FALSE
    BY <1>3, <2>2 DEF MaintenanceConstants
  <2>5. /\ tickets' \in [Ticket -> TicketRow \cup {None}]
        /\ tickets'[t] = row /\ \A u \in Ticket \ {t} : tickets'[u] = tickets[u]
    BY <1>3, <2>1, <2>3 DEF RepairsInv
  <2>6. There' = There \cup {t}
    BY <2>1, <2>3, <2>5 DEF There
  <2>7. \A u \in There : tickets'[u] = tickets[u] /\ tickets'[u] # None
    BY <2>1, <2>5 DEF There
  <2>8. /\ req' \in [Client -> Asked] /\ RequestOK(n)'
        /\ \A d \in Client : req'[d] # req[d] => d = n
    <3>1. /\ req' \in [Client -> Asked] /\ req'[n].at \in {"idle", "done", "refused"}
          /\ \A d \in Client : req'[d] # req[d] => d = n
          /\ RequestOK(n)'
      BY <1>1, <1>3, AnswerTyped
    <3> QED BY <3>1
  <2>9. \A c \in Client : RequestOK(c)'
    BY <1>1, <2>7, <2>8, OtherRequests
  <2>10. \A u \in There' : RowNames(tickets[u])'
    <3>1. \A u \in There : RowNames(tickets[u])'
      BY <1>1, <2>7 DEF RepairsInv, RowNames, OwnPhotos
    <3>2. RowNames(tickets[t])'
      BY <1>1, <2>4, <2>5 DEF RowNames, OwnPhotos
    <3> QED BY <2>6, <3>1, <3>2
  <2>11. RepairTimeTells'
    BY <1>1, <2>4, <2>5, <2>6, <2>7 DEF RepairsInv, RepairTimeTells
  <2>12. \A s \in Viewer : page'[s].ticket # None => page'[s].ticket \in There'
    BY <1>1, <2>6 DEF RepairsInv
  <2>13. RepairsInv'
    BY <1>1, <2>5, <2>8, <2>9, <2>10, <2>11, <2>12 DEF RepairsInv, Client
  <2> QED BY <2>7, <2>13
<1>4. CASE /\ Ticket \ There # {}
           /\ tickets' = [tickets EXCEPT ![CHOOSE t \in Ticket \ There : TRUE] =
                [tenant |-> n, unit |-> req[n].unit, status |-> "open", note |-> "none",
                 resolvedAt |-> FALSE, assignee |-> None, photos |-> req[n].change.photos]]
           /\ Answer(n, "done")
  <2>1. (CHOOSE t \in Ticket \ There : TRUE) \in Ticket \ There
    BY <1>4
  <2> QED BY <1>3, <1>4, <2>1
<1>5. CASE Answer(n, "refused") /\ UNCHANGED tickets
  BY <1>2, <1>5
<1> QED BY <1>4, <1>5 DEF Insert

LEMMA RepairsReadRow ==
    ASSUME RepairsInv, NEW c \in Client, ReadRow(c)
    PROVE  RepairsInv'
<1>0. PICK row : row = tickets[req[c].ticket]
  OBVIOUS
<1>1. /\ req[c].at = "read" /\ req[c] \in Asked /\ RequestOK(c)
      /\ UNCHANGED <<tickets, landed, rents, page, sent, stale>>
      /\ req[c].ticket \in There
  BY DEF RepairsInv, ReadRow, RequestOK
<1>2. row \in TicketRow /\ RowNames(row)
  BY <1>0, <1>1 DEF RepairsInv, There
<1>3. CASE Answer(c, "refused")
  BY <1>1, <1>3, AnswerTyped, NoTicketWritten DEF RepairsInv
<1>4. CASE /\ ~(IF c \in Staff THEN UpdateRefuses(row, req[c].change)
                ELSE TenantRefuses(c, row, req[c].change))
           /\ req' = [req EXCEPT ![c].at = "write", ![c].seen = row]
  <2>1. req'[c] = [req[c] EXCEPT !.at = "write", !.seen = row]
        /\ \A d \in Client : d # c => req'[d] = req[d]
    BY <1>1, <1>4 DEF RepairsInv
  <2>2. /\ req'[c] \in Asked /\ req'[c].at = "write" /\ req'[c].seen = row
        /\ req'[c].change = req[c].change /\ req'[c].ticket = req[c].ticket
    BY <1>1, <1>2, <2>1 DEF Asked
  <2>3. RequestOK(c)'
    <3>1. /\ There' = There /\ RowNames(row)'
          /\ TenantRefuses(c, row, req[c].change)' <=> TenantRefuses(c, row, req[c].change)
      BY <1>1, <1>2, <2>2 DEF There, RowNames, OwnPhotos, TenantRefuses, PhotosLanded
    <3>2. row = tickets'[req'[c].ticket]
      BY <1>0, <1>1, <2>2
    <3> QED BY <1>1, <1>2, <1>4, <2>2, <3>1, <3>2
            DEF RequestOK, StaffAsks, TenantAsks, UpdateRefuses
  <2>4. req' \in [Client -> Asked]
    BY <1>1, <1>4, <2>1, <2>2 DEF RepairsInv
  <2> QED BY <1>1, <2>1, <2>3, <2>4, NoTicketWritten DEF RepairsInv
<1> QED BY <1>0, <1>3, <1>4 DEF ReadRow

(* What an update does to a row that is the one it had read.               *)
Keeps(old, new) ==
    /\ old.status \in {"closed", "cancelled"} => new.status = old.status
    /\ Range(old.photos) \subseteq Range(new.photos)
    /\ new.status # old.status /\ new.status \in {"resolved", "cancelled"} => new.note = "given"

TimeTells(row) == row.resolvedAt <=> row.status = "resolved"

(* What a write leaves of the row that was read and of the row it meets.   *)
LEMMA WrittenRow ==
    ASSUME RepairsInv, MaintenanceConstants, NEW c \in Client, req[c].at = "write",
           NEW row, row = tickets[req[c].ticket], NEW new, new = Written(c, row)
    PROVE  /\ row \in TicketRow /\ new \in TicketRow /\ new.tenant = row.tenant /\ RowNames(new)
           /\ row = req[c].seen => Keeps(row, new) /\ (TimeTells(row) => TimeTells(new))
<1>1. PICK change, seen : change = req[c].change /\ seen = req[c].seen
  OBVIOUS
<1>2. /\ req[c] \in Asked /\ RequestOK(c) /\ req[c].ticket \in There
      /\ change \in Changes /\ seen \in TicketRow /\ RowNames(seen) /\ seen.tenant = row.tenant
  BY <1>1 DEF RepairsInv, Asked, RequestOK
<1>3. row \in TicketRow /\ RowNames(row)
  BY <1>2 DEF RepairsInv, There
<1>4. /\ c \in Staff => StaffAsks(change) /\ ~UpdateRefuses(seen, change)
      /\ c \notin Staff => TenantAsks(change) /\ ~TenantRefuses(c, seen, change)
  BY <1>1, <1>2 DEF RequestOK
<1>5. PICK status : status = IF change.cancel THEN "cancelled" ELSE change.status
  OBVIOUS
<1>6. PICK resolvedAt :
        resolvedAt = CASE change.status = "resolved" -> TRUE
                       [] change.status # "keep" /\ change.status # "resolved"
                          /\ seen.status = "resolved" -> FALSE
                       [] OTHER -> row.resolvedAt
  OBVIOUS
<1>7. PICK photos : photos = IF change.photos = <<>> THEN row.photos ELSE seen.photos \o change.photos
  OBVIOUS
<1>8. new = [row EXCEPT
               !.status = IF status = "keep" THEN row.status ELSE status,
               !.note = IF change.cancel THEN "given"
                        ELSE IF change.note = "keep" THEN row.note ELSE change.note,
               !.resolvedAt = resolvedAt,
               !.assignee = IF change.assignee = "keep" THEN row.assignee ELSE change.assignee,
               !.photos = photos]
  BY <1>1, <1>3, <1>5, <1>6, <1>7 DEF Written, Or, TicketRow
<1>9. /\ status \in Status \cup {"keep"} /\ change.note \in {"none", "given", "keep"}
      /\ change.assignee \in User \cup {None, "keep"} /\ change.photos \in Seq(Photo) /\ change.cancel \in BOOLEAN
  BY <1>2, <1>5 DEF Changes, Status
<1>10. resolvedAt \in BOOLEAN
  BY <1>3, <1>6 DEF TicketRow
<1>11. change.assignee \in {"keep", None} \cup Colleague
  BY <1>4 DEF UpdateRefuses, TenantAsks
<1>12. /\ photos \in Seq(Photo) /\ Len(photos) <= PhotoMax
       /\ OwnPhotos(photos, row.tenant)
       /\ seen = row => Range(row.photos) \subseteq Range(photos)
  <2>1. CASE change.photos = <<>>
    BY <1>3, <1>7, <2>1 DEF TicketRow, RowNames
  <2>2. CASE change.photos # <<>>
    <3>1. c \notin Staff
      BY <1>4, <2>2 DEF StaffAsks
    <3>2. /\ seen.tenant = c /\ Len(seen.photos) + Len(change.photos) <= PhotoMax
          /\ PhotosLanded(c, change.photos)
          /\ seen.photos \in Seq(Photo) /\ OwnPhotos(seen.photos, seen.tenant)
      BY <1>2, <1>4, <1>9, <2>2, <3>1 DEF TenantRefuses, TicketRow, RowNames, MaintenanceConstants
    <3>3. OwnPhotos(change.photos, c)
      BY <1>9, <3>2, LandedIsOwn
    <3>4. PICK m \in Nat, k \in Nat : m = Len(seen.photos) /\ k = Len(change.photos)
      BY <1>9, <3>2, LenProperties
    <3>5. photos \in Seq(Photo) /\ Len(photos) = m + k
      BY <1>7, <1>9, <2>2, <3>2, <3>4, ConcatProperties
    <3>6. \A i \in 1 .. m + k : photos[i] = IF i <= m THEN seen.photos[i] ELSE change.photos[i - m]
      BY <1>7, <1>9, <2>2, <3>2, <3>4, ConcatProperties
    <3>7. \A i \in 1 .. m : photos[i] = seen.photos[i] /\ i \in 1 .. m + k
      BY ONLY <3>6
    <3>8. \A i \in 1 .. m + k : i > m => photos[i] = change.photos[i - m] /\ i - m \in 1 .. k
      BY ONLY <3>6
    <3>9. OwnPhotos(photos, row.tenant)
      <4> SUFFICES ASSUME NEW i \in 1 .. m + k
                   PROVE  photos[i] \in landed /\ PrefixOf[photos[i]] = c
        BY <1>2, <3>2, <3>5 DEF OwnPhotos
      <4>1. CASE i <= m
        <5>1. i \in 1 .. m
          BY <4>1
        <5> QED BY <3>2, <3>4, <3>7, <5>1 DEF OwnPhotos
      <4>2. CASE i > m
        BY <3>3, <3>4, <3>8, <4>2 DEF OwnPhotos
      <4> QED BY <4>1, <4>2
    <3>10. Range(seen.photos) \subseteq Range(photos)
      <4>1. DOMAIN seen.photos = 1 .. m /\ DOMAIN photos = 1 .. m + k
        BY <3>2, <3>4, <3>5
      <4> QED BY <3>7, <4>1 DEF Range
    <3> QED BY <3>2, <3>4, <3>5, <3>9, <3>10
  <2> QED BY <2>1, <2>2
<1>13. /\ new.tenant = row.tenant /\ new.unit = row.unit /\ new.resolvedAt = resolvedAt /\ new.photos = photos
       /\ new.status = IF status = "keep" THEN row.status ELSE status
       /\ new.note = IF change.cancel THEN "given" ELSE IF change.note = "keep" THEN row.note ELSE change.note
       /\ new.assignee = IF change.assignee = "keep" THEN row.assignee ELSE change.assignee
  BY <1>3, <1>8 DEF TicketRow
<1>14. new \in TicketRow
  BY <1>3, <1>8, <1>9, <1>10, <1>12 DEF TicketRow, Status
<1>15. RowNames(new)
  BY <1>3, <1>11, <1>12, <1>13 DEF RowNames
<1>16. ASSUME row = seen
       PROVE  /\ row.status \in {"closed", "cancelled"} => new.status = row.status
              /\ new.status # row.status /\ new.status \in {"resolved", "cancelled"} => new.note = "given"
              /\ (row.resolvedAt <=> row.status = "resolved") => (new.resolvedAt <=> new.status = "resolved")
  <2>1. row.status \in Status /\ row.note \in {"none", "given"} /\ row.resolvedAt \in BOOLEAN
    BY <1>3 DEF TicketRow
  <2>2. CASE c \in Staff
    <3>1. ~change.cancel /\ status = change.status /\ ~UpdateRefuses(row, change)
      BY <1>4, <1>5, <1>16, <2>2 DEF StaffAsks
    <3>2. row.status \in {"closed", "cancelled"} => new.status = row.status
      BY <1>13, <2>1, <3>1 DEF UpdateRefuses, MayMove, Transitions
    <3>3. new.status # row.status /\ new.status \in {"resolved", "cancelled"} => new.note = "given"
      BY <1>9, <1>13, <2>1, <3>1 DEF UpdateRefuses
    <3>4. (row.resolvedAt <=> row.status = "resolved") => (new.resolvedAt <=> new.status = "resolved")
      BY <1>6, <1>13, <1>16, <2>1, <3>1 DEF Status
    <3> QED BY <3>2, <3>3, <3>4
  <2>3. CASE c \notin Staff
    <3>1. /\ change.status = "keep" /\ change.cancel => row.status = "open"
          /\ status = IF change.cancel THEN "cancelled" ELSE "keep"
      BY <1>4, <1>5, <1>16, <2>3 DEF TenantAsks, TenantRefuses
    <3>2. resolvedAt = row.resolvedAt
      BY <1>4, <1>6, <2>3 DEF TenantAsks
    <3> QED BY <1>4, <1>13, <2>1, <2>3, <3>1, <3>2 DEF TenantAsks, TenantRefuses
  <2> QED BY <2>2, <2>3
<1> QED BY <1>1, <1>3, <1>12, <1>13, <1>14, <1>15, <1>16 DEF Keeps, TimeTells

(* A write is answered with a row of the table.                            *)
LEMMA AnswersWritten ==
    ASSUME RepairsInv, NEW c \in Client, req[c].at = "write", AnswerWritten(c),
           Written(c, tickets[req[c].ticket]) \in TicketRow
    PROVE  /\ req' \in [Client -> Asked] /\ RequestOK(c)'
           /\ \A d \in Client : req'[d] # req[d] => d = c
<1>1. PICK new \in TicketRow : new = Written(c, tickets[req[c].ticket])
  OBVIOUS
<1>2. req' = [req EXCEPT ![c] = IF req[c].paged THEN [req[c] EXCEPT !.at = "done", !.seen = new] ELSE NoReq]
  BY <1>1 DEF AnswerWritten
<1>3. req[c] \in Asked /\ RequestOK(c)
  BY DEF RepairsInv
<1>4. \A d \in Client : req'[d] # req[d] => d = c
  BY <1>2 DEF RepairsInv
<1>5. CASE req[c].paged
  <2>1. req'[c] = [req[c] EXCEPT !.at = "done", !.seen = new]
    BY <1>2, <1>5 DEF RepairsInv
  <2>2. req'[c] \in Asked /\ req'[c].at = "done" /\ req'[c].change = req[c].change
    BY <1>3, <2>1 DEF Asked
  <2>3. req' \in [Client -> Asked]
    BY <1>2, <1>4, <2>2 DEF RepairsInv
  <2> QED BY <1>3, <1>4, <2>2, <2>3 DEF RequestOK, StaffAsks, TenantAsks
<1>6. CASE ~req[c].paged
  <2>1. req'[c] = NoReq /\ NoReq \in Asked
    BY <1>2, <1>6 DEF RepairsInv, NoReq, NoChange, Asked, Changes
  <2>2. req' \in [Client -> Asked]
    BY <1>2, <1>4, <2>1 DEF RepairsInv
  <2> QED BY <1>4, <2>1, <2>2 DEF RequestOK, StaffAsks, TenantAsks, NoReq, NoChange
<1> QED BY <1>5, <1>6

LEMMA RepairsAborted ==
    ASSUME RepairsInv, MaintenanceConstants, NEW c \in Client, WriteAborted(c)
    PROVE  RepairsInv'
<1>1. Written(c, tickets[req[c].ticket]) \in TicketRow
  <2>1. PICK row, new : row = tickets[req[c].ticket] /\ new = Written(c, row)
    OBVIOUS
  <2>2. new \in TicketRow
    BY <2>1, WrittenRow DEF WriteAborted
  <2> QED BY <2>1, <2>2
<1>2. /\ req' \in [Client -> Asked] /\ RequestOK(c)'
      /\ \A d \in Client : req'[d] # req[d] => d = c
  BY <1>1, AnswersWritten DEF WriteAborted
<1> QED BY <1>2, NoTicketWritten DEF WriteAborted, RepairsInv

LEMMA RepairsWrite ==
    ASSUME RepairsInv, MaintenanceConstants, NEW c \in Client, Write(c)
    PROVE  RepairsInv'
<1>1. PICK t, row, new : t = req[c].ticket /\ row = tickets[t] /\ new = Written(c, row)
  OBVIOUS
<1>2. /\ req[c].at = "write" /\ UNCHANGED <<landed, rents, page, sent>>
      /\ tickets' = [tickets EXCEPT ![t] = new]
      /\ stale' = IF row # req[c].seen THEN stale \cup {t} ELSE stale
      /\ AnswerWritten(c)
  <2>1. t \in There
    BY <1>1 DEF RepairsInv, RequestOK, Write
  <2> QED BY <1>1, <2>1 DEF Write, RepairsInv, There
<1>3. req[c] \in Asked /\ RequestOK(c) /\ t \in There /\ t \in Ticket
  BY <1>1, <1>2 DEF RepairsInv, RequestOK, There
<1>4. /\ row \in TicketRow /\ new \in TicketRow /\ new.tenant = row.tenant /\ RowNames(new)
      /\ row = req[c].seen =>
            (TimeTells(row) => TimeTells(new))
  BY <1>1, <1>2, WrittenRow
<1>5. new # None
  BY <1>4 DEF MaintenanceConstants
<1>6. /\ tickets' \in [Ticket -> TicketRow \cup {None}] /\ tickets'[t] = new
      /\ \A u \in Ticket \ {t} : tickets'[u] = tickets[u]
  BY <1>2, <1>3, <1>4 DEF RepairsInv
<1>7. There' = There
  BY <1>3, <1>5, <1>6 DEF There
<1>8. \A u \in There : tickets'[u] # None /\ tickets'[u].tenant = tickets[u].tenant
  BY <1>1, <1>4, <1>5, <1>6 DEF There
<1>9. /\ req' \in [Client -> Asked] /\ RequestOK(c)'
      /\ \A d \in Client : req'[d] # req[d] => d = c
  BY <1>1, <1>2, <1>4, AnswersWritten
<1>10. \A d \in Client : RequestOK(d)'
  BY <1>2, <1>8, <1>9, OtherRequests
<1>11. \A u \in There' : RowNames(tickets[u])'
  BY <1>2, <1>4, <1>6, <1>7 DEF RepairsInv, RowNames, OwnPhotos, There
<1>12. RepairTimeTells'
  <2> SUFFICES ASSUME NEW u \in There \ stale'
               PROVE  tickets'[u].resolvedAt <=> tickets'[u].status = "resolved"
    BY <1>7 DEF RepairTimeTells
  <2>1. u \notin stale /\ (tickets[u].resolvedAt <=> tickets[u].status = "resolved")
    BY <1>2 DEF RepairsInv, RepairTimeTells
  <2>2. CASE u = t
    BY <1>1, <1>2, <1>4, <1>6, <2>1, <2>2 DEF TimeTells
  <2>3. CASE u # t
    BY <1>6, <2>1, <2>3 DEF There
  <2> QED BY <2>2, <2>3
<1>13. Client' = Client
  BY DEF Client
<1> QED BY <1>2, <1>6, <1>7, <1>9, <1>10, <1>11, <1>12, <1>13 DEF RepairsInv

LEMMA RepairsOpen ==
    ASSUME RepairsInv, NEW s \in Viewer, NEW t \in Ticket, Open(s, t)
    PROVE  RepairsInv'
<1>1. /\ page' \in [Viewer -> [ticket : Ticket \cup {None}, row : TicketRow \cup {None}]]
      /\ \A v \in Viewer : page'[v].ticket # None => page'[v].ticket \in There
  BY DEF RepairsInv, Open, There
<1> QED BY <1>1, NoTicketWritten DEF RepairsInv, Open

LEMMA RepairsTell ==
    ASSUME RepairsInv, MaintenanceConstants, NEW s \in Viewer, Tell(s)
    PROVE  RepairsInv'
<1>1. s \in Client /\ req[s] \in Asked /\ RequestOK(s)
      /\ UNCHANGED <<tickets, landed, rents, sent, stale>>
  BY DEF RepairsInv, Tell, Client, MaintenanceConstants
<1>2. /\ page' \in [Viewer -> [ticket : Ticket \cup {None}, row : TicketRow \cup {None}]]
      /\ \A v \in Viewer : page'[v].ticket = page[v].ticket
  BY <1>1 DEF RepairsInv, Tell, Asked
<1>3. NoReq \in Asked
  BY DEF NoReq, NoChange, Asked, Changes
<1>4. /\ req' \in [Client -> Asked] /\ req'[s] = NoReq
      /\ \A d \in Client : req'[d] # req[d] => d = s
  BY <1>1, <1>3 DEF RepairsInv, Tell
<1>5. RequestOK(s)'
  BY <1>4 DEF RequestOK, StaffAsks, TenantAsks, NoReq, NoChange
<1> QED BY <1>1, <1>2, <1>4, <1>5, NoTicketWritten DEF RepairsInv

LEMMA FewPhotos ==
    ASSUME NEW photos \in {<<>>} \cup {<<k>> : k \in Photo}
    PROVE  photos \in Seq(Photo) /\ Len(photos) <= 1
<1>1. CASE photos = <<>>
  BY <1>1
<1>2. ASSUME NEW k \in Photo, photos = <<k>> PROVE photos \in Seq(Photo) /\ Len(photos) <= 1
  BY <1>2
<1> QED BY <1>1, <1>2

LEMMA NothingAsked == NoChange \in Changes /\ StaffAsks(NoChange)
BY DEF NoChange, Changes, StaffAsks

(* The requests that are sent are those of their surface.                  *)
LEMMA RepairsSent ==
    ASSUME RepairsInv, MaintenanceConstants,
           \/ \E n \in Tenant, photos \in {<<>>} \cup {<<k>> : k \in Photo} :
                 \/ File(n, photos)
                 \/ \E t \in Ticket, cancel \in BOOLEAN :
                       Patch(n, t, [NoChange EXCEPT !.photos = photos, !.cancel = cancel])
           \/ \E s \in Staff, t \in Ticket :
                 \/ \E status \in Status \cup {"keep"}, note \in {"none", "given", "keep"} :
                       Patch(s, t, [NoChange EXCEPT !.status = status, !.note = note])
                 \/ \E assignee \in User \cup {None} :
                       Patch(s, t, [NoChange EXCEPT !.assignee = assignee])
           \/ \E s \in Viewer, status \in Status, note \in {"none", "given"} :
                 Click(s, status, note)
    PROVE  RepairsInv'
<1>1. Staff \cap Tenant = {} /\ Viewer \subseteq Staff /\ None \notin Ticket
  BY DEF MaintenanceConstants
<1>2. ASSUME NEW n \in Tenant, NEW photos \in {<<>>} \cup {<<k>> : k \in Photo}, File(n, photos)
      PROVE  RepairsInv'
  <2>1. PICK r : r = [NoReq EXCEPT !.at = "rent", !.change = [NoChange EXCEPT !.photos = photos]]
    OBVIOUS
  <2>2. photos \in Seq(Photo) /\ Len(photos) <= 1
    BY FewPhotos
  <2>3. r \in Asked /\ r.at = "rent" /\ TenantAsks(r.change)
    BY <2>1, <2>2 DEF NoReq, NoChange, Asked, Changes, TenantAsks
  <2>4. Send(n, r)
    BY <1>2, <2>1 DEF File
  <2>5. n \in Client /\ n \notin Staff
    BY <1>1 DEF Client
  <2>6. /\ r \in Asked
        /\ (r.at = "rent" /\ n \in Tenant) \/ (r.at = "read" /\ r.ticket \in There)
        /\ IF n \in Staff THEN StaffAsks(r.change) ELSE TenantAsks(r.change)
    BY <2>3, <2>5
  <2> QED BY ONLY RepairsInv, MaintenanceConstants, <2>4, <2>5, <2>6, RepairsSend
<1>3. ASSUME NEW n \in Tenant, NEW photos \in {<<>>} \cup {<<k>> : k \in Photo}, NEW t \in Ticket,
             NEW cancel \in BOOLEAN,
             Patch(n, t, [NoChange EXCEPT !.photos = photos, !.cancel = cancel])
      PROVE  RepairsInv'
  <2>1. PICK ch : ch = [NoChange EXCEPT !.photos = photos, !.cancel = cancel]
    OBVIOUS
  <2>2. photos \in Seq(Photo) /\ Len(photos) <= 1
    BY FewPhotos
  <2>3. ch \in Changes /\ TenantAsks(ch)
    BY <2>1, <2>2 DEF NoChange, Changes, TenantAsks
  <2>4. PICK r : r = [NoReq EXCEPT !.at = "read", !.ticket = t, !.change = ch]
    OBVIOUS
  <2>5. r \in Asked /\ r.at = "read" /\ r.ticket = t /\ r.change = ch
    BY <2>3, <2>4 DEF NoReq, Asked
  <2> QED BY <1>1, <1>3, <2>1, <2>3, <2>4, <2>5, RepairsSend DEF Patch, Client
<1>4. ASSUME NEW s \in Staff, NEW t \in Ticket, NEW ch \in Changes, StaffAsks(ch), Patch(s, t, ch)
      PROVE  RepairsInv'
  <2>1. PICK r : r = [NoReq EXCEPT !.at = "read", !.ticket = t, !.change = ch]
    OBVIOUS
  <2>2. r \in Asked /\ r.at = "read" /\ r.ticket = t /\ r.change = ch
    BY <2>1 DEF NoReq, Asked
  <2> QED BY <1>4, <2>1, <2>2, RepairsSend DEF Patch, Client
<1>5. ASSUME NEW s \in Staff, NEW t \in Ticket,
             NEW status \in Status \cup {"keep"}, NEW note \in {"none", "given", "keep"},
             Patch(s, t, [NoChange EXCEPT !.status = status, !.note = note])
      PROVE  RepairsInv'
  <2>1. [NoChange EXCEPT !.status = status, !.note = note] \in Changes
        /\ StaffAsks([NoChange EXCEPT !.status = status, !.note = note])
    BY NothingAsked DEF Changes, StaffAsks
  <2> QED BY <1>4, <1>5, <2>1
<1>6. ASSUME NEW s \in Staff, NEW t \in Ticket, NEW assignee \in User \cup {None},
             Patch(s, t, [NoChange EXCEPT !.assignee = assignee])
      PROVE  RepairsInv'
  <2>1. [NoChange EXCEPT !.assignee = assignee] \in Changes
        /\ StaffAsks([NoChange EXCEPT !.assignee = assignee])
    BY NothingAsked DEF Changes, StaffAsks
  <2> QED BY <1>4, <1>6, <2>1
<1>7. ASSUME NEW s \in Viewer, NEW status \in Status, NEW note \in {"none", "given"},
             Click(s, status, note)
      PROVE  RepairsInv'
  <2>1. PICK ch : ch = [NoChange EXCEPT !.status = status, !.note = note]
    OBVIOUS
  <2>2. ch \in Changes /\ StaffAsks(ch)
    BY <2>1, NothingAsked DEF Changes, StaffAsks
  <2>3. page[s].ticket \in There /\ page[s].ticket \in Ticket
    BY <1>7 DEF RepairsInv, Click, There
  <2>4. PICK r : r = [NoReq EXCEPT !.at = "read", !.ticket = page[s].ticket, !.paged = TRUE, !.change = ch]
    OBVIOUS
  <2>5. r \in Asked /\ r.at = "read" /\ r.ticket = page[s].ticket /\ r.change = ch
    BY <2>2, <2>3, <2>4 DEF NoReq, Asked
  <2>6. Send(s, r)
    BY <1>7, <2>1, <2>4 DEF Click
  <2> QED BY <1>1, <2>2, <2>3, <2>5, <2>6, RepairsSend DEF Client
<1> QED BY <1>2, <1>3, <1>5, <1>6, <1>7

LEMMA RepairsStep ==
    ASSUME RepairsInv, MaintenanceConstants, [Next]_(vars)
    PROVE  RepairsInv'
<1>1. CASE UNCHANGED vars
  BY <1>1, NoTicketWritten DEF vars, RepairsInv
<1>2. ASSUME NEW k \in Photo, PutPhoto(k) PROVE RepairsInv'
  BY <1>2, RepairsPutPhoto
<1>3. ASSUME NEW n \in Tenant, NEW unit, Move(n, unit) PROVE RepairsInv'
  BY <1>3, RepairsMove
<1>4. ASSUME NEW n \in Tenant, ReadRent(n) \/ Insert(n) PROVE RepairsInv'
  BY <1>4, RepairsReadRent, RepairsInsert
<1>5. ASSUME NEW s \in Viewer, (\E t \in Ticket : Open(s, t)) \/ Tell(s) PROVE RepairsInv'
  BY <1>5, RepairsOpen, RepairsTell
<1>6. ASSUME NEW c \in Client, ReadRow(c) \/ Write(c) \/ WriteAborted(c) \/ Fail(c) PROVE RepairsInv'
  BY <1>6, RepairsReadRow, RepairsWrite, RepairsAborted, RepairsFail
<1> QED BY <1>1, <1>2, <1>3, <1>4, <1>5, <1>6, RepairsSent DEF Next

LEMMA RepairsAlways == ASSUME MaintenanceConstants PROVE Spec => []RepairsInv
<1>1. Init => RepairsInv
  BY RepairsInit
<1>2. RepairsInv /\ [Next]_(vars) => RepairsInv'
  BY RepairsStep
<1> QED BY <1>1, <1>2, PTL DEF Spec

(* Tickets, requests and open pages stay of their types.                   *)
THEOREM RepairsTypeCorrect == Spec => []TypeOK
<1>1. RepairsInv => TypeOK
  BY MaintenanceAssumption DEF RepairsInv, TypeOK, Asked, There, RowNames, RequestOK, MaintenanceConstants
<1> QED BY <1>1, MaintenanceAssumption, RepairsAlways, PTL

(* A ticket names a unit its tenant rented, photos landed under the        *)
(* tenant's own prefix and no more of them than allowed, and a colleague;  *)
(* its time of resolution tells its status: whatever updates interleave.   *)
THEOREM TicketsStaySound == Spec => []TicketsAreSound
<1>1. RepairsInv => TicketsAreSound
  BY DEF RepairsInv, TicketsAreSound, NamesItsOwn, RowNames, OwnPhotos, Range
<1> QED BY <1>1, MaintenanceAssumption, RepairsAlways, PTL

(* Only Write changes a ticket that is there.                              *)
LEMMA RepairsKeep ==
    ASSUME RepairsInv, MaintenanceConstants, [Next]_(vars),
           NEW t \in There, t \notin stale'
    PROVE  Keeps(tickets[t], tickets'[t])
<1>1. CASE tickets'[t] = tickets[t]
  BY <1>1 DEF Keeps
<1>2. ASSUME NEW c \in Client, Write(c), tickets'[t] # tickets[t]
      PROVE  Keeps(tickets[t], tickets'[t])
  <2>1. PICK row, new : row = tickets[req[c].ticket] /\ new = Written(c, row)
    OBVIOUS
  <2>2. req[c].at = "write" /\ tickets' = [tickets EXCEPT ![req[c].ticket] = new]
    BY <1>2, <2>1 DEF Write, RepairsInv
  <2>3. t = req[c].ticket /\ tickets'[t] = new /\ row = tickets[t]
    BY <1>2, <2>1, <2>2 DEF RepairsInv, There
  <2>4. row = req[c].seen
    BY <1>2, <2>1, <2>3 DEF Write
  <2>5. Keeps(row, new)
    BY <2>1, <2>2, <2>4, WrittenRow
  <2> QED BY <2>3, <2>5
<1>3. ASSUME NEW n \in Tenant, ReadRent(n) \/ Insert(n) PROVE tickets'[t] = tickets[t]
  BY <1>3, RepairsInsert DEF ReadRent
<1>4. ASSUME tickets'[t] # tickets[t] PROVE \E c \in Client : Write(c)
  BY <1>3, <1>4 DEF Next, vars, PutPhoto, Move, File, Patch,
     Send, Open, Click, Tell, ReadRow, WriteAborted, Fail
<1> QED BY <1>1, <1>2, <1>4

(* However many requests update one ticket: one that had read it as it is  *)
(* moves no closed or cancelled ticket, takes no photo from one, and gives *)
(* a reason for what it resolves or cancels.                               *)
THEOREM TicketsStayFinal == Spec => FinalAndKept
<1>1. RepairsInv /\ [Next]_(vars) =>
        [\A t \in There : t \notin stale' =>
          /\ tickets[t].status \in {"closed", "cancelled"} => tickets'[t].status = tickets[t].status
          /\ Range(tickets[t].photos) \subseteq Range(tickets'[t].photos)
          /\ tickets'[t].status # tickets[t].status /\ tickets'[t].status \in {"resolved", "cancelled"}
             => tickets'[t].note = "given"]_(vars)
  BY MaintenanceAssumption, RepairsKeep DEF Keeps
<1> QED BY <1>1, MaintenanceAssumption, RepairsAlways, PTL DEF Spec, FinalAndKept


-----------------------------------------------------------------------------
(***************************************************************************)
(* Paying a bill.  What an upload has behind it is its step; a row of the   *)
(* payments page has at most one fetch under way, unless it was collapsed.  *)
(***************************************************************************)
PaymentOf(u) == payments[up[u].payment]

UploadKnows(u) ==
    up[u] # Nil =>
        /\ up[u].at = "create" => payments[u] = Nil /\ up[u].by \in Tab
        /\ up[u].at \notin {"create", "failed"} => up[u].payment \in Upload /\ (up[u].by \in Tab => up[u].payment = u)
        /\ up[u].at \notin {"create", "mint", "failed"} => PaymentOf(u) # Nil
        /\ up[u].watched => up[u].by \in Tab
        /\ up[u].at \in {"insert", "done"} => u \in bucket
        /\ up[u].at = "insert" => PaymentOf(u).status = "pending" \/ u \in overtaken
        /\ up[u].at = "done" => PaymentOf(u).slip = u \/ u \in unkept

OneFetch(v) ==
    ~v.cut => \/ v.open /\ v.fetches = 1 /\ v.slip = Nil /\ ~v.missing
              \/ v.open /\ v.fetches = 0 /\ (v.missing <=> v.slip = Nil)
              \/ ~v.open /\ v.fetches = 0 /\ v.slip = Nil /\ ~v.missing

(* What the status page of a tab is about.                                 *)
Whole(t, p) ==
    /\ p \in Upload /\ up[p] # Nil /\ up[p].by = t
    /\ payments[p] # Nil /\ p \in bucket /\ (payments[p].slip = p \/ p \in unkept)

TabState == [page : {"bill", "pay", "status"}, session : {"loading", "in", "bind", "error"},
             bill : BillStatus \cup {Nil}, payment : Upload \cup {Nil},
             shown : {"pending", "confirmed", "rejected", Nil}, error : BOOLEAN]

Tabs == [Tab -> TabState]

Views == [Row -> [open : BOOLEAN, slip : Upload \cup {Nil}, missing : BOOLEAN, fetches : Nat, cut : BOOLEAN]]

ApiTyped == /\ bills \in [Bill -> BillStatus]
            /\ payments \in [Upload -> Payment \cup {Nil}] /\ bucket \subseteq Upload
LiffTyped == /\ up \in [Upload -> Uploading \cup {Nil}] /\ stored \subseteq Tab
             /\ token \in [Tab -> {"none", "good", "old"}] /\ tab \in Tabs
DeskTyped == /\ rows \in [Row -> {"pending", "confirmed", "rejected", Nil}]
             /\ view \in Views /\ told \subseteq Row /\ unkept \subseteq Upload

PaysInv ==
    /\ ApiTyped /\ LiffTyped /\ DeskTyped
    /\ \A p \in Upload : payments[p] # Nil => up[p] # Nil /\ up[p].by \in Tab
    /\ \A u \in Upload : UploadKnows(u)
    /\ \A t \in Tab : tab[t].page = "status" => Whole(t, tab[t].payment)
    /\ \A p \in told : rows[p] # "pending" /\ payments[p] # Nil /\ payments[p].status # "pending"
    /\ \A p \in Row : rows[p] # Nil \/ view[p].fetches > 0 => payments[p] # Nil
    /\ \A p \in Row : OneFetch(view[p])

LEMMA PaysInit == ASSUME PayFlowConstants, PayInit PROVE PaysInv
<1>1. ApiTyped /\ LiffTyped /\ DeskTyped
  BY DEF PayInit, PayFlowConstants, NewTab, NoView, BillStatus, ApiTyped, LiffTyped, DeskTyped, Tabs, TabState, Views
<1>2. \A t \in Tab : tab[t].page # "status"
  BY DEF PayInit, NewTab
<1>3. \A p \in Row : OneFetch(view[p]) /\ rows[p] = Nil /\ ~(view[p].fetches > 0)
  BY DEF PayInit, NoView, OneFetch
<1> QED BY <1>1, <1>2, <1>3 DEF PayInit, PaysInv, UploadKnows

LEMMA PaysTyped == ASSUME PaysInv PROVE PayTypeOK
<1>1. \A u \in Upload : up[u] # Nil /\ up[u].at \notin {"create", "mint", "failed"} => payments[up[u].payment] # Nil
  BY DEF PaysInv, UploadKnows, PaymentOf
<1> QED BY <1>1 DEF PaysInv, PayTypeOK, ApiTyped, LiffTyped, DeskTyped, Tabs, TabState, Views

LEMMA PagesTelling == ASSUME PaysInv PROVE PagesTell
<1>1. DoneIsWhole
  BY DEF PaysInv, Whole, DoneIsWhole
<1>2. DecidedOnce
  BY DEF PaysInv, DecidedOnce
<1>3. RowShowsSlip
  BY DEF PaysInv, OneFetch, DeskTyped, Views, RowShowsSlip
<1> QED BY <1>1, <1>2, <1>3 DEF PagesTell

(* A step of a phone: pages are left, uploads stopped.                     *)
LEMMA PhoneStep ==
    ASSUME PaysInv, UNCHANGED <<bills, payments, bucket, rows, view, told, overtaken, unkept>>, LiffTyped',
           \A u \in Upload : /\ up'[u] = Nil <=> up[u] = Nil
                             /\ up[u] # Nil => /\ up'[u].by = up[u].by /\ up'[u].payment = up[u].payment
                                               /\ up'[u].watched => up[u].watched
                                               /\ up'[u].at = up[u].at \/ up'[u].at = "failed",
           \A t \in Tab : tab'[t].page = "status" => Whole(t, tab'[t].payment)
    PROVE  PaysInv'
<1>1. \A u \in Upload : UploadKnows(u)'
  <2> SUFFICES ASSUME NEW u \in Upload, up'[u] # Nil PROVE UploadKnows(u)'
    BY DEF UploadKnows
  <2>1. up[u] # Nil /\ UploadKnows(u)
    BY DEF PaysInv
  <2>2. CASE up'[u].at = up[u].at
    BY <2>1, <2>2 DEF UploadKnows, PaymentOf
  <2>3. CASE up'[u].at = "failed"
    BY <2>1, <2>3 DEF UploadKnows, PaymentOf
  <2> QED BY <2>1, <2>2, <2>3
<1>2. \A t \in Tab : tab'[t].page = "status" => Whole(t, tab[t].payment)'
  BY DEF Whole
<1>3. \A p \in Upload : payments[p] # Nil => up'[p] # Nil /\ up'[p].by \in Tab
  BY DEF PaysInv
<1>4. ApiTyped' /\ DeskTyped'
  BY DEF PaysInv, ApiTyped, DeskTyped
<1> QED BY <1>1, <1>2, <1>3, <1>4 DEF PaysInv

(* A step of the payments page.                                            *)
LEMMA AdminStep ==
    ASSUME PaysInv, UNCHANGED <<bills, payments, bucket, up, token, stored, tab, told, overtaken, unkept>>, DeskTyped',
           \A p \in told : rows'[p] # "pending",
           \A p \in Row : rows'[p] # Nil \/ view'[p].fetches > 0 => payments[p] # Nil,
           \A p \in Row : view'[p] # view[p] => OneFetch(view'[p])
    PROVE  PaysInv'
<1>1. \A u \in Upload : UploadKnows(u)'
  BY DEF PaysInv, UploadKnows, PaymentOf
<1>2. \A t \in Tab : tab'[t].page = "status" => Whole(t, tab[t].payment)'
  BY DEF Whole, PaysInv
<1>3. \A p \in Row : OneFetch(view'[p])
  BY DEF PaysInv
<1>4. \A p \in Row : OneFetch(view[p])'
  BY <1>3 DEF OneFetch
<1>5. ApiTyped' /\ LiffTyped'
  BY DEF PaysInv, ApiTyped, LiffTyped
<1> QED BY <1>1, <1>2, <1>4, <1>5 DEF PaysInv

(* A step of an upload: the api's rows and objects only grow.              *)
LEMMA UploadStep ==
    ASSUME PaysInv, UNCHANGED <<bills, token, tab, rows, view, told, overtaken>>, ApiTyped', LiffTyped',
           bucket \subseteq bucket', unkept \subseteq unkept', unkept' \subseteq Upload,
           \A v \in Upload : up[v] # Nil => up'[v] # Nil /\ up'[v].by = up[v].by,
           \A p \in Upload : payments'[p] # Nil => up'[p] # Nil /\ up'[p].by \in Tab,
           \A p \in Upload : payments[p] # Nil =>
               /\ payments'[p] # Nil /\ payments'[p].status = payments[p].status
               /\ payments[p].slip # Nil => payments'[p].slip = payments[p].slip,
           \A v \in Upload : UploadKnows(v)',
           Nil \notin Upload, Row \subseteq Upload
    PROVE  PaysInv'
<1>1. \A t \in Tab : tab'[t].page = "status" => Whole(t, tab[t].payment)'
  BY DEF PaysInv, Whole
<1>2. \A p \in told : rows'[p] # "pending" /\ payments'[p] # Nil /\ payments'[p].status # "pending"
  BY DEF PaysInv, DeskTyped
<1>3. \A p \in Row : rows'[p] # Nil \/ view'[p].fetches > 0 => payments'[p] # Nil
  BY DEF PaysInv
<1>4. \A p \in Row : OneFetch(view[p])'
  BY DEF PaysInv, OneFetch
<1>5. DeskTyped'
  BY DEF PaysInv, DeskTyped
<1> QED BY <1>1, <1>2, <1>3, <1>4, <1>5 DEF PaysInv

(* What an upload knows stays true while others grow.                      *)
LEMMA StillKnows ==
    ASSUME NEW v \in Upload, UploadKnows(v), up'[v] = up[v], overtaken' = overtaken, bucket \subseteq bucket',
           unkept \subseteq unkept', up[v] # Nil /\ up[v].at = "create" => payments'[v] = payments[v],
           \A p \in Upload : payments[p] # Nil =>
               /\ payments'[p] # Nil /\ payments'[p].status = payments[p].status
               /\ payments[p].slip # Nil => payments'[p].slip = payments[p].slip,
           Nil \notin Upload
    PROVE  UploadKnows(v)'
<1>1. CASE up[v] = Nil
  BY <1>1 DEF UploadKnows
<1>2. CASE up[v] # Nil /\ up[v].at = "create"
  BY <1>2 DEF UploadKnows
<1>3. CASE up[v] # Nil /\ up[v].at = "failed"
  BY <1>3 DEF UploadKnows
<1>4. CASE up[v] # Nil /\ up[v].at = "mint"
  BY <1>4 DEF UploadKnows
<1>5. CASE up[v] # Nil /\ up[v].at \notin {"create", "mint", "failed"}
  <2>1. up[v].payment \in Upload /\ PaymentOf(v) # Nil
    BY <1>5 DEF UploadKnows
  <2>2. /\ PaymentOf(v)' # Nil /\ PaymentOf(v)'.status = PaymentOf(v).status
        /\ PaymentOf(v).slip # Nil => PaymentOf(v)'.slip = PaymentOf(v).slip
    BY <2>1 DEF PaymentOf
  <2> QED BY <1>5, <2>1, <2>2 DEF UploadKnows
<1> QED BY <1>1, <1>2, <1>3, <1>4, <1>5

-----------------------------------------------------------------------------
(* The actions of a phone.                                                 *)
LEMMA PaysMount ==
    ASSUME PaysInv, NEW t \in Tab, NEW where, NEW payment \in Upload \cup {Nil},
           where \in {"bill", "pay"} \/ (where = "status" /\ Whole(t, payment)),
           Nil \notin Uploading, Mount(t, where, payment), UNCHANGED <<bills, payments, bucket, rows, view, told, overtaken, unkept, token, stored>>
    PROVE  PaysInv'
<1>0. tab \in Tabs /\ tab' = [tab EXCEPT ![t] = [NewTab EXCEPT !.page = where, !.payment = payment, !.bill = tab[t].bill]]
  BY DEF Mount, PaysInv, LiffTyped
<1>1. PICK w : /\ tab' = [tab EXCEPT ![t] = w] /\ w.page = where /\ w.payment = payment
               /\ w \in TabState
  <2>1. where \in {"bill", "pay", "status"} /\ tab[t].bill \in BillStatus \cup {Nil}
    BY <1>0 DEF Tabs, TabState
  <2>2. LET w == [NewTab EXCEPT !.page = where, !.payment = payment, !.bill = tab[t].bill]
        IN  /\ w.page = where /\ w.payment = payment
            /\ w \in TabState
    BY <2>1 DEF NewTab, TabState
  <2> QED BY <1>0, <2>2
<1>2. tab' \in Tabs
  BY <1>0, <1>1 DEF Tabs
<1>3. \A s \in Tab : tab'[s].page = "status" => Whole(s, tab'[s].payment)
  BY <1>0, <1>1 DEF PaysInv, Tabs
<1>4. up' \in [Upload -> Uploading \cup {Nil}]
  BY DEF Mount, PaysInv, LiffTyped, Uploading
<1>5. \A u \in Upload : /\ up'[u] = Nil <=> up[u] = Nil
                        /\ up[u] # Nil => /\ up'[u].by = up[u].by /\ up'[u].payment = up[u].payment
                                          /\ up'[u].watched => up[u].watched
                                          /\ up'[u].at = up[u].at
  <2> SUFFICES ASSUME NEW u \in Upload
               PROVE  /\ up'[u] = Nil <=> up[u] = Nil
                      /\ up[u] # Nil => /\ up'[u].by = up[u].by /\ up'[u].payment = up[u].payment
                                        /\ up'[u].watched => up[u].watched
                                        /\ up'[u].at = up[u].at
    OBVIOUS
  <2>1. up[u] \in Uploading \cup {Nil}
    BY DEF PaysInv, LiffTyped
  <2>2. up'[u] = IF up[u] # Nil /\ up[u].by = t THEN [up[u] EXCEPT !.watched = FALSE] ELSE up[u]
    BY DEF Mount
  <2>3. CASE up[u] # Nil /\ up[u].by = t
    BY <2>1, <2>2, <2>3 DEF Uploading
  <2>4. CASE ~(up[u] # Nil /\ up[u].by = t)
    BY <2>2, <2>4
  <2> QED BY <2>3, <2>4
<1>6. LiffTyped'
  BY <1>2, <1>4 DEF PaysInv, LiffTyped, Tabs
<1> QED BY <1>3, <1>5, <1>6, PhoneStep

LEMMA PaysGo ==
    ASSUME PaysInv, NEW t \in Tab, NEW where, Go(t, where), Nil \notin Uploading
    PROVE  PaysInv'
BY PaysMount DEF Go, api, admin

LEMMA PaysArrive ==
    ASSUME PaysInv, NEW u \in Upload, Arrive(u), Nil \notin Uploading
    PROVE  PaysInv'
<1>1. up[u] # Nil /\ UploadKnows(u)
  BY DEF Arrive, PaysInv
<1>2. up[u].by \in Tab /\ u \in bucket /\ up[u].payment = u /\ PaymentOf(u) # Nil
      /\ (PaymentOf(u).slip = u \/ u \in unkept)
  BY <1>1 DEF UploadKnows, Arrive
<1>3. Whole(up[u].by, u)
  BY <1>1, <1>2 DEF Whole, PaymentOf
<1> QED BY <1>2, <1>3, PaysMount DEF Arrive, api, admin

LEMMA PaysReload ==
    ASSUME PaysInv, NEW t \in Tab, Reload(t), Nil \notin Upload, Nil \notin Uploading
    PROVE  PaysInv'
<1>0. tab \in Tabs /\ tab' = [tab EXCEPT ![t] = [NewTab EXCEPT !.page = tab[t].page, !.payment = tab[t].payment]]
  BY DEF Reload, PaysInv, LiffTyped
<1>1. PICK w : /\ tab' = [tab EXCEPT ![t] = w] /\ w.page = tab[t].page /\ w.payment = tab[t].payment
               /\ w \in TabState
  <2>1. tab[t].page \in {"bill", "pay", "status"} /\ tab[t].payment \in Upload \cup {Nil}
    BY <1>0 DEF Tabs, TabState
  <2>2. LET w == [NewTab EXCEPT !.page = tab[t].page, !.payment = tab[t].payment]
        IN  /\ w.page = tab[t].page /\ w.payment = tab[t].payment
            /\ w \in TabState
    BY <2>1 DEF NewTab, TabState
  <2> QED BY <1>0, <2>2
<1>2. tab' \in Tabs
  BY <1>0, <1>1 DEF Tabs
<1>3. \A s \in Tab : tab'[s].page = tab[s].page /\ tab'[s].payment = tab[s].payment
  BY <1>0, <1>1 DEF Tabs
<1>5. \A u \in Upload : /\ up'[u] \in Uploading \cup {Nil}
                        /\ up'[u] = Nil <=> up[u] = Nil
                        /\ up[u] # Nil => /\ up'[u].by = up[u].by /\ up'[u].payment = up[u].payment
                                          /\ up'[u].watched => up[u].watched
                                          /\ up'[u].at = up[u].at \/ up'[u].at = "failed"
  <2> SUFFICES ASSUME NEW u \in Upload
               PROVE  /\ up'[u] \in Uploading \cup {Nil}
                      /\ up'[u] = Nil <=> up[u] = Nil
                      /\ up[u] # Nil => /\ up'[u].by = up[u].by /\ up'[u].payment = up[u].payment
                                        /\ up'[u].watched => up[u].watched
                                        /\ up'[u].at = up[u].at \/ up'[u].at = "failed"
    OBVIOUS
  <2>1. up[u] \in Uploading \cup {Nil}
    BY DEF PaysInv, LiffTyped
  <2>2. up'[u] = IF up[u] # Nil /\ up[u].by = t
                 THEN [up[u] EXCEPT !.watched = FALSE, !.at = IF @ \in UnderWay THEN "failed" ELSE @] ELSE up[u]
    BY DEF Reload
  <2>3. CASE up[u] # Nil /\ up[u].by = t
    <3>1. up[u] \in Uploading
      BY <2>1, <2>3
    <3>2. up'[u] = [up[u] EXCEPT !.watched = FALSE, !.at = IF up[u].at \in UnderWay THEN "failed" ELSE up[u].at]
      BY <2>2, <2>3
    <3>3. \A at \in {up[u].at, "failed"} :
             LET x == [up[u] EXCEPT !.watched = FALSE, !.at = at]
             IN  x \in Uploading /\ x.by = up[u].by /\ x.payment = up[u].payment /\ ~x.watched /\ x.at = at
      BY <3>1 DEF Uploading
    <3> QED BY <3>1, <3>2, <3>3
  <2>4. CASE ~(up[u] # Nil /\ up[u].by = t)
    BY <2>1, <2>2, <2>4
  <2> QED BY <2>3, <2>4
<1>6. DOMAIN up' = Upload /\ up' = [u \in Upload |-> up'[u]]
  BY DEF Reload
<1>7. LiffTyped'
  BY <1>2, <1>5, <1>6 DEF PaysInv, LiffTyped, Reload, Tabs
<1>8. \A s \in Tab : tab'[s].page = "status" => Whole(s, tab'[s].payment)
  BY <1>3 DEF PaysInv
<1> QED BY <1>5, <1>7, <1>8, PhoneStep DEF Reload, api, admin

LEMMA PaysSession ==
    ASSUME PayFlowConstants, PaysInv, NEW t \in Tab,
           Start(t) \/ Expire(t) \/ LoadBill(t) \/ Answers(t) \/ FetchFails(t)
    PROVE  PaysInv'
<1>1. UNCHANGED <<bills, payments, bucket, rows, view, told, overtaken, unkept, up>>
  BY DEF Start, Expire, LoadBill, Answers, FetchFails, api, admin
<1>2. stored' \subseteq Tab /\ token' \in [Tab -> {"none", "good", "old"}]
  BY DEF PaysInv, LiffTyped, Start, Expire, LoadBill, Answers, FetchFails, AfterAnswer, Exchanged
<1>3. tab' \in Tabs /\ \A s \in Tab : tab'[s].page = tab[s].page /\ tab'[s].payment = tab[s].payment
  <2>1. CASE Start(t)
    BY <2>1 DEF PaysInv, LiffTyped, Tabs, TabState, Start, Exchanged
  <2>2. CASE Expire(t)
    BY <2>2 DEF PaysInv, LiffTyped, Tabs, Expire
  <2>3. CASE LoadBill(t)
    <3>1. tab' = tab \/ tab' = [tab EXCEPT ![t].bill = bills[BillOf[t]]]
      BY <2>3 DEF LoadBill
    <3>2. bills[BillOf[t]] \in BillStatus
      BY DEF PaysInv, ApiTyped, PayFlowConstants
    <3> QED BY <3>1, <3>2 DEF PaysInv, LiffTyped, Tabs, TabState
  <2>4. CASE Answers(t)
    <3>1. tab' = [tab EXCEPT ![t].shown = payments[tab[t].payment].status, ![t].error = FALSE]
      BY <2>4 DEF Answers
    <3>2. payments[tab[t].payment].status \in {"pending", "confirmed", "rejected"}
      BY <2>4 DEF PaysInv, ApiTyped, Whole, Answers, OnStatus, Payment
    <3>3. tab \in Tabs
      BY DEF PaysInv, LiffTyped
    <3> QED BY <3>1, <3>2, <3>3 DEF Tabs, TabState
  <2>5. CASE FetchFails(t)
    <3>1. tab' = [tab EXCEPT ![t].error = TRUE]
      BY <2>5 DEF FetchFails
    <3>2. tab \in Tabs
      BY DEF PaysInv, LiffTyped
    <3> QED BY <3>1, <3>2 DEF Tabs, TabState
  <2> QED BY <2>1, <2>2, <2>3, <2>4, <2>5
<1>4. LiffTyped'
  BY <1>1, <1>2, <1>3 DEF PaysInv, LiffTyped, Tabs
<1>5. \A s \in Tab : tab'[s].page = "status" => Whole(s, tab'[s].payment)
  BY <1>3 DEF PaysInv
<1> QED BY <1>1, <1>4, <1>5, PhoneStep

-----------------------------------------------------------------------------
(* The actions of an upload.                                               *)
LEMMA PaysBegin ==
    ASSUME PayFlowConstants, PaysInv, NEW u \in Upload, NEW by \in Tab \cup Desk, NEW at, NEW p, NEW watched \in BOOLEAN,
           up[u] = Nil, up' = [up EXCEPT ![u] = [by |-> by, at |-> at, payment |-> p, watched |-> watched]],
           \/ at = "create" /\ by \in Tab /\ p = Nil
           \/ at = "mint" /\ by \in Desk /\ p \in Upload /\ payments[p] # Nil /\ ~watched,
           UNCHANGED <<api, admin, token, stored, tab>>
    PROVE  PaysInv'
<1> USE DEF api, admin
<1>1. LiffTyped'
  BY DEF PaysInv, LiffTyped, Uploading
<1>2. ApiTyped'
  BY DEF PaysInv, ApiTyped
<1>3. up'[u] # Nil /\ up'[u].by = by /\ up'[u].at = at /\ up'[u].payment = p /\ up'[u].watched = watched
  BY DEF PaysInv, LiffTyped, Uploading, PayFlowConstants
<1>4. \A v \in Upload : v # u => up'[v] = up[v]
  BY DEF PaysInv, LiffTyped
<1>5. payments[u] = Nil
  BY DEF PaysInv
<1>6. \A v \in Upload : UploadKnows(v)'
  <2>1. UploadKnows(u)'
    BY <1>3, <1>5 DEF UploadKnows, PaymentOf, PayFlowConstants
  <2>2. \A v \in Upload : v # u => UploadKnows(v)'
    BY <1>4, StillKnows DEF PaysInv, PayFlowConstants
  <2> QED BY <2>1, <2>2
<1>7. \A p_ \in Upload : payments[p_] # Nil => up'[p_] # Nil /\ up'[p_].by \in Tab
  BY <1>4, <1>5 DEF PaysInv
<1>8. unkept' \subseteq Upload
  BY DEF PaysInv, DeskTyped
<1> QED BY <1>1, <1>2, <1>3, <1>4, <1>6, <1>7, <1>8, UploadStep DEF PayFlowConstants

LEMMA PaysSubmit ==
    ASSUME PayFlowConstants, PaysInv, NEW t \in Tab, NEW u \in Upload, Submit(t, u)
    PROVE  PaysInv'
BY PaysBegin DEF Submit

LEMMA PaysAtDesk ==
    ASSUME PayFlowConstants, PaysInv, NEW d \in Desk, NEW u \in Upload, NEW p \in Upload, SubmitAtDesk(d, u, p)
    PROVE  PaysInv'
BY PaysBegin DEF SubmitAtDesk, Made

(* An upload goes on to its next step.                                     *)
LEMMA PaysHop ==
    ASSUME PayFlowConstants, PaysInv, NEW u \in Upload, NEW at \in {"put", "check", "insert", "failed"},
           up[u] # Nil, up[u].at \in {"create", "mint", "put", "check", "insert"}, To(u, at),
           up[u].at = "create" => at = "failed",
           bucket \subseteq bucket', bucket' \subseteq Upload,
           at # "failed" => PaymentOf(u) # Nil, at = "insert" => u \in bucket /\ TakesSlip(up[u].payment),
           stored' \subseteq Tab,
           UNCHANGED <<bills, payments, rows, view, told, overtaken, unkept, token, tab>>
    PROVE  PaysInv'
<1>1. up[u] \in Uploading /\ UploadKnows(u)
  BY DEF PaysInv, LiffTyped
<1>2. up'[u] # Nil /\ up'[u] = [up[u] EXCEPT !.at = at] /\ up'[u] \in Uploading
  BY <1>1 DEF To, PaysInv, LiffTyped, Uploading, PayFlowConstants
<1>3. /\ up'[u].at = at /\ up'[u].by = up[u].by /\ up'[u].payment = up[u].payment
      /\ up'[u].watched <=> up[u].watched
  BY <1>1, <1>2 DEF Uploading
<1>4. \A v \in Upload : v # u => up'[v] = up[v]
  BY DEF To, PaysInv, LiffTyped
<1>5. LiffTyped'
  BY <1>2 DEF To, PaysInv, LiffTyped
<1>6. ApiTyped'
  BY DEF PaysInv, ApiTyped
<1>7. \A v \in Upload : UploadKnows(v)'
  <2>1. UploadKnows(u)'
    BY <1>1, <1>2, <1>3 DEF UploadKnows, PaymentOf, TakesSlip
  <2>2. \A v \in Upload : v # u => UploadKnows(v)'
    BY <1>4, StillKnows DEF PaysInv, PayFlowConstants
  <2> QED BY <2>1, <2>2
<1>8. \A v \in Upload : up[v] # Nil => up'[v] # Nil /\ up'[v].by = up[v].by
  BY <1>2, <1>3, <1>4
<1>9. \A p \in Upload : payments[p] # Nil => up'[p] # Nil /\ up'[p].by \in Tab
  BY <1>8 DEF PaysInv
<1>10. unkept' \subseteq Upload
  BY DEF PaysInv, DeskTyped
<1> QED BY <1>5, <1>6, <1>7, <1>8, <1>9, <1>10, UploadStep DEF PayFlowConstants

LEMMA PaysMint ==
    ASSUME PayFlowConstants, PaysInv, NEW u \in Upload, Mint(u)
    PROVE  PaysInv'
<1>1. stored' \subseteq Tab
  BY DEF Mint, Hop, PaysInv, LiffTyped
<1>2. PICK at \in {"put", "failed"} : To(u, at) /\ (at = "put" => PaymentOf(u) # Nil)
  BY DEF Mint, Hop, TakesSlip, PaymentOf
<1> QED BY <1>1, <1>2, PaysHop DEF Mint, Hop, api, admin, PaysInv, ApiTyped

LEMMA PaysPut ==
    ASSUME PayFlowConstants, PaysInv, NEW u \in Upload, Put(u)
    PROVE  PaysInv'
<1>1. stored' \subseteq Tab /\ bucket \subseteq bucket' /\ bucket' \subseteq Upload
  BY DEF Put, PaysInv, LiffTyped, ApiTyped
<1>2. PICK at \in {"check", "failed"} : To(u, at)
  BY DEF Put
<1>3. PaymentOf(u) # Nil
  BY DEF Put, PaysInv, UploadKnows
<1> QED BY <1>1, <1>2, <1>3, PaysHop DEF Put, admin

LEMMA PaysCheck ==
    ASSUME PayFlowConstants, PaysInv, NEW u \in Upload, Check(u)
    PROVE  PaysInv'
<1>1. stored' \subseteq Tab
  BY DEF Check, Hop, PaysInv, LiffTyped
<1>2. PICK at \in {"insert", "failed"} : To(u, at) /\ (at = "insert" => u \in bucket /\ TakesSlip(up[u].payment))
  BY DEF Check, Hop
<1>3. PaymentOf(u) # Nil
  BY DEF Check, Hop, PaysInv, UploadKnows
<1> QED BY <1>1, <1>2, <1>3, PaysHop DEF Check, Hop, api, admin, PaysInv, ApiTyped

LEMMA PaysCreate ==
    ASSUME PayFlowConstants, PaysInv, NEW u \in Upload, Create(u)
    PROVE  PaysInv'
<1>1. /\ stored' \subseteq Tab /\ up[u] # Nil /\ up[u].at = "create" /\ bucket' = bucket
      /\ UNCHANGED <<bills, rows, view, told, overtaken, unkept, token, tab>>
  BY DEF Create, PaysInv, LiffTyped, admin
<1>2. CASE To(u, "failed") /\ UNCHANGED payments
  BY <1>1, <1>2, PaysHop DEF PaysInv, ApiTyped
<1>3. ASSUME NEW at \in {"mint", "failed"}, NEW paid \in Upload \cup {Nil}, at = "mint" => paid = u,
             up' = [up EXCEPT ![u].at = at, ![u].payment = paid],
             payments' = payments \/ payments' = [payments EXCEPT ![u] = [status |-> "pending", slip |-> Nil]]
      PROVE  PaysInv'
  <2>1. up[u] \in Uploading /\ UploadKnows(u)
    BY <1>1 DEF PaysInv, LiffTyped
  <2>2. up'[u] = [up[u] EXCEPT !.at = at, !.payment = paid] /\ \A v \in Upload : v # u => up'[v] = up[v]
    BY <1>3 DEF PaysInv, LiffTyped
  <2>3. /\ up'[u] # Nil /\ up'[u] \in Uploading /\ up'[u].at = at /\ up'[u].by = up[u].by
        /\ up'[u].payment = paid /\ (up'[u].watched <=> up[u].watched)
    <3>1. up[u] \in Uploading
      BY <1>1, <2>1
    <3> QED BY <2>2, <3>1 DEF Uploading, PayFlowConstants
  <2>4. LiffTyped'
    BY <1>1, <1>3, <2>3 DEF PaysInv, LiffTyped
  <2>5. /\ ApiTyped'
        /\ \A p \in Upload : p # u => payments'[p] = payments[p]
    BY <1>1, <1>3 DEF PaysInv, ApiTyped, Payment, PayFlowConstants
  <2>6. payments[u] = Nil /\ up[u].by \in Tab
    BY <1>1, <2>1 DEF UploadKnows
  <2>7. \A v \in Upload : UploadKnows(v)'
    <3>1. UploadKnows(u)'
      BY <1>3, <2>1, <2>3, <2>6 DEF UploadKnows, PaymentOf
    <3>2. \A v \in Upload : v # u => UploadKnows(v)'
      BY <1>1, <2>2, <2>5, <2>6, StillKnows DEF PaysInv, PayFlowConstants
    <3> QED BY <3>1, <3>2
  <2>8. \A v \in Upload : up[v] # Nil => up'[v] # Nil /\ up'[v].by = up[v].by
    BY <2>2, <2>3
  <2>9. \A p \in Upload : payments'[p] # Nil => up'[p] # Nil /\ up'[p].by \in Tab
    BY <2>3, <2>5, <2>6, <2>8 DEF PaysInv
  <2>10. unkept' \subseteq Upload
    BY <1>1 DEF PaysInv, DeskTyped
  <2> QED BY <1>1, <2>4, <2>5, <2>6, <2>7, <2>8, <2>9, <2>10, UploadStep DEF PayFlowConstants
<1>4. CASE up' = [up EXCEPT ![u].at = "mint", ![u].payment = u]
  BY <1>3, <1>4 DEF Create
<1>5. CASE To(u, "failed")
  <2>1. PICK paid : paid = up[u].payment
    OBVIOUS
  <2>2. paid \in Upload \cup {Nil} /\ up' = [up EXCEPT ![u].at = "failed", ![u].payment = paid]
    BY <1>1, <1>5, <2>1 DEF To, PaysInv, LiffTyped, Uploading
  <2> QED BY <1>3, <2>2 DEF Create
<1> QED BY <1>2, <1>4, <1>5 DEF Create

LEMMA PaysInsert ==
    ASSUME PayFlowConstants, PaysInv, NEW u \in Upload, InsertSlip(u)
    PROVE  PaysInv'
<1>1. /\ stored' \subseteq Tab /\ up[u] # Nil /\ up[u].at = "insert" /\ bucket' = bucket
      /\ UNCHANGED <<bills, rows, view, told, overtaken, token, tab>>
  BY DEF InsertSlip, PaysInv, LiffTyped
<1>2. CASE To(u, "failed") /\ UNCHANGED <<payments, unkept>>
  BY <1>1, <1>2, PaysHop DEF PaysInv, ApiTyped
<1>3. ASSUME NEW at \in {"done", "failed"}, To(u, at), payments[up[u].payment].slip = Nil,
             \/ payments' = [payments EXCEPT ![up[u].payment].slip = u] /\ unkept' = unkept
             \/ payments' = payments /\ unkept' = unkept \cup {u}
      PROVE  PaysInv'
  <2>1. up[u] \in Uploading /\ UploadKnows(u)
    BY <1>1 DEF PaysInv, LiffTyped
  <2>2. up'[u] = [up[u] EXCEPT !.at = at] /\ \A v \in Upload : v # u => up'[v] = up[v]
    BY <1>3 DEF PaysInv, LiffTyped, To
  <2>3. /\ up'[u] # Nil /\ up'[u] \in Uploading /\ up'[u].at = at /\ up'[u].by = up[u].by
        /\ up'[u].payment = up[u].payment /\ (up'[u].watched <=> up[u].watched)
    BY <2>1, <2>2 DEF Uploading, PayFlowConstants
  <2>4. LiffTyped'
    BY <1>1, <1>3, <2>3 DEF PaysInv, LiffTyped, To
  <2>5. PICK p \in Upload : p = up[u].payment /\ payments[p] # Nil /\ (up[u].by \in Tab => p = u) /\ u \in bucket
    BY <1>1, <2>1 DEF UploadKnows, PaymentOf
  <2>6. /\ ApiTyped' /\ payments'[p] # Nil /\ payments'[p].status = payments[p].status
        /\ payments'[p].slip = u \/ u \in unkept'
        /\ unkept \subseteq unkept' /\ unkept' \subseteq Upload
        /\ \A q \in Upload : q # p => payments'[q] = payments[q]
    BY <1>1, <1>3, <2>5 DEF PaysInv, ApiTyped, DeskTyped, Payment, PayFlowConstants
  <2>7. \A q \in Upload : payments[q] # Nil =>
            /\ payments'[q] # Nil /\ payments'[q].status = payments[q].status
            /\ payments[q].slip # Nil => payments'[q].slip = payments[q].slip
    BY <1>3, <2>5, <2>6
  <2>8. \A v \in Upload : UploadKnows(v)'
    <3>1. UploadKnows(u)'
      BY <1>1, <2>1, <2>3, <2>5, <2>6 DEF UploadKnows, PaymentOf
    <3>2. ASSUME NEW v \in Upload, v # u PROVE UploadKnows(v)'
      <4>1. up[v] # Nil /\ up[v].at = "create" => payments'[v] = payments[v]
        BY <2>5, <2>6 DEF PaysInv, UploadKnows
      <4>2. UploadKnows(v) /\ up'[v] = up[v] /\ bucket \subseteq bucket' /\ overtaken' = overtaken /\ Nil \notin Upload
              /\ unkept \subseteq unkept'
        BY <1>1, <2>2, <2>6, <3>2 DEF PaysInv, PayFlowConstants
      <4> QED BY <2>7, <4>1, <4>2, StillKnows
    <3> QED BY <3>1, <3>2
  <2>9. \A v \in Upload : up[v] # Nil => up'[v] # Nil /\ up'[v].by = up[v].by
    BY <2>2, <2>3
  <2>10. \A q \in Upload : payments'[q] # Nil => up'[q] # Nil /\ up'[q].by \in Tab
    BY <2>5, <2>6, <2>9 DEF PaysInv
  <2> QED BY <1>1, <2>4, <2>6, <2>7, <2>8, <2>9, <2>10, UploadStep DEF PayFlowConstants
<1> QED BY <1>2, <1>3 DEF InsertSlip

-----------------------------------------------------------------------------
(* The actions of the company.                                             *)
LEMMA PaysRows ==
    ASSUME PayFlowConstants, PaysInv, LoadRows \/ \E p \in Row : DecisionAborted(p)
    PROVE  PaysInv'
<1>1. /\ UNCHANGED <<bills, payments, bucket, up, token, stored, tab, told, overtaken, unkept, view>>
      /\ rows' = [p \in Row |-> StatusOf(p)]
  BY DEF LoadRows, DecisionAborted, api, liff
<1>2. \A p \in Row : rows'[p] = StatusOf(p) /\ p \in Upload
  BY <1>1 DEF PayFlowConstants
<1>3. \A p \in Row : rows'[p] \in {"pending", "confirmed", "rejected", Nil} /\ (rows'[p] # Nil \/ view'[p].fetches > 0 => payments[p] # Nil)
  BY <1>1, <1>2 DEF PaysInv, ApiTyped, StatusOf, Payment
<1>4. DeskTyped'
  BY <1>1, <1>3 DEF PaysInv, DeskTyped
<1>5. \A p \in told : rows'[p] # "pending"
  BY <1>2 DEF PaysInv, DeskTyped, StatusOf
<1> QED BY <1>1, <1>3, <1>4, <1>5, AdminStep

Panel == [open : BOOLEAN, slip : Upload \cup {Nil}, missing : BOOLEAN, fetches : Nat, cut : BOOLEAN]
(* A row is collapsed, expanded, answered.                                 *)
LEMMA Collapsed ==
    ASSUME NEW v \in Panel, NEW c \in BOOLEAN, OneFetch(v), v.open, v.cut \/ v.fetches > 0 => c,
           NEW w, w = [v EXCEPT !.open = FALSE, !.slip = Nil, !.missing = FALSE, !.cut = c]
    PROVE  w \in Panel /\ OneFetch(w)
<1>1. w \in Panel /\ ~w.open /\ w.slip = Nil /\ ~w.missing /\ w.fetches = v.fetches /\ (w.cut <=> c)
  BY DEF Panel
<1>2. v.fetches \in Nat
  BY DEF Panel
<1> QED BY <1>1, <1>2 DEF OneFetch
LEMMA Expanded ==
    ASSUME NEW v \in Panel, OneFetch(v), ~v.open, NEW n \in Nat, n = v.fetches + 1,
           NEW w, w = [v EXCEPT !.open = TRUE, !.fetches = n]
    PROVE  w \in Panel /\ OneFetch(w)
<1>1. w \in Panel /\ w.open /\ w.slip = v.slip /\ (w.missing <=> v.missing) /\ w.fetches = n /\ (w.cut <=> v.cut)
  BY DEF Panel
<1>2. v.fetches \in Nat
  BY DEF Panel
<1> QED BY <1>1, <1>2 DEF OneFetch
LEMMA Answered ==
    ASSUME NEW v \in Panel, NEW found \in Upload \cup {Nil}, NEW b \in BOOLEAN, OneFetch(v), v.fetches > 0,
           v.cut \/ (v.slip = Nil /\ (b <=> v.missing \/ found = Nil)),
           NEW n \in Nat, n = v.fetches - 1,
           NEW w, w = [v EXCEPT !.fetches = n, !.slip = found, !.missing = b]
    PROVE  w \in Panel /\ OneFetch(w)
<1>1. w \in Panel /\ (w.open <=> v.open) /\ w.slip = found /\ (w.missing <=> b) /\ w.fetches = n /\ (w.cut <=> v.cut)
  BY DEF Panel
<1>2. v.fetches \in Nat
  BY DEF Panel
<1> QED BY <1>1, <1>2 DEF OneFetch

LEMMA PaysPanel ==
    ASSUME PayFlowConstants, PaysInv, NEW p \in Row, Toggle(p) \/ Fetched(p)
    PROVE  PaysInv'
<1>1. UNCHANGED <<bills, payments, bucket, up, token, stored, tab, told, overtaken, unkept, rows>>
  BY DEF Toggle, Fetched, api, liff
<1>2. view \in [Row -> Panel] /\ OneFetch(view[p]) /\ view[p] \in Panel
  BY DEF PaysInv, DeskTyped, Views, Panel
<1>3. payments[p] # Nil /\ p \in Upload
  BY DEF Toggle, Fetched, PaysInv, PayFlowConstants
<1>4. PICK w \in Panel : view' = [view EXCEPT ![p] = w] /\ OneFetch(w)
  <2>1. CASE Toggle(p) /\ view[p].open
    <3>1. PICK w : w = [view[p] EXCEPT !.open = FALSE, !.slip = Nil, !.missing = FALSE, !.cut = @ \/ view[p].fetches > 0]
      OBVIOUS
    <3>2. view' = [view EXCEPT ![p] = w]
      BY <2>1, <3>1 DEF Toggle
    <3>3. (view[p].cut \/ view[p].fetches > 0) \in BOOLEAN
      OBVIOUS
    <3> QED BY <1>2, <2>1, <3>1, <3>2, <3>3, Collapsed
  <2>2. CASE Toggle(p) /\ ~view[p].open
    <3>1. PICK w : w = [view[p] EXCEPT !.open = TRUE, !.fetches = @ + 1]
      OBVIOUS
    <3>2. view' = [view EXCEPT ![p] = w]
      BY <2>2, <3>1 DEF Toggle
    <3>3. view[p].fetches + 1 \in Nat
      BY <1>2 DEF Panel
    <3> QED BY <1>2, <2>2, <3>1, <3>2, <3>3, Expanded
  <2>3. CASE Fetched(p)
    <3>1. PICK found \in Upload \cup {Nil} : found = IF payments[p].slip # Nil THEN payments[p].slip ELSE view[p].slip
      BY <1>2, <1>3 DEF PaysInv, ApiTyped, Payment, Panel
    <3>2. PICK w : w = [view[p] EXCEPT !.fetches = @ - 1, !.slip = found, !.missing = @ \/ payments[p].slip = Nil]
      OBVIOUS
    <3>3. view' = [view EXCEPT ![p] = w] /\ view[p].fetches > 0
      BY <2>3, <3>1, <3>2 DEF Fetched
    <3>4. view[p].fetches - 1 \in Nat /\ (view[p].missing \/ payments[p].slip = Nil) \in BOOLEAN
      BY <1>2, <3>3 DEF Panel
    <3>5. view[p].cut \/ (view[p].slip = Nil /\ ((view[p].missing \/ payments[p].slip = Nil) <=> (view[p].missing \/ found = Nil)))
      <4>1. view[p].cut \/ view[p].slip = Nil
        BY <1>2, <3>3 DEF OneFetch, Panel
      <4>2. CASE view[p].slip = Nil
        BY <3>1, <4>2
      <4> QED BY <4>1, <4>2
    <3> QED BY <1>2, <3>2, <3>3, <3>4, <3>5, Answered
  <2> QED BY <2>1, <2>2, <2>3
<1>5. view' \in Views /\ \A q \in Row : view'[q] # view[q] => q = p /\ OneFetch(view'[q])
  BY <1>2, <1>4 DEF Views, Panel
<1>6. DeskTyped'
  BY <1>1, <1>5 DEF PaysInv, DeskTyped
<1> QED BY <1>1, <1>3, <1>5, <1>6, AdminStep DEF PaysInv

LEMMA PaysDecide ==
    ASSUME PayFlowConstants, PaysInv, NEW p \in Row, NEW verdict \in Decided, NEW answered \in BOOLEAN,
           Decide(p, verdict, answered)
    PROVE  PaysInv'
<1>1. /\ UNCHANGED <<bucket, up, token, stored, tab, view, unkept>> /\ rows[p] = "pending"
      /\ payments' = [payments EXCEPT ![p].status = verdict]
      /\ overtaken' = overtaken \cup {u \in Upload : up[u] # Nil /\ up[u].at = "insert"}
      /\ told' = IF answered THEN told \cup {p} ELSE told
      /\ rows' = IF answered THEN [q \in Row |-> IF q = p THEN verdict ELSE StatusOf(q)] ELSE rows
  BY DEF Decide, Decidable, liff
<1>2. p \in Upload /\ payments[p] # Nil /\ p \notin told /\ verdict \in {"confirmed", "rejected"}
  BY <1>1 DEF PaysInv, PayFlowConstants, Decided
<1>3. bills' \in [Bill -> BillStatus]
  <2>1. up[p].by \in Tab /\ BillOf[up[p].by] \in Bill
    BY <1>2 DEF PaysInv, PayFlowConstants
  <2>2. PICK status : bills' = [bills EXCEPT ![BillOf[up[p].by]] = status]
                      /\ status \in IF verdict = "confirmed" THEN Settled(bills[BillOf[up[p].by]]) ELSE {bills[BillOf[up[p].by]]}
    BY DEF Decide
  <2>3. bills[BillOf[up[p].by]] \in BillStatus
    BY <2>1 DEF PaysInv, ApiTyped
  <2>4. status \in BillStatus
    BY <2>2, <2>3 DEF Settled, BillStatus
  <2> QED BY <2>2, <2>4 DEF PaysInv, ApiTyped
<1>4. /\ payments' \in [Upload -> Payment \cup {Nil}]
      /\ payments'[p] # Nil /\ payments'[p].status = verdict /\ payments'[p].slip = payments[p].slip
      /\ \A q \in Upload : q # p => payments'[q] = payments[q]
  BY <1>1, <1>2 DEF PaysInv, ApiTyped, Payment, PayFlowConstants
<1>5. ApiTyped' /\ LiffTyped'
  BY <1>1, <1>3, <1>4 DEF PaysInv, ApiTyped, LiffTyped
<1>6. \A q \in Row : StatusOf(q) \in {"pending", "confirmed", "rejected", Nil}
  BY DEF PaysInv, ApiTyped, StatusOf, Payment, PayFlowConstants
<1>7. DeskTyped'
  BY <1>1, <1>2, <1>6 DEF PaysInv, DeskTyped
<1>8. \A u \in Upload : UploadKnows(u)'
  <2> SUFFICES ASSUME NEW u \in Upload, up[u] # Nil PROVE UploadKnows(u)'
    BY <1>1 DEF UploadKnows
  <2>1. UploadKnows(u) /\ up'[u] = up[u]
    BY <1>1 DEF PaysInv
  <2>2. CASE up[u].at = "create"
    BY <1>2, <1>4, <2>1, <2>2 DEF UploadKnows
  <2>3. CASE up[u].at = "failed"
    BY <2>1, <2>3 DEF UploadKnows
  <2>4. CASE up[u].at = "mint"
    BY <2>1, <2>4 DEF UploadKnows
  <2>5. CASE up[u].at \notin {"create", "mint", "failed"}
    <3>1. up[u].payment \in Upload /\ PaymentOf(u) # Nil
      BY <2>1, <2>5 DEF UploadKnows
    <3>2. PaymentOf(u)' # Nil /\ PaymentOf(u)'.slip = PaymentOf(u).slip
      BY <1>1, <1>4, <3>1 DEF PaymentOf
    <3>3. up[u].at = "insert" => u \in overtaken'
      BY <1>1
    <3> QED BY <1>1, <2>1, <2>5, <3>1, <3>2, <3>3 DEF UploadKnows
  <2> QED BY <2>2, <2>3, <2>4, <2>5
<1>9. \A t \in Tab : tab'[t].page = "status" => Whole(t, tab[t].payment)'
  BY <1>1, <1>4 DEF PaysInv, Whole
<1>10. \A q \in told' : rows'[q] # "pending" /\ payments'[q] # Nil /\ payments'[q].status # "pending"
  BY <1>1, <1>2, <1>4 DEF PaysInv, DeskTyped, StatusOf, PayFlowConstants
<1>11. \A q \in Row : rows'[q] # Nil \/ view'[q].fetches > 0 => payments'[q] # Nil
  BY <1>1, <1>2, <1>4 DEF PaysInv, StatusOf, PayFlowConstants
<1>12. \A q \in Upload : payments'[q] # Nil => up'[q] # Nil /\ up'[q].by \in Tab
  BY <1>1, <1>2, <1>4 DEF PaysInv
<1>13. \A q \in Row : OneFetch(view[q])'
  BY <1>1 DEF PaysInv, OneFetch
<1> QED BY <1>1, <1>5, <1>7, <1>8, <1>9, <1>10, <1>11, <1>12, <1>13 DEF PaysInv

LEMMA PaysSame ==
    ASSUME PaysInv, UNCHANGED <<payments, bucket, up, token, stored, tab, rows, view, told, overtaken, unkept>>,
           bills' \in [Bill -> BillStatus]
    PROVE  PaysInv'
<1>1. ApiTyped' /\ LiffTyped' /\ DeskTyped'
  BY DEF PaysInv, ApiTyped, LiffTyped, DeskTyped
<1>2. \A u \in Upload : UploadKnows(u)'
  BY DEF PaysInv, UploadKnows, PaymentOf
<1>3. \A t \in Tab : tab'[t].page = "status" => Whole(t, tab[t].payment)'
  BY DEF PaysInv, Whole
<1>4. \A q \in Row : OneFetch(view[q])'
  BY DEF PaysInv, OneFetch
<1> QED BY <1>1, <1>2, <1>3, <1>4 DEF PaysInv

LEMMA PaysVoid == ASSUME PaysInv, NEW b \in Bill, Void(b) PROVE PaysInv'
<1>1. bills' \in [Bill -> BillStatus]
  BY DEF Void, PaysInv, ApiTyped, BillStatus
<1> QED BY <1>1, PaysSame DEF Void, liff, admin

LEMMA PaysStep == ASSUME PayFlowConstants, PaysInv, [PayNext]_(payVars) PROVE PaysInv'
<1> USE DEF PayFlowConstants
<1>1. CASE UNCHANGED payVars
  BY <1>1, PaysSame DEF payVars, PaysInv, ApiTyped
<1>2. ASSUME NEW t \in Tab, \/ \E where \in {"bill", "pay"} : Go(t, where)
                            \/ Reload(t) \/ Start(t) \/ Expire(t) \/ LoadBill(t)
                            \/ PollAnswered(t) \/ PollFails(t) \/ Reconnect(t)
                            \/ \E u \in Upload : Submit(t, u)
      PROVE  PaysInv'
  BY <1>2, PaysGo, PaysReload, PaysSession, PaysSubmit DEF PollAnswered, PollFails, Reconnect
<1>3. ASSUME NEW d \in Desk, NEW u \in Upload, NEW p \in Upload, SubmitAtDesk(d, u, p) PROVE PaysInv'
  BY <1>3, PaysAtDesk
<1>4. ASSUME NEW u \in Upload, Steps(u) \/ Arrive(u) PROVE PaysInv'
  BY <1>4, PaysCreate, PaysMint, PaysPut, PaysCheck, PaysInsert, PaysArrive DEF Steps
<1>5. CASE LoadRows
  BY <1>5, PaysRows
<1>6. ASSUME NEW p \in Row, \/ Toggle(p) \/ Fetched(p) \/ DecisionAborted(p)
                            \/ \E verdict \in Decided, answered \in BOOLEAN : Decide(p, verdict, answered)
      PROVE  PaysInv'
  BY <1>6, PaysRows, PaysPanel, PaysDecide
<1>7. ASSUME NEW b \in Bill, Void(b) PROVE PaysInv'
  BY <1>7, PaysVoid
<1> QED BY <1>1, <1>2, <1>3, <1>4, <1>5, <1>6, <1>7 DEF PayNext

LEMMA PaysAlways == ASSUME PayFlowConstants PROVE PaySpec => []PaysInv
BY PaysInit, PaysStep, PTL DEF PaySpec

(* No request of a tab or of a desk leaves a state of the flow that the     *)
(* model cannot name: every payment is one of an upload of a tab, and an    *)
(* upload past its first request has its payment (payment.service.ts,       *)
(* slip.service.ts, use-slip-upload.ts).                                    *)
THEOREM PaysTypeCorrect == PaySpec => []PayTypeOK
BY PayFlowAssumption, PaysAlways, PaysTyped, PTL

(* Both sides of a payment are shown what is so: the status page a payment   *)
(* that is whole, slip and bytes included, unless its registration was      *)
(* answered and not kept; the payments page no kept decision again that it  *)
(* was told of; an expanded row the slip, or that there is none            *)
(* (PaymentStatusPage.tsx, payments-list.tsx).                              *)
THEOREM PagesKeepTelling == PaySpec => []PagesTell
BY PayFlowAssumption, PaysAlways, PagesTelling, PTL

LEMMA SlipStep ==
    ASSUME PayFlowConstants, PaysInv, [PayNext]_(payVars), NEW p \in Made,
           payments'[p].slip # payments[p].slip
    PROVE  payments[p].slip = Nil /\ (payments[p].status = "pending" \/ payments'[p].slip \in overtaken)
<1>0. p \in Upload /\ payments[p] # Nil /\ payments[p] \in Payment
  BY DEF Made, PaysInv, ApiTyped
<1>1. CASE payments' = payments
  BY <1>1
<1>2. ASSUME NEW u \in Upload, Create(u), payments' # payments PROVE FALSE
  <2>1. payments' = [payments EXCEPT ![u] = [status |-> "pending", slip |-> Nil]] /\ payments[u] = Nil
    BY <1>2 DEF Create, PaysInv, UploadKnows
  <2> QED BY <1>0, <2>1 DEF PaysInv, ApiTyped
<1>3. ASSUME NEW u \in Upload, InsertSlip(u), payments' # payments
      PROVE  payments[p].slip = Nil /\ (payments[p].status = "pending" \/ payments'[p].slip \in overtaken)
  <2>1. /\ up[u] # Nil /\ up[u].at = "insert" /\ payments[up[u].payment].slip = Nil
        /\ payments' = [payments EXCEPT ![up[u].payment].slip = u]
    BY <1>3 DEF InsertSlip
  <2>2. p = up[u].payment
    BY <1>0, <2>1 DEF PaysInv, ApiTyped
  <2>3. payments'[p].slip = u
    BY <1>0, <2>1, <2>2 DEF PaysInv, ApiTyped, Payment
  <2>4. payments[p].status = "pending" \/ u \in overtaken
    BY <2>1, <2>2 DEF PaysInv, UploadKnows, PaymentOf
  <2> QED BY <2>1, <2>2, <2>3, <2>4
<1>4. ASSUME NEW q \in Row, NEW verdict, NEW answered, Decide(q, verdict, answered) PROVE FALSE
  <2>1. payments' = [payments EXCEPT ![q].status = verdict]
    BY <1>4 DEF Decide
  <2> QED BY <1>0, <2>1 DEF PaysInv, ApiTyped, Payment
<1>5. CASE UNCHANGED payVars
  BY <1>5 DEF payVars
<1>6. ASSUME NEW t \in Tab, \/ \E where \in {"bill", "pay"} : Go(t, where)
                            \/ Reload(t) \/ Start(t) \/ Expire(t) \/ LoadBill(t)
                            \/ PollAnswered(t) \/ PollFails(t) \/ Reconnect(t)
                            \/ \E u \in Upload : Submit(t, u)
      PROVE  payments' = payments
  BY <1>6 DEF Go, Reload, Start, Expire, LoadBill, PollAnswered, PollFails, Reconnect, Answers, FetchFails, Submit, api
<1>7. ASSUME NEW d \in Desk, NEW u \in Upload, NEW q \in Upload, SubmitAtDesk(d, u, q) PROVE payments' = payments
  BY <1>7 DEF SubmitAtDesk, api
<1>8. ASSUME NEW u \in Upload, Mint(u) \/ Put(u) \/ Check(u) \/ Arrive(u) PROVE payments' = payments
  BY <1>8 DEF Mint, Put, Check, Arrive, api
<1>9. ASSUME LoadRows \/ (\E q \in Row : Toggle(q) \/ Fetched(q) \/ DecisionAborted(q)) \/ (\E b \in Bill : Void(b))
      PROVE  payments' = payments
  BY <1>9 DEF LoadRows, Toggle, Fetched, DecisionAborted, Void, api
<1> QED BY <1>1, <1>2, <1>3, <1>4, <1>5, <1>6, <1>7, <1>8, <1>9 DEF PayNext, Steps

(* A payment takes one slip for good, while it was pending or in the gap of  *)
(* a registration that a decision came into (slip.service.ts).              *)
THEOREM SlipsStayFinal == PaySpec => SlipIsFinal
<1>1. PaysInv /\ [PayNext]_(payVars) =>
        [\A p \in Made : payments'[p].slip # payments[p].slip =>
            payments[p].slip = Nil /\ (payments[p].status = "pending" \/ payments'[p].slip \in overtaken)]_(payVars)
  BY PayFlowAssumption, SlipStep
<1> QED BY <1>1, PayFlowAssumption, PaysAlways, PTL DEF PaySpec, SlipIsFinal
=============================================================================
