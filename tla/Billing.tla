------------------------------ MODULE Billing ------------------------------
(***************************************************************************)
(* InvoiceService and PaymentService as the API runs them: every           *)
(* authenticated request is one Postgres transaction at READ COMMITTED     *)
(* (withTenant, opened by TenantContextInterceptor), and every await in a  *)
(* handler is a point where the statements of other requests take effect.  *)
(*                                                                         *)
(* One action is one SQL statement.  A read sees what is committed and the *)
(* request's own writes; a write locks the row until the request ends; no  *)
(* UPDATE repeats in its WHERE clause the status the handler has checked.  *)
(* A request may fail at any of its statements (transaction timeout, lost  *)
(* connection, API restart), which rolls all of it back.                   *)
(***************************************************************************)
EXTENDS BillingData

CONSTANTS
    Request,     \* slots for requests in flight; a slot is used again
    Overlap,     \* may two requests on one invoice be in flight together?
    AuditErrs    \* may the audit_log insert raise a Postgres error?

ASSUME FlagsAssumption == Overlap \in BOOLEAN /\ AuditErrs \in BOOLEAN

VARIABLES
    invStatus,   \* committed invoice.status
    payStatus,   \* committed payment.status
    payKey,      \* committed payment.idempotency_key
    tx,          \* the requests in flight
    jobs,        \* ids of the notification jobs in Redis
    confirmedEver,  \* history: payments whose confirmation was ever committed
    receipts     \* history: <<key, payment>> of every 2xx to POST /payments

db == <<invStatus, payStatus, payKey>>
history == <<confirmedEver, receipts>>
vars == <<db, tx, jobs, history>>

Op == {"create", "issue", "void", "patch", "pay", "confirm", "reject"}

(* The statement a request is about to execute. *)
Statement == {"updateInvoice", "precheckKey", "insertPayment", "lookupKey",
              "updatePayment", "readInvoice", "sumPayments", "rollup",
              "enqueue", "commit", "refuse"}

Jobs == {"invoice_issued", "payment_approved", "payment_rejected"} \X Invoice

(* A slot with no request in it. *)
Free == [op |-> "none", at |-> "none", inv |-> None, pay |-> None, key |-> None,
         seen |-> "none", invW |-> "none", payW |-> "none"]

(* A request: the rows it is about, the invoice status it read or derived,  *)
(* and the statuses it has written and not committed.                      *)
Requests == [op   : Op,
             at   : Statement,
             inv  : Invoice,
             pay  : Payment \cup {None},
             key  : Key \cup {None},
             seen : InvoiceStatus \cup {"none"},
             invW : InvoiceStatus \cup {"none"},
             payW : PaymentStatus \cup {"none"}]

TypeOK ==
    /\ invStatus \in [Invoice -> InvoiceStatus \cup {"absent"}]
    /\ payStatus \in [Payment -> PaymentStatus \cup {"absent"}]
    /\ payKey \in [Payment -> Key \cup {None}]
    /\ tx \in [Request -> Requests \cup {Free}]
    /\ jobs \subseteq Jobs
    /\ confirmedEver \subseteq Payment
    /\ receipts \subseteq Key \X Payment

Init ==
    /\ invStatus = [i \in Invoice |-> "absent"]
    /\ payStatus = [p \in Payment |-> "absent"]
    /\ payKey = [p \in Payment |-> None]
    /\ tx = [r \in Request |-> Free]
    /\ jobs = {}
    /\ confirmedEver = {}
    /\ receipts = {}

-----------------------------------------------------------------------------
(* Postgres: row locks, unique indexes and what a statement sees.          *)

InvoiceUnlocked(r, i) ==
    \A q \in Request \ {r} : tx[q].inv = i => tx[q].invW = "none"

(* A mutant: a read of the payment takes a lock that other readers share. *)
PaymentUnread(r, p) == \A q \in Request \ {r} : tx[q].pay # p

PaymentUnlocked(r, p) ==
    \A q \in Request \ {r} : tx[q].pay = p => tx[q].payW = "none"

(* An insert waits for an uncommitted row that may conflict with it. *)
KeyUnlocked(r, k) ==
    \A q \in Request \ {r} : tx[q].key = k => tx[q].payW # "pending"

SlotUnlocked(r, i) ==
    \A q \in Request \ {r} :
        tx[q].invW # "none" => SlotOf[tx[q].inv] # SlotOf[i]

PaymentWithKey(k) == {p \in Payment : payStatus[p] # "absent" /\ payKey[p] = k}

(* A mutant: the sum runs on a connection outside the transaction. *)
CommittedPayments(r) == [p \in Payment |-> payStatus[p]]

(* A mutant: READ UNCOMMITTED. *)
DirtyPayments(r) ==
    [p \in Payment |->
        IF \E q \in Request : tx[q].pay = p /\ tx[q].payW # "none"
        THEN tx[CHOOSE q \in Request : tx[q].pay = p /\ tx[q].payW # "none"].payW
        ELSE payStatus[p]]

(* payment.status as request r reads it. *)
PaymentsSeen(r) ==
    [p \in Payment |-> IF tx[r].pay = p /\ tx[r].payW # "none" THEN tx[r].payW
                       ELSE payStatus[p]]

-----------------------------------------------------------------------------
(* Request r becomes t; nothing is committed. *)
Become(r, t) ==
    /\ tx' = [tx EXCEPT ![r] = t]
    /\ UNCHANGED <<db, jobs, history>>

(* A handler's first statement starts the transaction. *)
Begin(r, t) ==
    /\ tx[r] = Free
    /\ Overlap \/ \A q \in Request : tx[q].inv # t.inv
    /\ Become(r, t)

On(op, i, p, k, at) ==
    [Free EXCEPT !.op = op, !.inv = i, !.pay = p, !.key = k, !.at = at]

(* The handler goes on to its next statement. *)
Goto(r, at) == Become(r, [tx[r] EXCEPT !.at = at])

(* UPDATE invoice SET status WHERE id.  A void row that gets another status *)
(* enters the partial unique index again, and may find its slot taken.     *)
WriteInvoice(r, status, next) ==
    LET i == tx[r].inv
        resurrected == invStatus[i] = "void" /\ status # "void"
    IN
    /\ InvoiceUnlocked(r, i)
    /\ resurrected => SlotUnlocked(r, i)
    /\ \/ /\ resurrected /\ SlotTaken(i, invStatus)
          /\ Goto(r, "refuse")
       \/ /\ ~ (resurrected /\ SlotTaken(i, invStatus))
          /\ Become(r, [tx[r] EXCEPT !.at = next, !.invW = status])

-----------------------------------------------------------------------------
(* InvoiceService.create: the insert of a draft, refused when the slot has *)
(* a live invoice.                                                         *)
CreateInvoice(r, i) ==
    /\ invStatus[i] = "absent"
    /\ \A q \in Request : tx[q].inv # i
    /\ SlotUnlocked(r, i)
    /\ Begin(r, IF SlotTaken(i, invStatus)
                THEN On("create", i, None, None, "refuse")
                ELSE [On("create", i, None, None, "commit") EXCEPT !.invW = "draft"])

(* InvoiceService.issue up to its UPDATE: issued is answered as it is, any *)
(* status but draft is refused.                                            *)
IssueInvoice(r, i) ==
    /\ invStatus[i] # "absent"
    /\ Begin(r, On("issue", i, None, None,
                   CASE invStatus[i] = "issued" -> "commit"
                     [] invStatus[i] = "draft"  -> "updateInvoice"
                     [] OTHER                   -> "refuse"))

(* InvoiceService.void up to its UPDATE: void is answered as it is, paid is *)
(* refused.                                                                *)
VoidInvoice(r, i) ==
    /\ invStatus[i] # "absent"
    /\ Begin(r, On("void", i, None, None,
                   CASE invStatus[i] = "void" -> "commit"
                     [] invStatus[i] = "paid" -> "refuse"
                     [] OTHER                 -> "updateInvoice"))

(* InvoiceService.update, which may only change dueDate: it rewrites the   *)
(* row and leaves the status as the row has it.                            *)
PatchInvoice(r, i) ==
    /\ invStatus[i] # "absent"
    /\ Begin(r, On("patch", i, None, None, "updateInvoice"))

UpdateInvoice(r) ==
    /\ tx[r].at = "updateInvoice"
    /\ \/ tx[r].op = "issue" /\ WriteInvoice(r, "issued", "enqueue")
       \/ tx[r].op = "void"  /\ WriteInvoice(r, "void", "commit")
       \/ tx[r].op = "patch" /\ WriteInvoice(r, invStatus[tx[r].inv], "commit")

-----------------------------------------------------------------------------
(* PaymentService.create: read the invoice, look the key up, insert under  *)
(* a savepoint, look the key up again when the insert hit a duplicate.     *)
CreatePayment(r, p, k) ==
    LET i == InvoiceOf[p] IN
    /\ payStatus[p] = "absent"
    /\ \A q \in Request : tx[q].pay # p
    /\ Begin(r, On("pay", i, p, k,
                   IF invStatus[i] \in Payable THEN "precheckKey" ELSE "refuse"))

PrecheckKey(r) ==
    /\ tx[r].at = "precheckKey"
    /\ \/ PaymentWithKey(tx[r].key) = {} /\ Goto(r, "insertPayment")
       \/ \E p \in PaymentWithKey(tx[r].key) :
            Become(r, [tx[r] EXCEPT !.at = "commit", !.pay = p])

(* A mutant: no unique index on (company_id, idempotency_key). *)
InsertUnchecked(r) ==
    /\ tx[r].at = "insertPayment"
    /\ Become(r, [tx[r] EXCEPT !.at = "commit", !.payW = "pending"])

InsertPayment(r) ==
    /\ tx[r].at = "insertPayment"
    /\ KeyUnlocked(r, tx[r].key)
    /\ \/ /\ PaymentWithKey(tx[r].key) = {}
          /\ Become(r, [tx[r] EXCEPT !.at = "commit", !.payW = "pending"])
       \/ /\ PaymentWithKey(tx[r].key) # {}
          /\ Goto(r, "lookupKey")

LookupKey(r) ==
    /\ tx[r].at = "lookupKey"
    /\ \E p \in PaymentWithKey(tx[r].key) :
            Become(r, [tx[r] EXCEPT !.at = "commit", !.pay = p])

-----------------------------------------------------------------------------
(* PaymentService.confirm and reject up to the UPDATE of the payment.      *)
ConfirmPayment(r, p) ==
    /\ payStatus[p] # "absent"
    /\ Begin(r, On("confirm", InvoiceOf[p], p, None,
                   CASE payStatus[p] = "confirmed" -> "commit"
                     [] payStatus[p] = "rejected"  -> "refuse"
                     [] OTHER                      -> "updatePayment"))

RejectPayment(r, p) ==
    /\ payStatus[p] # "absent"
    /\ Begin(r, On("reject", InvoiceOf[p], p, None,
                   CASE payStatus[p] = "rejected"  -> "commit"
                     [] payStatus[p] = "confirmed" -> "refuse"
                     [] OTHER                      -> "updatePayment"))

UpdatePayment(r) ==
    /\ tx[r].at = "updatePayment"
    /\ PaymentUnlocked(r, tx[r].pay)
    /\ \/ /\ tx[r].op = "confirm"
          /\ Become(r, [tx[r] EXCEPT !.at = "readInvoice", !.payW = "confirmed"])
       \/ /\ tx[r].op = "reject"
          /\ Become(r, [tx[r] EXCEPT !.at = "enqueue", !.payW = "rejected"])

(* PaymentService.recomputeInvoiceStatus, three statements: it skips a void *)
(* invoice, sums the confirmed payments, and writes a status that differs  *)
(* from the one it read.                                                   *)
ReadInvoice(r) ==
    LET status == invStatus[tx[r].inv] IN
    /\ tx[r].at = "readInvoice"
    /\ \/ status = "void" /\ Goto(r, "enqueue")
       \/ /\ status # "void"
          /\ Become(r, [tx[r] EXCEPT !.at = "sumPayments", !.seen = status])

SumPayments(r) ==
    LET i == tx[r].inv
        next == RollupStatus(i, tx[r].seen, ConfirmedOn(i, PaymentsSeen(r)))
    IN
    /\ tx[r].at = "sumPayments"
    /\ \/ next = tx[r].seen /\ Goto(r, "enqueue")
       \/ /\ next # tx[r].seen
          /\ Become(r, [tx[r] EXCEPT !.at = "rollup", !.seen = next])

WriteRollup(r) ==
    /\ tx[r].at = "rollup"
    /\ WriteInvoice(r, tx[r].seen, "enqueue")

-----------------------------------------------------------------------------
JobKind(op) ==
    CASE op = "issue"   -> "invoice_issued"
      [] op = "confirm" -> "payment_approved"
      [] op = "reject"  -> "payment_rejected"

(* NotificationService.enqueue: an id already in the queue is dropped, an  *)
(* error of Redis is swallowed.                                            *)
Enqueue(r) ==
    /\ tx[r].at = "enqueue"
    /\ jobs' \in {jobs, jobs \cup {<<JobKind(tx[r].op), tx[r].inv>>}}
    /\ tx' = [tx EXCEPT ![r] = [tx[r] EXCEPT !.at = "commit"]]
    /\ UNCHANGED <<db, history>>

(* The 2xx answers so far, and the one to r if it creates a payment. *)
Answered(r) ==
    receipts \cup {a \in Key \X Payment :
                     tx[r].op = "pay" /\ a = <<tx[r].key, tx[r].pay>>}

(* The audit row is in, the transaction commits and the client is answered. *)
Commit(r) ==
    LET t == tx[r] IN
    /\ t.at = "commit"
    /\ invStatus' = [i \in Invoice |-> IF t.inv = i /\ t.invW # "none" THEN t.invW
                                       ELSE invStatus[i]]
    /\ payStatus' = PaymentsSeen(r)
    /\ payKey' = [p \in Payment |-> IF t.pay = p /\ t.payW = "pending" THEN t.key
                                    ELSE payKey[p]]
    /\ confirmedEver' = confirmedEver \cup {p \in Payment : t.pay = p /\ t.payW = "confirmed"}
    /\ receipts' = Answered(r)
    /\ tx' = [tx EXCEPT ![r] = Free]
    /\ UNCHANGED jobs

(* The audit_log insert fails: AuditLogInterceptor swallows the error and  *)
(* lets the response go out, but Postgres has aborted the transaction, so  *)
(* COMMIT rolls it back.                                                   *)
CommitAborted(r) ==
    LET t == tx[r] IN
    /\ AuditErrs
    /\ t.at = "commit"
    /\ receipts' = Answered(r)
    /\ tx' = [tx EXCEPT ![r] = Free]
    /\ UNCHANGED <<db, jobs, confirmedEver>>

(* A refused request, one that throws, one whose transaction times out. *)
Rollback(r) ==
    /\ tx[r] # Free
    /\ Become(r, Free)

-----------------------------------------------------------------------------
Start(r) ==
    \/ \E i \in Invoice : \/ CreateInvoice(r, i)
                          \/ IssueInvoice(r, i)
                          \/ VoidInvoice(r, i)
                          \/ PatchInvoice(r, i)
    \/ \E p \in Payment : \/ ConfirmPayment(r, p)
                          \/ RejectPayment(r, p)
                          \/ \E k \in Key : CreatePayment(r, p, k)

(* The statements that wait for a row or a key another request has written. *)
Locking(r) == UpdateInvoice(r) \/ InsertPayment(r) \/ UpdatePayment(r) \/ WriteRollup(r)

Refused(r) == tx[r].at = "refuse" /\ Rollback(r)

Reading(r) == PrecheckKey(r) \/ LookupKey(r) \/ ReadInvoice(r) \/ SumPayments(r)

Ending(r) == Enqueue(r) \/ Commit(r) \/ CommitAborted(r) \/ Refused(r)

Next ==
    \E r \in Request : Start(r) \/ Reading(r) \/ Locking(r) \/ Ending(r) \/ Rollback(r)

Spec == Init /\ [][Next]_vars

(* A handler runs on: Node resumes an await that has its answer, and a lock *)
(* that is released goes to the request that waits longest (Postgres queues *)
(* lock waiters).  Nothing is assumed of Start and Rollback.               *)
Fairness ==
    \A r \in Request : WF_vars(Reading(r)) /\ SF_vars(Locking(r)) /\ WF_vars(Ending(r))

FairSpec == Spec /\ Fairness

-----------------------------------------------------------------------------
(* What the code guarantees however requests interleave.                   *)

(* The partial unique index against every writer of invoice.status: two    *)
(* creates, a void and its replacement, a late rollup that brings a void   *)
(* invoice back: a slot never has two live invoices.                       *)
OneLiveInvoicePerSlot ==
    \A i, j \in Invoice :
        /\ SlotOf[i] = SlotOf[j]
        /\ invStatus[i] \notin {"absent", "void"}
        /\ invStatus[j] \notin {"absent", "void"}
        => i = j

(* payment.service.ts:20-28, the idempotency contract: one key makes one   *)
(* payment row, whoever inserts it and whoever loses the race to.          *)
OneRowPerKey ==
    \A p, q \in Payment :
        /\ payStatus[p] # "absent" /\ payStatus[q] # "absent"
        /\ payKey[p] = payKey[q]
        => p = q

(* Every client that sent the key was answered with that row, whether it   *)
(* inserted, found the row first, or lost the race.                        *)
RepliesStand == \A a \in receipts : payStatus[a[2]] # "absent" /\ payKey[a[2]] = a[1]

(* Both: a retry with the same key is as good as the first answer.         *)
IdempotentCreate == OneRowPerKey /\ RepliesStand

(* The issue gate, which a payment may pass only once the tenant has been  *)
(* sent the bill: a draft has no payment, so a rollup never skips issue.   *)
NoPaymentOnDraft ==
    \A p \in Payment : payStatus[p] # "absent" =>
        invStatus[InvoiceOf[p]] \notin {"absent", "draft"}

(* A draft becomes a bill only by being issued (or is voided), and a bill  *)
(* never becomes a draft again.                                            *)
DraftOnlyIssuedOrVoided ==
    [][\A i \in Invoice :
        /\ invStatus[i] = "draft" => invStatus'[i] \in {"draft", "issued", "void"}
        /\ invStatus'[i] = "draft" => invStatus[i] \in {"absent", "draft"}]_vars

(* An invoice is paid, or partially paid, only with payments an admin did  *)
(* confirm: no order of statements credits money that a request rolled     *)
(* back, was rejected before it was confirmed, or is another invoice's.    *)
Earned(i, status, S) ==
    \E T \in SUBSET {p \in S : InvoiceOf[p] = i} :
        IF status = "paid" THEN Credit(T) >= Total[i] ELSE Credit(T) > 0

StatusIsEarned ==
    \A i \in Invoice : invStatus[i] \in {"paid", "partially_paid"} =>
        Earned(i, invStatus[i], confirmedEver)

(* Nobody waits for ever: the order in which handlers take their locks     *)
(* (payment before invoice, one of each) has no cycle, so every request is *)
(* answered or refused although none is ever rolled back by a timeout.     *)
EveryRequestEnds == \A r \in Request : tx[r] # Free ~> tx[r] = Free

-----------------------------------------------------------------------------
(* What the comments of the services promise on top.  The services         *)
(* implement IdealBilling as long as requests on one invoice do not        *)
(* overlap; when they do, nothing of this section holds.                   *)

Ideal ==
    INSTANCE IdealBilling WITH invStatus <- invStatus, payStatus <- payStatus, payKey <- payKey

(* Every commit of a request is one step of IdealBilling and no other      *)
(* statement is seen: the statements of a handler, its rollback and its    *)
(* idempotent answers add up to the operation the service is meant to be.  *)
ImplementsIdeal == Ideal!Spec

(* payment.service.ts:30-36: outside a request, the status of an invoice   *)
(* that is not void is exactly what its confirmed payments add up to.      *)
RollupAgrees == Ideal!RollupAgrees

(* payment.service.ts:32-36: paid_total >= invoice.total makes the invoice *)
(* paid, and the rollup can never disagree with the payment rows.          *)
FullyPaidIsPaid ==
    \A i \in Invoice : invStatus[i] = "partially_paid" =>
        Credit(ConfirmedOn(i, payStatus)) < Total[i]

(* payment.service.ts:15-17: once confirmed or rejected, no further        *)
(* transitions.                                                            *)
DecidedIsFinal ==
    [][\A p \in Payment :
        payStatus[p] \in {"confirmed", "rejected"} => payStatus'[p] = payStatus[p]]_vars

(* payment.service.ts:369-371: a race never flips a void invoice back to   *)
(* paid.                                                                   *)
VoidNeverPaid ==
    [][\A i \in Invoice :
        invStatus[i] = "void" => invStatus'[i] \notin {"paid", "partially_paid"}]_vars

(* payment.service.ts:42-43: a payment cannot be confirmed when its        *)
(* invoice is void.                                                        *)
NoConfirmOnVoid ==
    [][\A p \in Payment :
        payStatus[p] = "pending" /\ payStatus'[p] = "confirmed"
            => invStatus[InvoiceOf[p]] # "void"]_vars

(* payment.service.ts:307-309 and invoice.service.ts:369-370: nothing is   *)
(* pushed for a change that rolled back; a queued approval has its payment *)
(* confirmed, or about to be by a request that is still in flight.         *)
NoPushForRolledBack ==
    \A job \in jobs : job[1] = "payment_approved" =>
        \/ \E p \in confirmedEver : InvoiceOf[p] = job[2]
        \/ \E r \in Request : tx[r].op = "confirm" /\ tx[r].inv = job[2]

(* audit-log.interceptor.ts:49-50: a failing audit insert does not fail    *)
(* the user's action: whoever was answered 2xx has a payment row.          *)
AnsweredIsCommitted == \A a \in receipts : payStatus[a[2]] # "absent"
=============================================================================
