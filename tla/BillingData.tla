---------------------------- MODULE BillingData ----------------------------
(***************************************************************************)
(* The immutable data of invoices and payments, and the pure functions of  *)
(* InvoiceService and PaymentService over it.  A row id stands for the row *)
(* a request would insert, so its foreign keys and its money are constants.*)
(***************************************************************************)
EXTENDS Integers, FiniteSets, FiniteSetsExt

CONSTANTS
    Invoice,     \* invoice rows that may come to exist
    SlotOf,      \* the (contract, period) an invoice row is for
    Total,       \* invoice.total, in satang; credit lines may make it <= 0
    Payment,     \* payment rows that may come to exist
    InvoiceOf,   \* payment.invoiceId
    Amount,      \* payment.amount, in satang
    Key,         \* Idempotency-Key header values
    None         \* SQL NULL

ASSUME NoneAssumption == None \notin Invoice \cup Payment \cup Key
ASSUME TotalAssumption == Total \in [Invoice -> Int]
ASSUME AmountAssumption == Amount \in [Payment -> Nat \ {0}]
ASSUME InvoiceOfAssumption == InvoiceOf \in [Payment -> Invoice]

InvoiceStatus == {"draft", "issued", "partially_paid", "paid", "void"}
PaymentStatus == {"pending", "confirmed", "rejected"}

(* A mutant: the draft check of PaymentService.create is missing. *)
PayableOrDraft == {"draft", "issued", "partially_paid", "paid"}

(* Statuses a payment may be created against. *)
Payable == {"issued", "partially_paid", "paid"}

(* The sum of the amounts of a set of payments. *)
Credit(S) == MapThenSumSet(LAMBDA p : Amount[p], S)

ConfirmedOn(i, ps) == {p \in Payment : InvoiceOf[p] = i /\ ps[p] = "confirmed"}

(* A mutant: the total has to be exceeded. *)
RollupAboveTotal(i, status, paid) ==
    IF Credit(paid) > Total[i] THEN "paid"
    ELSE IF Credit(paid) > 0 THEN "partially_paid"
    ELSE status

(* The status recomputeInvoiceStatus gives an invoice, from the status it   *)
(* read and the payments it found confirmed; nothing paid, nothing changed. *)
RollupStatus(i, status, paid) ==
    IF Credit(paid) >= Total[i] THEN "paid"
    ELSE IF Credit(paid) > 0 THEN "partially_paid"
    ELSE status

(* A mutant: an index WHERE status IN ('draft', 'issued'). *)
SlotTakenByOpen(i, st) ==
    \E j \in Invoice \ {i} : SlotOf[j] = SlotOf[i] /\ st[j] \in {"draft", "issued"}

(* Some other invoice occupies the slot: what the partial unique index on  *)
(* (contract_id, period) WHERE status <> 'void' refuses.                   *)
SlotTaken(i, st) ==
    \E j \in Invoice \ {i} : SlotOf[j] = SlotOf[i] /\ st[j] \notin {"absent", "void"}
=============================================================================
