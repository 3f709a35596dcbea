-------------------------- MODULE BillingInvariant --------------------------
(***************************************************************************)
(* The inductive invariant behind the safety properties of Billing: what   *)
(* the local state of a request in flight says of the committed rows, and  *)
(* who holds which lock.  BillingProofs proves it.                         *)
(***************************************************************************)
EXTENDS Billing

Sent(i) == invStatus[i] \notin {"absent", "draft"}

Live(i) == invStatus[i] \notin {"absent", "void"}

(* A payment request that has not found its key, and so owns a new row id. *)
Inserting(t) ==
    /\ t.op = "pay"
    /\ t.at \in {"precheckKey", "insertPayment", "lookupKey"} \/ t.payW = "pending"

(* Each statement belongs to one kind of request, which is about rows that *)
(* exist (or, for an insert, do not yet) and writes only certain statuses. *)
StatementFits(t) ==
    /\ t.at = "updateInvoice" => t.op \in {"issue", "void", "patch"}
    /\ t.at \in {"precheckKey", "insertPayment", "lookupKey"}
           => t.op = "pay" /\ t.payW = "none"
    /\ t.at = "updatePayment" => t.op \in {"confirm", "reject"}
    /\ t.at \in {"readInvoice", "sumPayments", "rollup"}
           => t.op = "confirm" /\ t.payW = "confirmed"
    /\ t.at \in {"sumPayments", "rollup"} => t.seen \in InvoiceStatus \ {"draft"}
    /\ t.at = "enqueue" => t.op \in {"issue", "confirm", "reject"}

RowsFit(t) ==
    /\ t.op \in {"issue", "void", "patch"} => invStatus[t.inv] # "absent"
    /\ t.op = "create" /\ t.invW # "none" => invStatus[t.inv] = "absent"
    /\ t.op \in {"confirm", "reject"} =>
          /\ t.pay \in Payment
          /\ payStatus[t.pay] # "absent"
          /\ t.inv = InvoiceOf[t.pay]
          /\ t.payW # "pending"
    /\ t.op = "pay" =>
          /\ t.pay \in Payment
          /\ t.key \in Key
          /\ t.payW \in {"none", "pending"}
          /\ Inserting(t) => t.inv = InvoiceOf[t.pay] /\ payStatus[t.pay] = "absent"
          /\ t.at # "refuse" => Sent(t.inv)

WritesFit(t) ==
    /\ t.op \in {"create", "issue", "void", "patch"} => t.payW = "none"
    /\ t.op \in {"pay", "reject"} => t.invW = "none"
    /\ t.op = "create" => t.invW \in {"none", "draft"}
    /\ t.op = "issue"  => t.invW \in {"none", "issued"}
    /\ t.op = "void"   => t.invW \in {"none", "void"}
    /\ t.op = "patch"  => t.invW \in {"none", invStatus[t.inv]}
    /\ t.op = "confirm" => t.invW # "draft"

RequestFits(t) == StatementFits(t) /\ RowsFit(t) /\ WritesFit(t)

(* Two requests never hold the same lock, or the same new row. *)
LocksExclusive ==
    \A q, r \in Request : q # r =>
        /\ Inserting(tx[q]) => tx[q].pay # tx[r].pay
        /\ tx[q].invW # "none" /\ tx[r].invW # "none" => tx[q].inv # tx[r].inv
        /\ tx[q].payW # "none" /\ tx[r].payW # "none" =>
              /\ tx[q].pay # tx[r].pay
              /\ tx[q].payW = "pending" /\ tx[r].payW = "pending" => tx[q].key # tx[r].key

CoreInv ==
    /\ TypeOK
    /\ \A r \in Request : RequestFits(tx[r])
    /\ LocksExclusive
    /\ NoPaymentOnDraft

(* A request that has brought its invoice to life, by inserting it or by   *)
(* giving a void row another status, has the slot to itself.               *)
SlotHeld ==
    \A r \in Request : LET i == tx[r].inv IN
        tx[r].invW \notin {"none", "void"} /\ ~ Live(i) =>
            /\ \A j \in Invoice \ {i} : SlotOf[j] = SlotOf[i] => ~ Live(j)
            /\ \A q \in Request \ {r} :
                  tx[q].invW \notin {"none", "void"} => SlotOf[tx[q].inv] # SlotOf[i]

SlotInv == OneLiveInvoicePerSlot /\ SlotHeld

(* A payment request that has inserted is the first with its key; one that *)
(* will not insert is about the payment its key already has.               *)
PayRequests ==
    \A r \in Request : LET t == tx[r] IN t.op = "pay" =>
        /\ t.payW = "pending" => PaymentWithKey(t.key) = {}
        /\ t.at = "commit" /\ t.payW = "none"
              => payStatus[t.pay] # "absent" /\ payKey[t.pay] = t.key

PayInv == OneRowPerKey /\ (~ AuditErrs => RepliesStand) /\ PayRequests

(* The status a request has derived or written is paid for by payments     *)
(* that are confirmed, or that it confirms itself when it commits.         *)
Confirming(r) == {p \in Payment : tx[r].pay = p /\ tx[r].payW = "confirmed"}

DerivedIsEarned ==
    \A r \in Request : LET t == tx[r] IN
        /\ t.at = "rollup" /\ t.seen \in {"paid", "partially_paid"}
              => Earned(t.inv, t.seen, confirmedEver \cup Confirming(r))
        /\ t.invW \in {"paid", "partially_paid"}
              => Earned(t.inv, t.invW, confirmedEver \cup Confirming(r))

ConfirmedIsRecorded ==
    \A p \in Payment : payStatus[p] = "confirmed" => p \in confirmedEver

EarnedInv == StatusIsEarned /\ DerivedIsEarned /\ ConfirmedIsRecorded

-----------------------------------------------------------------------------
(* When requests on one invoice do not overlap, what a handler has read    *)
(* stands until it commits.                                                *)
Alone ==
    \A q, r \in Request : q # r /\ tx[q] # Free /\ tx[r] # Free => tx[q].inv # tx[r].inv

InvoiceStands(t) ==
    LET writes == t.at = "updateInvoice" \/ t.invW # "none" IN
    /\ t.op = "issue" /\ writes => invStatus[t.inv] = "draft"
    /\ t.op = "void" /\ writes => invStatus[t.inv] \notin {"void", "paid"}
    /\ Inserting(t) => invStatus[t.inv] # "void"

PaymentStands(t) ==
    /\ t.op \in {"confirm", "reject"} /\ (t.at = "updatePayment" \/ t.payW # "none")
          => payStatus[t.pay] = "pending"
    /\ t.op = "confirm" => t.payW # "rejected"
    /\ t.op = "reject" => t.payW # "confirmed"
    /\ t.payW = "pending" => PaymentWithKey(t.key) = {}

(* The status of its invoice with the payment that t confirms.             *)
Due(t) ==
    RollupStatus(t.inv, invStatus[t.inv],
                 ConfirmedOn(t.inv, [payStatus EXCEPT ![t.pay] = "confirmed"]))

RollupStands(t) ==
    t.op = "confirm" =>
        /\ t.payW = "none" \/ t.at \in {"updatePayment", "readInvoice", "sumPayments", "rollup"}
              => t.invW = "none"
        /\ t.at \in {"sumPayments", "rollup"} => invStatus[t.inv] # "void"
        /\ t.at = "sumPayments" => t.seen = invStatus[t.inv]
        /\ t.at = "rollup" => t.seen = Due(t)
        /\ t.at \in {"enqueue", "commit"} /\ t.payW = "confirmed" =>
              \/ t.invW = "none" /\ invStatus[t.inv] \in {"void", Due(t)}
              \/ t.invW = Due(t) /\ invStatus[t.inv] # "void"

Stands(t) == InvoiceStands(t) /\ PaymentStands(t) /\ RollupStands(t)

SerialInv == Alone /\ \A r \in Request : Stands(tx[r])

(* The committed rows agree, and only finitely many payments are confirmed. *)
AgreeInv == RollupAgrees /\ IsFiniteSet({p \in Payment : payStatus[p] = "confirmed"})
=============================================================================
