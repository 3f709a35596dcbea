---------------------------- MODULE IdealBilling ----------------------------
(***************************************************************************)
(* What the billing services promise, with every request executed in one   *)
(* indivisible step: the state machines of InvoiceService and              *)
(* PaymentService as their guards and assignments describe them when       *)
(* nothing else touches the same invoice between the first read of a       *)
(* handler and its commit.  Billing.tla has the same operations broken     *)
(* into the SQL statements they issue; it implements this module as long   *)
(* as requests on one invoice do not overlap.                              *)
(***************************************************************************)
EXTENDS BillingData

VARIABLES
    invStatus,   \* invoice.status, "absent" before the row is inserted
    payStatus,   \* payment.status, "absent" before the row is inserted
    payKey       \* payment.idempotency_key

vars == <<invStatus, payStatus, payKey>>

TypeOK ==
    /\ invStatus \in [Invoice -> InvoiceStatus \cup {"absent"}]
    /\ payStatus \in [Payment -> PaymentStatus \cup {"absent"}]
    /\ payKey \in [Payment -> Key \cup {None}]

-----------------------------------------------------------------------------
KeyUsed(k) == \E p \in Payment : payStatus[p] # "absent" /\ payKey[p] = k

-----------------------------------------------------------------------------
Init ==
    /\ invStatus = [i \in Invoice |-> "absent"]
    /\ payStatus = [p \in Payment |-> "absent"]
    /\ payKey = [p \in Payment |-> None]

CreateInvoice(i) ==
    /\ invStatus[i] = "absent"
    /\ ~ SlotTaken(i, invStatus)
    /\ invStatus' = [invStatus EXCEPT ![i] = "draft"]
    /\ UNCHANGED <<payStatus, payKey>>

IssueInvoice(i) ==
    /\ invStatus[i] = "draft"
    /\ invStatus' = [invStatus EXCEPT ![i] = "issued"]
    /\ UNCHANGED <<payStatus, payKey>>

VoidInvoice(i) ==
    /\ invStatus[i] \in {"draft", "issued", "partially_paid"}
    /\ invStatus' = [invStatus EXCEPT ![i] = "void"]
    /\ UNCHANGED <<payStatus, payKey>>

CreatePayment(p, k) ==
    /\ payStatus[p] = "absent"
    /\ invStatus[InvoiceOf[p]] \in Payable
    /\ ~ KeyUsed(k)
    /\ payStatus' = [payStatus EXCEPT ![p] = "pending"]
    /\ payKey' = [payKey EXCEPT ![p] = k]
    /\ UNCHANGED invStatus

ConfirmPayment(p) ==
    LET i == InvoiceOf[p] IN
    /\ payStatus[p] = "pending"
    /\ payStatus' = [payStatus EXCEPT ![p] = "confirmed"]
    /\ invStatus' = IF invStatus[i] = "void" THEN invStatus
                    ELSE [invStatus EXCEPT
                            ![i] = RollupStatus(i, @, ConfirmedOn(i, payStatus'))]
    /\ UNCHANGED payKey

RejectPayment(p) ==
    /\ payStatus[p] = "pending"
    /\ payStatus' = [payStatus EXCEPT ![p] = "rejected"]
    /\ UNCHANGED <<invStatus, payKey>>

Next ==
    \/ \E i \in Invoice : CreateInvoice(i) \/ IssueInvoice(i) \/ VoidInvoice(i)
    \/ \E p \in Payment : ConfirmPayment(p) \/ RejectPayment(p)
    \/ \E p \in Payment, k \in Key : CreatePayment(p, k)

Spec == Init /\ [][Next]_vars

-----------------------------------------------------------------------------
(* payment.service.ts:30-36: the status of a live invoice is exactly what  *)
(* its confirmed payments add up to.                                       *)
RollupAgrees ==
    \A i \in Invoice : invStatus[i] \notin {"absent", "void"} =>
        LET confirmed == ConfirmedOn(i, payStatus) IN
        IF confirmed = {} THEN invStatus[i] \in {"draft", "issued"}
        ELSE invStatus[i] = IF Credit(confirmed) >= Total[i] THEN "paid"
                            ELSE "partially_paid"
=============================================================================
