--------------------------- MODULE BillingProofs ---------------------------
(***************************************************************************)
(* The safety properties of Billing, for any number of invoices, payments, *)
(* keys and requests in flight.                                            *)
(***************************************************************************)
EXTENDS BillingInvariant, FiniteSetTheorems, WellFoundedInduction, TLAPS

-----------------------------------------------------------------------------
(* A step that commits nothing: request r becomes t, which takes only free *)
(* locks, and shares a payment row that is not inserted yet with nobody.   *)
TakesFreeLocks(r, t) ==
    /\ t.invW # "none" => InvoiceUnlocked(r, t.inv)
    /\ t.payW # "none" => PaymentUnlocked(r, t.pay)
    /\ t.payW = "pending" => KeyUnlocked(r, t.key)

RowIsOwn(r, t) ==
    \A q \in Request \ {r} :
        Inserting(t) \/ Inserting(tx[q]) => tx[q].pay # t.pay

(* Who is about no payment, or about one that exists, disturbs no insert. *)
LEMMA NotInserting ==
  ASSUME CoreInv, NEW r \in Request, NEW t, ~ Inserting(t),
         t.pay = None \/ (t.pay \in Payment /\ payStatus[t.pay] # "absent")
  PROVE  RowIsOwn(r, t)
<1> SUFFICES ASSUME NEW q \in Request, Inserting(tx[q]) PROVE tx[q].pay # t.pay
  BY DEF RowIsOwn
<1>1. tx[q].pay \in Payment /\ payStatus[tx[q].pay] = "absent"
  BY DEF CoreInv, RequestFits, RowsFit, Inserting
<1>2. QED BY <1>1, NoneAssumption

LEMMA FreeFits ==
  /\ RequestFits(Free) /\ ~ Inserting(Free) /\ Free.pay = None
  /\ \A r : TakesFreeLocks(r, Free)
BY DEF RequestFits, StatementFits, RowsFit, WritesFit, Inserting, Free, TakesFreeLocks

LEMMA LocalStep ==
  ASSUME CoreInv, NEW r \in Request, NEW t \in Requests \cup {Free},
         tx' = [tx EXCEPT ![r] = t],
         UNCHANGED <<db, confirmedEver>>,
         jobs' \subseteq Jobs, receipts' \subseteq Key \X Payment,
         RequestFits(t), TakesFreeLocks(r, t), RowIsOwn(r, t)
  PROVE  CoreInv'
<1> USE DEF CoreInv, db
<1>1. TypeOK'
  BY DEF TypeOK
<1>2. /\ tx'[r] = t
      /\ \A q \in Request \ {r} : tx'[q] = tx[q]
  BY DEF TypeOK
<1>3. ASSUME NEW q \in Request PROVE RequestFits(tx[q])'
  <2>1. CASE q = r
    BY <1>2, <2>1 DEF RequestFits, StatementFits, RowsFit, WritesFit, Sent, Inserting
  <2>2. CASE q # r
    BY <1>2, <2>2 DEF RequestFits, StatementFits, RowsFit, WritesFit, Sent, Inserting
  <2>3. QED BY <2>1, <2>2
<1>4. LocksExclusive'
  <2>1. ASSUME NEW q \in Request, NEW p \in Request, q # p, Inserting(tx[q])'
        PROVE  (tx[q].pay # tx[p].pay)'
    BY <1>2, <2>1 DEF LocksExclusive, RowIsOwn, Inserting
  <2>2. QED
    BY <1>2, <2>1 DEF LocksExclusive, TakesFreeLocks, InvoiceUnlocked, PaymentUnlocked,
                      KeyUnlocked
<1>5. NoPaymentOnDraft'
  BY DEF NoPaymentOnDraft
<1>6. QED BY <1>1, <1>3, <1>4, <1>5

(* A request that writes nothing new keeps the locks and the row it has. *)
LEMMA KeptLocks ==
  ASSUME CoreInv, NEW r \in Request, NEW t,
         t.inv = tx[r].inv, t.pay = tx[r].pay, t.key = tx[r].key,
         t.invW = tx[r].invW, t.payW = tx[r].payW
  PROVE  TakesFreeLocks(r, t)
BY DEF CoreInv, LocksExclusive, TakesFreeLocks, InvoiceUnlocked, PaymentUnlocked, KeyUnlocked

LEMMA KeptRow ==
  ASSUME CoreInv, NEW r \in Request, NEW t,
         t.pay = tx[r].pay, Inserting(t) => Inserting(tx[r])
  PROVE  RowIsOwn(r, t)
BY DEF CoreInv, LocksExclusive, RowIsOwn

-----------------------------------------------------------------------------
LEMMA CoreInit == Init => CoreInv
<1> SUFFICES ASSUME Init PROVE CoreInv
  OBVIOUS
<1>1. TypeOK
  BY DEF Init, TypeOK
<1>2. \A r \in Request : RequestFits(tx[r])
  BY FreeFits DEF Init
<1>3. LocksExclusive /\ NoPaymentOnDraft
  BY DEF Init, LocksExclusive, NoPaymentOnDraft, Free, Inserting
<1>4. QED BY <1>1, <1>2, <1>3 DEF CoreInv

LEMMA BusyRequest ==
  ASSUME TypeOK, NEW r \in Request, tx[r].op # "none" \/ tx[r].at # "none"
  PROVE  tx[r] \in Requests
BY DEF TypeOK, Free

(* Beginning a request: it holds no lock, unless it inserts a draft.        *)
LEMMA CoreBeginInvoice ==
  ASSUME CoreInv, NEW r \in Request, NEW i \in Invoice,
         \/ CreateInvoice(r, i) \/ IssueInvoice(r, i) \/ VoidInvoice(r, i)
         \/ PatchInvoice(r, i)
  PROVE  CoreInv'
<1> USE DEF Begin, Become, On, db, history
<1>1. CASE CreateInvoice(r, i)
  <2> PICK t : /\ Become(r, t)
               /\ \/ t = On("create", i, None, None, "refuse")
                  \/ t = [On("create", i, None, None, "commit") EXCEPT !.invW = "draft"]
    BY <1>1 DEF CreateInvoice
  <2>1. t \in Requests
    BY DEF Free, Requests, Op, Statement, InvoiceStatus
  <2>2. RequestFits(t)
    BY <1>1 DEF CreateInvoice, Free, RequestFits, StatementFits, RowsFit, WritesFit
  <2>3. TakesFreeLocks(r, t)
    BY <1>1 DEF CreateInvoice, InvoiceUnlocked, Free, TakesFreeLocks
  <2>4. RowIsOwn(r, t)
    BY NotInserting DEF Free, Inserting
  <2> QED BY <2>1, <2>2, <2>3, <2>4, LocalStep DEF CoreInv, TypeOK
<1>2. CASE IssueInvoice(r, i)
  <2> PICK a \in {"commit", "updateInvoice", "refuse"} :
         Become(r, On("issue", i, None, None, a))
    BY <1>2 DEF IssueInvoice
  <2> DEFINE t == On("issue", i, None, None, a)
  <2>1. t \in Requests /\ RequestFits(t) /\ TakesFreeLocks(r, t)
    BY <1>2 DEF IssueInvoice, Free, Requests, Op, Statement, RequestFits, StatementFits,
           RowsFit, WritesFit, TakesFreeLocks
  <2>2. ~ Inserting(t) /\ t.pay = None
    BY DEF Free, Inserting
  <2>3. RowIsOwn(r, t)
    BY ONLY <2>2, CoreInv, r \in Request, NotInserting
  <2> QED BY <2>1, <2>3, LocalStep DEF CoreInv, TypeOK
<1>3. CASE VoidInvoice(r, i)
  <2> PICK a \in {"commit", "updateInvoice", "refuse"} :
         Become(r, On("void", i, None, None, a))
    BY <1>3 DEF VoidInvoice
  <2> DEFINE t == On("void", i, None, None, a)
  <2>1. t \in Requests /\ RequestFits(t) /\ TakesFreeLocks(r, t)
    BY <1>3 DEF VoidInvoice, Free, Requests, Op, Statement, RequestFits, StatementFits,
           RowsFit, WritesFit, TakesFreeLocks
  <2>2. ~ Inserting(t) /\ t.pay = None
    BY DEF Free, Inserting
  <2>3. RowIsOwn(r, t)
    BY ONLY <2>2, CoreInv, r \in Request, NotInserting
  <2> QED BY <2>1, <2>3, LocalStep DEF CoreInv, TypeOK
<1>4. CASE PatchInvoice(r, i)
  <2> PICK a \in {"commit", "updateInvoice", "refuse"} :
         Become(r, On("patch", i, None, None, a))
    BY <1>4 DEF PatchInvoice
  <2> DEFINE t == On("patch", i, None, None, a)
  <2>1. t \in Requests /\ RequestFits(t) /\ TakesFreeLocks(r, t)
    BY <1>4 DEF PatchInvoice, Free, Requests, Op, Statement, RequestFits, StatementFits,
           RowsFit, WritesFit, TakesFreeLocks
  <2>2. ~ Inserting(t) /\ t.pay = None
    BY DEF Free, Inserting
  <2>3. RowIsOwn(r, t)
    BY ONLY <2>2, CoreInv, r \in Request, NotInserting
  <2> QED BY <2>1, <2>3, LocalStep DEF CoreInv, TypeOK
<1> QED BY <1>1, <1>2, <1>3, <1>4

LEMMA CoreBeginPayment ==
  ASSUME CoreInv, NEW r \in Request, NEW p \in Payment,
         \/ ConfirmPayment(r, p) \/ RejectPayment(r, p)
         \/ \E k \in Key : CreatePayment(r, p, k)
  PROVE  CoreInv'
<1> USE InvoiceOfAssumption DEF Begin, Become, On, db, history
<1>1. ASSUME NEW k \in Key, CreatePayment(r, p, k) PROVE CoreInv'
  <2> PICK a \in {"precheckKey", "refuse"} :
         /\ Become(r, On("pay", InvoiceOf[p], p, k, a))
         /\ a = "precheckKey" => invStatus[InvoiceOf[p]] \in Payable
    BY <1>1 DEF CreatePayment
  <2> DEFINE t == On("pay", InvoiceOf[p], p, k, a)
  <2>1. t \in Requests /\ TakesFreeLocks(r, t)
    BY DEF Free, Requests, Op, Statement, TakesFreeLocks
  <2>2. RequestFits(t)
    BY <1>1 DEF CreatePayment, Payable, Sent, Free, RequestFits, StatementFits, RowsFit,
                WritesFit, Inserting
  <2>3. RowIsOwn(r, t)
    BY <1>1 DEF CreatePayment, RowIsOwn, Free
  <2> QED BY <2>1, <2>2, <2>3, LocalStep DEF CoreInv, TypeOK
<1>2. CASE ConfirmPayment(r, p)
  <2> PICK a \in {"commit", "updatePayment", "refuse"} :
         Become(r, On("confirm", InvoiceOf[p], p, None, a))
    BY <1>2 DEF ConfirmPayment
  <2> DEFINE t == On("confirm", InvoiceOf[p], p, None, a)
  <2>1. t \in Requests /\ RequestFits(t) /\ TakesFreeLocks(r, t)
    BY <1>2 DEF ConfirmPayment, Free, Requests, Op, Statement, RequestFits, StatementFits,
           RowsFit, WritesFit, TakesFreeLocks
  <2>2. ~ Inserting(t) /\ t.pay = p /\ payStatus[p] # "absent"
    BY <1>2 DEF ConfirmPayment, Free, Inserting
  <2>3. RowIsOwn(r, t)
    BY ONLY <2>2, CoreInv, r \in Request, p \in Payment, NotInserting
  <2> QED BY <2>1, <2>3, LocalStep DEF CoreInv, TypeOK
<1>3. CASE RejectPayment(r, p)
  <2> PICK a \in {"commit", "updatePayment", "refuse"} :
         Become(r, On("reject", InvoiceOf[p], p, None, a))
    BY <1>3 DEF RejectPayment
  <2> DEFINE t == On("reject", InvoiceOf[p], p, None, a)
  <2>1. t \in Requests /\ RequestFits(t) /\ TakesFreeLocks(r, t)
    BY <1>3 DEF RejectPayment, Free, Requests, Op, Statement, RequestFits, StatementFits,
           RowsFit, WritesFit, TakesFreeLocks
  <2>2. ~ Inserting(t) /\ t.pay = p /\ payStatus[p] # "absent"
    BY <1>3 DEF RejectPayment, Free, Inserting
  <2>3. RowIsOwn(r, t)
    BY ONLY <2>2, CoreInv, r \in Request, p \in Payment, NotInserting
  <2> QED BY <2>1, <2>3, LocalStep DEF CoreInv, TypeOK
<1> QED BY <1>1, <1>2, <1>3

(* The UPDATE of an invoice by a request entitled to write that status.     *)
LEMMA CoreWriteInvoice ==
  ASSUME CoreInv, NEW r \in Request, tx[r] \in Requests,
         NEW status \in InvoiceStatus, NEW next \in {"enqueue", "commit"},
         WriteInvoice(r, status, next),
         tx[r].at \in {"updateInvoice", "rollup"},
         WritesFit([tx[r] EXCEPT !.invW = status]),
         next = "enqueue" => tx[r].op \in {"issue", "confirm"}
  PROVE  CoreInv'
<1> USE DEF Become, Goto, db, history
<1> DEFINE refused == [tx[r] EXCEPT !.at = "refuse"]
           written == [tx[r] EXCEPT !.at = next, !.invW = status]
<1>0. RequestFits(tx[r]) /\ tx[r].op # "pay"
  BY DEF CoreInv, RequestFits, StatementFits
<1>1. CASE Become(r, refused)
  <2>1. refused \in Requests /\ RequestFits(refused) /\ TakesFreeLocks(r, refused)
    BY <1>0, KeptLocks DEF Requests, Statement, RequestFits, StatementFits, RowsFit,
                           WritesFit, Inserting
  <2>2. RowIsOwn(r, refused)
    BY <1>0, KeptRow DEF Requests, Inserting
  <2> QED BY <1>1, <2>1, <2>2, LocalStep DEF CoreInv, TypeOK
<1>2. CASE Become(r, written) /\ InvoiceUnlocked(r, tx[r].inv)
  <2>1. written \in Requests
    BY DEF Requests, Statement
  <2>2. RequestFits(written)
    BY <1>0 DEF Requests, RequestFits, StatementFits, RowsFit, WritesFit, Inserting
  <2>3. TakesFreeLocks(r, tx[r])
    BY KeptLocks
  <2>4. TakesFreeLocks(r, written)
    BY <1>2, <2>3 DEF TakesFreeLocks, Requests
  <2>5. written.pay = tx[r].pay /\ ~ Inserting(written)
    BY <1>0 DEF Requests, Inserting
  <2>6. RowIsOwn(r, written)
    BY ONLY <2>5, CoreInv, r \in Request, KeptRow
  <2> QED BY <1>2, <2>1, <2>2, <2>4, <2>6, LocalStep DEF CoreInv, TypeOK
<1>3. QED BY <1>1, <1>2 DEF WriteInvoice

LEMMA RollupTyped ==
  ASSUME NEW i \in Invoice, NEW status \in InvoiceStatus \ {"draft"}, NEW S
  PROVE  RollupStatus(i, status, S) \in InvoiceStatus \ {"draft"}
BY DEF RollupStatus, InvoiceStatus

(* The statements of a handler after the first. *)
LEMMA CoreInvoiceStep ==
  ASSUME CoreInv, NEW r \in Request, UpdateInvoice(r) \/ WriteRollup(r)
  PROVE  CoreInv'
<1>0. tx[r] \in Requests
  BY BusyRequest DEF UpdateInvoice, WriteRollup, CoreInv
<1>1. RequestFits(tx[r])
  BY DEF CoreInv
<1>2. CASE UpdateInvoice(r)
  <2> PICK status \in InvoiceStatus, next \in {"enqueue", "commit"} :
         /\ WriteInvoice(r, status, next)
         /\ \/ tx[r].op = "issue" /\ status = "issued" /\ next = "enqueue"
            \/ tx[r].op = "void" /\ status = "void" /\ next = "commit"
            \/ tx[r].op = "patch" /\ status = invStatus[tx[r].inv] /\ next = "commit"
    BY <1>0, <1>1, <1>2 DEF UpdateInvoice, RequestFits, RowsFit, CoreInv, TypeOK, Requests, InvoiceStatus
  <2>1. WritesFit([tx[r] EXCEPT !.invW = status])
    BY <1>0, <1>1 DEF RequestFits, WritesFit, Requests
  <2> QED BY <1>0, <1>2, <2>1, CoreWriteInvoice DEF UpdateInvoice
<1>3. CASE WriteRollup(r)
  <2>1. /\ tx[r].at = "rollup" /\ tx[r].op = "confirm"
        /\ tx[r].seen \in InvoiceStatus \ {"draft"}
    BY <1>1, <1>3 DEF WriteRollup, RequestFits, StatementFits
  <2>2. WritesFit([tx[r] EXCEPT !.invW = tx[r].seen])
    BY <1>0, <1>1, <2>1 DEF RequestFits, WritesFit, Requests
  <2> QED BY <1>0, <1>3, <2>1, <2>2, CoreWriteInvoice DEF WriteRollup
<1> QED BY <1>2, <1>3

LEMMA CorePaymentStep ==
  ASSUME CoreInv, NEW r \in Request,
         PrecheckKey(r) \/ InsertPayment(r) \/ LookupKey(r) \/ UpdatePayment(r)
  PROVE  CoreInv'
<1> USE DEF Become, Goto, db, history
<1>0. tx[r] \in Requests
  BY BusyRequest DEF PrecheckKey, InsertPayment, LookupKey, UpdatePayment, CoreInv
<1>1. RequestFits(tx[r]) /\ TakesFreeLocks(r, tx[r]) /\ RowIsOwn(r, tx[r])
  BY KeptLocks, KeptRow DEF CoreInv
<1>2. ASSUME NEW p \in Payment, payStatus[p] # "absent",
             tx[r].at \in {"precheckKey", "lookupKey"},
             Become(r, [tx[r] EXCEPT !.at = "commit", !.pay = p])
      PROVE  CoreInv'
  <2> DEFINE t == [tx[r] EXCEPT !.at = "commit", !.pay = p]
  <2>0. tx[r].op = "pay" /\ tx[r].payW = "none"
    BY <1>1, <1>2 DEF RequestFits, StatementFits
  <2>1. t \in Requests
    BY <1>0 DEF Requests, Statement
  <2>2. RequestFits(t)
    BY <1>0, <1>1, <1>2, <2>0 DEF Requests, RequestFits, StatementFits, RowsFit, WritesFit, Inserting
  <2>3. TakesFreeLocks(r, t)
    BY <1>0, <1>1, <2>0 DEF Requests, TakesFreeLocks
  <2>4. t.pay = p /\ ~ Inserting(t)
    BY <1>0, <2>0 DEF Requests, Inserting
  <2>5. RowIsOwn(r, t)
    BY ONLY <2>4, <1>2, CoreInv, r \in Request, p \in Payment, NotInserting
  <2> QED BY <1>2, <2>1, <2>2, <2>3, <2>5, LocalStep DEF CoreInv, TypeOK
<1>3. ASSUME NEW a \in {"insertPayment", "lookupKey"}, Goto(r, a),
             tx[r].at \in {"precheckKey", "insertPayment"}
      PROVE  CoreInv'
  <2> DEFINE t == [tx[r] EXCEPT !.at = a]
  <2>1. t \in Requests
    BY <1>0 DEF Requests, Statement
  <2>2. RequestFits(t)
    BY <1>0, <1>1, <1>3 DEF Requests, RequestFits, StatementFits, RowsFit, WritesFit, Inserting
  <2>3. TakesFreeLocks(r, t) /\ RowIsOwn(r, t)
    BY <1>0, <1>1, <1>3 DEF Requests, TakesFreeLocks, RowIsOwn, Inserting
  <2> QED BY <1>3, <2>1, <2>2, <2>3, LocalStep DEF CoreInv, TypeOK
<1>4. ASSUME InsertPayment(r), Become(r, [tx[r] EXCEPT !.at = "commit", !.payW = "pending"])
      PROVE  CoreInv'
  <2> DEFINE t == [tx[r] EXCEPT !.at = "commit", !.payW = "pending"]
  <2>0. Inserting(tx[r]) /\ tx[r].payW = "none"
    BY <1>1, <1>4 DEF InsertPayment, RequestFits, StatementFits, Inserting
  <2>1. t \in Requests
    BY <1>0 DEF Requests, Statement, PaymentStatus
  <2>2. RequestFits(t)
    BY <1>0, <1>1, <2>0 DEF Requests, RequestFits, StatementFits, RowsFit, WritesFit, Inserting
  <2>3. RowIsOwn(r, t)
    BY <1>0, <1>1, <2>0 DEF Requests, RowIsOwn
  <2>4. PaymentUnlocked(r, tx[r].pay)
    BY <1>1, <2>0 DEF RowIsOwn, PaymentUnlocked
  <2>5. TakesFreeLocks(r, t)
    BY <1>0, <1>1, <1>4, <2>4 DEF Requests, TakesFreeLocks, InsertPayment
  <2> QED BY <1>4, <2>1, <2>2, <2>3, <2>5, LocalStep DEF CoreInv, TypeOK
<1>5. ASSUME NEW a, NEW s, UpdatePayment(r), Become(r, [tx[r] EXCEPT !.at = a, !.payW = s]),
             \/ tx[r].op = "confirm" /\ a = "readInvoice" /\ s = "confirmed"
             \/ tx[r].op = "reject" /\ a = "enqueue" /\ s = "rejected"
      PROVE  CoreInv'
  <2> DEFINE t == [tx[r] EXCEPT !.at = a, !.payW = s]
  <2>1. t \in Requests
    BY <1>0, <1>5 DEF Requests, Statement, PaymentStatus
  <2>2. t.pay \in Payment /\ payStatus[t.pay] # "absent" /\ ~ Inserting(t)
    BY <1>0, <1>1, <1>5 DEF Requests, RequestFits, RowsFit, Inserting
  <2>3. RequestFits(t)
    <3>1. StatementFits(t)
      BY <1>0, <1>5 DEF Requests, StatementFits
    <3>2. RowsFit(t)
      BY <1>0, <1>1, <1>5 DEF Requests, RequestFits, RowsFit
    <3>3. WritesFit(t)
      BY <1>0, <1>1, <1>5 DEF Requests, RequestFits, WritesFit
    <3> QED BY <3>1, <3>2, <3>3 DEF RequestFits
  <2>4. TakesFreeLocks(r, t)
    BY <1>0, <1>1, <1>5 DEF Requests, TakesFreeLocks, UpdatePayment
  <2>5. RowIsOwn(r, t)
    BY <2>2, NotInserting
  <2> QED BY <1>5, <2>1, <2>3, <2>4, <2>5, LocalStep DEF CoreInv, TypeOK
<1>6. PrecheckKey(r) => CoreInv'
  BY <1>2, <1>3 DEF PrecheckKey, PaymentWithKey
<1>7. InsertPayment(r) => CoreInv'
  BY <1>3, <1>4 DEF InsertPayment
<1>8. LookupKey(r) => CoreInv'
  BY <1>2 DEF LookupKey, PaymentWithKey
<1>9. UpdatePayment(r) => CoreInv'
  BY <1>5 DEF UpdatePayment
<1> QED BY <1>6, <1>7, <1>8, <1>9

LEMMA CoreRollupStep ==
  ASSUME CoreInv, NEW r \in Request, ReadInvoice(r) \/ SumPayments(r)
  PROVE  CoreInv'
<1> USE DEF Become, Goto, db, history
<1>0. tx[r] \in Requests
  BY BusyRequest DEF ReadInvoice, SumPayments, CoreInv
<1>1. /\ RequestFits(tx[r])
      /\ tx[r].op = "confirm" /\ tx[r].payW = "confirmed"
      /\ tx[r].pay \in Payment /\ tx[r].inv \in Invoice
      /\ payStatus[tx[r].pay] # "absent" /\ tx[r].inv = InvoiceOf[tx[r].pay]
  BY <1>0 DEF ReadInvoice, SumPayments, CoreInv, RequestFits, StatementFits, RowsFit, Requests
<1>2. ASSUME NEW a \in {"sumPayments", "rollup", "enqueue"},
             NEW s \in InvoiceStatus \cup {"none"},
             a # "enqueue" => s \in InvoiceStatus \ {"draft"},
             Become(r, [tx[r] EXCEPT !.at = a, !.seen = s])
      PROVE  CoreInv'
  <2> DEFINE t == [tx[r] EXCEPT !.at = a, !.seen = s]
  <2>1. t \in Requests
    BY <1>0 DEF Requests, Statement
  <2>2. RequestFits(t)
    BY <1>0, <1>1, <1>2 DEF Requests, RequestFits, StatementFits, RowsFit, WritesFit, Inserting
  <2>3. /\ t.inv = tx[r].inv /\ t.pay = tx[r].pay /\ t.key = tx[r].key
        /\ t.invW = tx[r].invW /\ t.payW = tx[r].payW /\ ~ Inserting(t)
    BY <1>0, <1>1 DEF Requests, Inserting
  <2>4. TakesFreeLocks(r, t) /\ RowIsOwn(r, t)
    BY ONLY <2>3, CoreInv, r \in Request, KeptLocks, KeptRow
  <2> QED BY <1>2, <2>1, <2>2, <2>3, <2>4, LocalStep DEF CoreInv, TypeOK
<1>3. ASSUME Goto(r, "enqueue") PROVE CoreInv'
  <2>1. tx[r].seen \in InvoiceStatus \cup {"none"}
    BY <1>0 DEF Requests
  <2>2. [tx[r] EXCEPT !.at = "enqueue"] = [tx[r] EXCEPT !.at = "enqueue", !.seen = tx[r].seen]
    BY <1>0 DEF Requests
  <2> QED BY <1>2, <1>3, <2>1, <2>2
<1>4. CASE ReadInvoice(r)
  <2>1. invStatus[tx[r].inv] \in InvoiceStatus \ {"draft"}
    BY <1>1 DEF CoreInv, NoPaymentOnDraft, TypeOK
  <2> QED BY <1>2, <1>3, <1>4, <2>1 DEF ReadInvoice
<1>5. CASE SumPayments(r)
  <2> DEFINE next == RollupStatus(tx[r].inv, tx[r].seen, ConfirmedOn(tx[r].inv, PaymentsSeen(r)))
  <2>1. next \in InvoiceStatus \ {"draft"}
    BY <1>1, <1>5, RollupTyped DEF SumPayments, RequestFits, StatementFits
  <2> HIDE DEF next
  <2>2. \/ Goto(r, "enqueue")
        \/ Become(r, [tx[r] EXCEPT !.at = "rollup", !.seen = next])
    BY <1>5 DEF SumPayments, next
  <2> QED BY <1>2, <1>3, <2>1, <2>2
<1> QED BY <1>4, <1>5

LEMMA AnsweredTyped ==
  ASSUME CoreInv, NEW r \in Request, tx[r] \in Requests
  PROVE  Answered(r) \subseteq Key \X Payment
BY DEF Answered, CoreInv, TypeOK, RequestFits, RowsFit

LEMMA CoreEnd ==
  ASSUME CoreInv, NEW r \in Request, Enqueue(r) \/ CommitAborted(r) \/ Rollback(r)
  PROVE  CoreInv'
<1> USE DEF db, history
<1>1. CASE Enqueue(r)
  <2> DEFINE t == [tx[r] EXCEPT !.at = "commit"]
  <2>0. tx[r] \in Requests /\ RequestFits(tx[r])
    BY <1>1, BusyRequest DEF Enqueue, CoreInv
  <2>1. tx[r].op \in {"issue", "confirm", "reject"} /\ tx[r].at = "enqueue"
    BY <1>1, <2>0 DEF Enqueue, RequestFits, StatementFits
  <2>2. jobs' \subseteq Jobs
    BY <1>1, <2>0, <2>1 DEF Enqueue, JobKind, Jobs, Requests, CoreInv, TypeOK
  <2>3. t \in Requests
    BY <2>0 DEF Requests, Statement
  <2>4. RequestFits(t)
    BY <2>0, <2>1 DEF Requests, RequestFits, StatementFits, RowsFit, WritesFit, Inserting
  <2>5. /\ t.inv = tx[r].inv /\ t.pay = tx[r].pay /\ t.key = tx[r].key
        /\ t.invW = tx[r].invW /\ t.payW = tx[r].payW /\ ~ Inserting(t)
    BY <2>0, <2>1 DEF Requests, Inserting
  <2>6. TakesFreeLocks(r, t) /\ RowIsOwn(r, t)
    BY ONLY <2>5, CoreInv, r \in Request, KeptLocks, KeptRow
  <2> QED BY <1>1, <2>2, <2>3, <2>4, <2>6, LocalStep DEF Enqueue, CoreInv, TypeOK
<1>2. RequestFits(Free) /\ TakesFreeLocks(r, Free) /\ RowIsOwn(r, Free)
  BY FreeFits, NotInserting
<1>3. CASE CommitAborted(r)
  <2>1. tx[r] \in Requests
    BY <1>3, BusyRequest DEF CommitAborted, CoreInv
  <2>2. receipts' \subseteq Key \X Payment
    BY <1>3, <2>1, AnsweredTyped DEF CommitAborted
  <2> QED BY <1>2, <1>3, <2>2, LocalStep DEF CommitAborted, CoreInv, TypeOK
<1>4. CASE Rollback(r)
  BY <1>2, <1>4, LocalStep DEF Rollback, Become, CoreInv, TypeOK
<1> QED BY <1>1, <1>3, <1>4

-----------------------------------------------------------------------------
(* A commit takes no invoice back to draft, and no row away. *)
LEMMA SentStays ==
  ASSUME CoreInv, NEW r \in Request, Commit(r), NEW i \in Invoice, Sent(i)
  PROVE  Sent(i)'
<1>1. tx[r] \in Requests /\ RequestFits(tx[r])
  BY BusyRequest DEF Commit, CoreInv
<1>2. CASE tx[r].inv = i /\ tx[r].invW # "none"
  <2>1. tx[r].invW \in InvoiceStatus \ {"draft"}
    BY <1>1, <1>2 DEF Requests, Op, RequestFits, RowsFit, WritesFit, Sent
  <2> QED BY <1>2, <2>1 DEF Commit, Sent, InvoiceStatus
<1>3. CASE ~ (tx[r].inv = i /\ tx[r].invW # "none")
  BY <1>3 DEF Commit, Sent
<1> QED BY <1>2, <1>3

LEMMA CoreCommit ==
  ASSUME CoreInv, NEW r \in Request, Commit(r)
  PROVE  CoreInv'
<1>1. tx[r] \in Requests /\ RequestFits(tx[r])
  BY BusyRequest DEF Commit, CoreInv
<1>2. /\ tx'[r] = Free
      /\ \A q \in Request \ {r} : tx'[q] = tx[q]
  BY DEF Commit, CoreInv, TypeOK
<1>3. TypeOK'
  <2>1. /\ invStatus' \in [Invoice -> InvoiceStatus \cup {"absent"}]
        /\ payStatus' \in [Payment -> PaymentStatus \cup {"absent"}]
        /\ payKey' \in [Payment -> Key \cup {None}]
    BY <1>1 DEF Commit, CoreInv, TypeOK, PaymentsSeen, Requests
  <2>2. tx' \in [Request -> Requests \cup {Free}]
    BY DEF Commit, CoreInv, TypeOK
  <2>3. jobs' \subseteq Jobs /\ confirmedEver' \subseteq Payment
    BY DEF Commit, CoreInv, TypeOK
  <2>4. receipts' \subseteq Key \X Payment
    BY <1>1, AnsweredTyped DEF Commit
  <2> QED BY <2>1, <2>2, <2>3, <2>4 DEF TypeOK
<1>4. ASSUME NEW q \in Request PROVE RequestFits(tx[q])'
  <2>1. CASE q = r
    BY <1>2, <2>1 DEF Free, RequestFits, StatementFits, RowsFit, WritesFit
  <2>2. CASE q # r
    <3> DEFINE t == tx[q]
    <3>0. RequestFits(t) /\ tx'[q] = t /\ t \in Requests \cup {Free}
      BY <1>2, <2>2 DEF CoreInv, TypeOK
    <3>1. StatementFits(t)'
      BY <3>0 DEF RequestFits, StatementFits
    <3>2. ASSUME NEW i \in Invoice, i = t.inv, t.invW # "none" PROVE invStatus'[i] = invStatus[i]
      BY <2>2, <3>2 DEF CoreInv, LocksExclusive, Commit
    <3>3. ASSUME NEW i \in Invoice, invStatus[i] # "absent" PROVE invStatus'[i] # "absent"
      BY <1>1, <3>3 DEF Commit, Requests, InvoiceStatus
    <3>4. ASSUME NEW p \in Payment, payStatus[p] # "absent" PROVE payStatus'[p] # "absent"
      BY <1>1, <3>4 DEF Commit, PaymentsSeen, Requests, PaymentStatus
    <3>5. ASSUME Inserting(t) PROVE payStatus'[t.pay] = "absent"
      BY <2>2, <3>0, <3>5 DEF CoreInv, LocksExclusive, Commit, PaymentsSeen, RequestFits,
                              RowsFit, Inserting
    <3>6. t.op # "none" => t.inv \in Invoice
      BY <3>0 DEF Requests, Free
    <3>7. RowsFit(t)'
      <4>1. t.op \in {"issue", "void", "patch"} => invStatus'[t.inv] # "absent"
        BY <3>0, <3>3, <3>6 DEF RequestFits, RowsFit
      <4>2. t.op = "create" /\ t.invW # "none" => invStatus'[t.inv] = "absent"
        BY <3>0, <3>2, <3>6 DEF RequestFits, RowsFit
      <4>3. t.op \in {"confirm", "reject"} =>
              /\ t.pay \in Payment
              /\ payStatus'[t.pay] # "absent"
              /\ t.inv = InvoiceOf[t.pay]
              /\ t.payW # "pending"
        BY <3>0, <3>4 DEF RequestFits, RowsFit
      <4>4. t.op = "pay" /\ t.at # "refuse" => Sent(t.inv)'
        BY <3>0, <3>6, SentStays DEF RequestFits, RowsFit
      <4>5. t.op = "pay" =>
              /\ t.pay \in Payment
              /\ t.key \in Key
              /\ t.payW \in {"none", "pending"}
              /\ Inserting(t) => t.inv = InvoiceOf[t.pay] /\ payStatus'[t.pay] = "absent"
        BY <3>0, <3>5 DEF RequestFits, RowsFit
      <4> QED BY <3>0, <4>1, <4>2, <4>3, <4>4, <4>5 DEF RowsFit, Inserting
    <3>8. WritesFit(t)'
      BY <3>0, <3>2, <3>6 DEF RequestFits, WritesFit
    <3> QED BY <3>1, <3>7, <3>8 DEF RequestFits
  <2> QED BY <2>1, <2>2
<1>5. LocksExclusive'
  <2>1. RowIsOwn(r, Free)
    BY FreeFits, NotInserting
  <2> QED BY <1>2, <2>1 DEF CoreInv, LocksExclusive, RowIsOwn, Inserting, Free
<1>6. ASSUME NEW p \in Payment, payStatus'[p] # "absent" PROVE Sent(InvoiceOf[p])'
  <2>1. CASE payStatus[p] # "absent"
    BY <2>1, SentStays, InvoiceOfAssumption DEF CoreInv, NoPaymentOnDraft, Sent
  <2>2. CASE payStatus[p] = "absent"
    <3>1. tx[r].pay = p /\ tx[r].payW # "none"
      BY <1>6, <2>2 DEF Commit, PaymentsSeen
    <3>2. tx[r].op = "pay"
      BY <1>1, <2>2, <3>1 DEF Requests, Op, RequestFits, RowsFit, WritesFit
    <3>3. Inserting(tx[r]) /\ Sent(tx[r].inv) /\ tx[r].inv = InvoiceOf[p]
      BY <1>1, <3>1, <3>2 DEF Commit, RequestFits, RowsFit, Inserting
    <3> QED BY <3>3, SentStays, InvoiceOfAssumption
  <2> QED BY <2>1, <2>2
<1> QED BY <1>3, <1>4, <1>5, <1>6 DEF CoreInv, NoPaymentOnDraft, Sent

-----------------------------------------------------------------------------
LEMMA CoreStep == CoreInv /\ [Next]_vars => CoreInv'
<1> SUFFICES ASSUME CoreInv, [Next]_vars PROVE CoreInv'
  OBVIOUS
<1>1. CASE UNCHANGED vars
  BY <1>1 DEF vars, db, history, CoreInv, TypeOK, LocksExclusive, NoPaymentOnDraft,
              RequestFits, StatementFits, RowsFit, WritesFit, Sent, Inserting
<1>2. ASSUME NEW r \in Request, Start(r) PROVE CoreInv'
  BY <1>2, CoreBeginInvoice, CoreBeginPayment DEF Start
<1>3. ASSUME NEW r \in Request, Reading(r) \/ Locking(r) PROVE CoreInv'
  BY <1>3, CoreInvoiceStep, CorePaymentStep, CoreRollupStep DEF Reading, Locking
<1>4. ASSUME NEW r \in Request, Ending(r) \/ Rollback(r) PROVE CoreInv'
  BY <1>4, CoreEnd, CoreCommit DEF Ending, Refused
<1> QED BY <1>1, <1>2, <1>3, <1>4 DEF Next

LEMMA CoreInvariant == Spec => []CoreInv
BY CoreInit, CoreStep, PTL DEF Spec

(* Every variable of the billing services keeps its type: a request in     *)
(* flight is always at a statement of its own operation.                   *)
THEOREM TypeCorrect == Spec => []TypeOK
<1>1. CoreInv => TypeOK
  BY DEF CoreInv
<1> QED BY <1>1, CoreInvariant, PTL

(* payment.service.ts:193-203, the issue gate: however requests interleave, *)
(* fail or are rolled back, no draft ever has a payment.                    *)
THEOREM IssueGate == Spec => []NoPaymentOnDraft
<1>1. CoreInv => NoPaymentOnDraft
  BY DEF CoreInv
<1> QED BY <1>1, CoreInvariant, PTL

-----------------------------------------------------------------------------
(* What every step but a commit has in common: one request changes.        *)
Locally(r, t) ==
    /\ tx' = [tx EXCEPT ![r] = t]
    /\ UNCHANGED <<db, confirmedEver>>

LEMMA Changed ==
  ASSUME TypeOK, NEW r \in Request, NEW t, Locally(r, t)
  PROVE  /\ tx'[r] = t
         /\ \A q \in Request \ {r} : tx'[q] = tx[q]
         /\ invStatus' = invStatus /\ payStatus' = payStatus /\ payKey' = payKey
BY DEF Locally, TypeOK, db

(* The first statement of a handler leaves the request without writes,     *)
(* unless it inserts an invoice.                                           *)
LEMMA BeginsClean ==
  ASSUME NEW r \in Request, Start(r),
         \A i \in Invoice : ~ CreateInvoice(r, i)
  PROVE  \E t : /\ Locally(r, t) /\ UNCHANGED receipts
                /\ t.invW = "none" /\ t.payW = "none"
                /\ t.at \in {"commit", "updateInvoice", "refuse", "updatePayment", "precheckKey"}
                /\ t.op = "pay" => t.at \in {"precheckKey", "refuse"}
<1> USE DEF Begin, Become, On, Free, Locally, history
<1>1. CASE \E i \in Invoice : IssueInvoice(r, i)
  <2> PICK i \in Invoice : IssueInvoice(r, i)
    BY <1>1
  <2> PICK a \in {"commit", "updateInvoice", "refuse"} : Become(r, On("issue", i, None, None, a))
    BY DEF IssueInvoice
  <2> WITNESS On("issue", i, None, None, a)
  <2> QED OBVIOUS
<1>2. CASE \E i \in Invoice : VoidInvoice(r, i)
  <2> PICK i \in Invoice : VoidInvoice(r, i)
    BY <1>2
  <2> PICK a \in {"commit", "updateInvoice", "refuse"} : Become(r, On("void", i, None, None, a))
    BY DEF VoidInvoice
  <2> WITNESS On("void", i, None, None, a)
  <2> QED OBVIOUS
<1>3. CASE \E i \in Invoice : PatchInvoice(r, i)
  <2> PICK i \in Invoice : PatchInvoice(r, i)
    BY <1>3
  <2> WITNESS On("patch", i, None, None, "updateInvoice")
  <2> QED BY DEF PatchInvoice
<1>4. CASE \E p \in Payment : ConfirmPayment(r, p)
  <2> PICK p \in Payment : ConfirmPayment(r, p)
    BY <1>4
  <2> PICK a \in {"commit", "updatePayment", "refuse"} :
         Become(r, On("confirm", InvoiceOf[p], p, None, a))
    BY DEF ConfirmPayment
  <2> WITNESS On("confirm", InvoiceOf[p], p, None, a)
  <2> QED OBVIOUS
<1>5. CASE \E p \in Payment : RejectPayment(r, p)
  <2> PICK p \in Payment : RejectPayment(r, p)
    BY <1>5
  <2> PICK a \in {"commit", "updatePayment", "refuse"} :
         Become(r, On("reject", InvoiceOf[p], p, None, a))
    BY DEF RejectPayment
  <2> WITNESS On("reject", InvoiceOf[p], p, None, a)
  <2> QED OBVIOUS
<1>6. CASE \E p \in Payment, k \in Key : CreatePayment(r, p, k)
  <2> PICK p \in Payment, k \in Key : CreatePayment(r, p, k)
    BY <1>6
  <2> PICK a \in {"precheckKey", "refuse"} : Become(r, On("pay", InvoiceOf[p], p, k, a))
    BY DEF CreatePayment
  <2> WITNESS On("pay", InvoiceOf[p], p, k, a)
  <2> QED OBVIOUS
<1> QED BY <1>1, <1>2, <1>3, <1>4, <1>5, <1>6 DEF Start

(* A statement that does not write the invoice leaves what is written.     *)
LEMMA KeepsInvoice ==
  ASSUME TypeOK, NEW r \in Request,
         Reading(r) \/ InsertPayment(r) \/ UpdatePayment(r) \/ Enqueue(r)
  PROVE  \E t : Locally(r, t) /\ t.inv = tx[r].inv /\ t.invW = tx[r].invW
<1> USE DEF Become, Goto, Locally, history
<1>0. tx[r] \in Requests
  BY BusyRequest DEF Reading, PrecheckKey, InsertPayment, LookupKey, UpdatePayment,
                     ReadInvoice, SumPayments, Enqueue
<1>1. ASSUME NEW a, Goto(r, a)
      PROVE  \E t : Locally(r, t) /\ t.inv = tx[r].inv /\ t.invW = tx[r].invW
  <2> WITNESS [tx[r] EXCEPT !.at = a]
  <2> QED BY <1>0, <1>1 DEF Requests
<1>2. ASSUME NEW a, NEW p, Become(r, [tx[r] EXCEPT !.at = a, !.pay = p])
      PROVE  \E t : Locally(r, t) /\ t.inv = tx[r].inv /\ t.invW = tx[r].invW
  <2> WITNESS [tx[r] EXCEPT !.at = a, !.pay = p]
  <2> QED BY <1>0, <1>2 DEF Requests
<1>3. ASSUME NEW a, NEW s, Become(r, [tx[r] EXCEPT !.at = a, !.payW = s])
      PROVE  \E t : Locally(r, t) /\ t.inv = tx[r].inv /\ t.invW = tx[r].invW
  <2> WITNESS [tx[r] EXCEPT !.at = a, !.payW = s]
  <2> QED BY <1>0, <1>3 DEF Requests
<1>4. ASSUME NEW a, NEW s, Become(r, [tx[r] EXCEPT !.at = a, !.seen = s])
      PROVE  \E t : Locally(r, t) /\ t.inv = tx[r].inv /\ t.invW = tx[r].invW
  <2> WITNESS [tx[r] EXCEPT !.at = a, !.seen = s]
  <2> QED BY <1>0, <1>4 DEF Requests
<1>5. CASE PrecheckKey(r)
  BY <1>1, <1>2, <1>5 DEF PrecheckKey
<1>6. CASE LookupKey(r)
  BY <1>2, <1>6 DEF LookupKey
<1>7. CASE InsertPayment(r)
  BY <1>1, <1>3, <1>7 DEF InsertPayment
<1>8. CASE UpdatePayment(r)
  BY <1>3, <1>8 DEF UpdatePayment
<1>9. CASE ReadInvoice(r)
  BY <1>1, <1>4, <1>9 DEF ReadInvoice
<1>10. CASE SumPayments(r)
  BY <1>1, <1>4, <1>10 DEF SumPayments
<1>11. CASE Enqueue(r)
  <2> WITNESS [tx[r] EXCEPT !.at = "commit"]
  <2> QED BY <1>0, <1>11 DEF Requests, Enqueue
<1> QED BY <1>5, <1>6, <1>7, <1>8, <1>9, <1>10, <1>11 DEF Reading

(* What UpdateInvoice and WriteRollup write: a status the row may get, on a *)
(* row that exists.                                                        *)
LEMMA WritesSent ==
  ASSUME CoreInv, NEW r \in Request, UpdateInvoice(r) \/ WriteRollup(r)
  PROVE  /\ tx[r] \in Requests /\ invStatus[tx[r].inv] # "absent"
         /\ \E status \in InvoiceStatus, next \in {"enqueue", "commit"} :
               /\ WriteInvoice(r, status, next)
               /\ \/ status \in {"issued", "void", invStatus[tx[r].inv]}
                  \/ tx[r].at = "rollup" /\ status = tx[r].seen
<1>0. tx[r] \in Requests
  BY BusyRequest DEF UpdateInvoice, WriteRollup, CoreInv
<1>1. RequestFits(tx[r])
  BY DEF CoreInv
<1>2. CASE UpdateInvoice(r)
  <2>1. invStatus[tx[r].inv] \in InvoiceStatus
    BY <1>0, <1>1, <1>2 DEF UpdateInvoice, RequestFits, RowsFit, CoreInv, TypeOK, Requests
  <2> QED BY <1>0, <1>2, <2>1 DEF UpdateInvoice, InvoiceStatus
<1>3. CASE WriteRollup(r)
  <2>1. tx[r].at = "rollup" /\ tx[r].seen \in InvoiceStatus /\ WriteInvoice(r, tx[r].seen, "enqueue")
    BY <1>1, <1>3 DEF WriteRollup, RequestFits, StatementFits
  <2>2. tx[r].op = "confirm"
    BY <1>1, <2>1 DEF RequestFits, StatementFits
  <2>3. invStatus[tx[r].inv] # "absent"
    BY <1>0, <1>1, <2>2 DEF RequestFits, RowsFit, CoreInv, NoPaymentOnDraft
  <2> QED BY <1>0, <2>1, <2>3
<1> QED BY <1>2, <1>3

-----------------------------------------------------------------------------
(* SlotInv: one live invoice per slot.                                     *)

(* r may hold the slot of t's invoice: nobody else writes in it, and no    *)
(* other invoice is alive in it.                                           *)
MayHold(r, t) ==
    /\ t.inv \in Invoice
    /\ InvoiceUnlocked(r, t.inv)
    /\ ~ Live(t.inv) => SlotUnlocked(r, t.inv) /\ ~ SlotTaken(t.inv, invStatus)

LEMMA SlotLocal ==
  ASSUME CoreInv, SlotInv, NEW r \in Request, NEW t, Locally(r, t),
         \/ t.invW \in {"none", "void"}
         \/ t.inv = tx[r].inv /\ t.invW = tx[r].invW
         \/ MayHold(r, t)
  PROVE  SlotInv'
<1>1. TypeOK
  BY DEF CoreInv
<1>2. /\ tx'[r] = t
      /\ \A q \in Request \ {r} : tx'[q] = tx[q]
      /\ invStatus' = invStatus
  BY <1>1, Changed
<1>3. \A i : Live(i)' <=> Live(i)
  BY <1>2 DEF Live
<1>4. OneLiveInvoicePerSlot'
  BY <1>2 DEF SlotInv, OneLiveInvoicePerSlot
<1>5. \A q \in Request : tx[q].invW # "none" => tx[q].inv \in Invoice
  BY <1>1 DEF TypeOK, Requests, Free
<1>6. CASE t.invW \in {"none", "void"}
  <2>1. SlotHeld'
    BY <1>2, <1>3, <1>6 DEF SlotInv, SlotHeld
  <2> QED BY <1>4, <2>1 DEF SlotInv
<1>7. CASE t.inv = tx[r].inv /\ t.invW = tx[r].invW
  <2>1. SlotHeld'
    BY <1>2, <1>3, <1>7 DEF SlotInv, SlotHeld
  <2> QED BY <1>4, <2>1 DEF SlotInv
<1>8. CASE MayHold(r, t) /\ t.invW \notin {"none", "void"}
  <2>1. ASSUME NEW q \in Request \ {r}, tx[q].invW \notin {"none", "void"}, ~ Live(tx[q].inv)
        PROVE  SlotOf[t.inv] # SlotOf[tx[q].inv]
    <3>1. tx[q].inv # t.inv
      BY <1>8, <2>1 DEF MayHold, InvoiceUnlocked
    <3>2. CASE Live(t.inv)
      BY <1>5, <1>8, <2>1, <3>1, <3>2 DEF SlotInv, SlotHeld, MayHold
    <3>3. CASE ~ Live(t.inv)
      BY <1>8, <2>1, <3>3 DEF MayHold, SlotUnlocked
    <3> QED BY <3>2, <3>3
  <2>2. ASSUME ~ Live(t.inv)
        PROVE  /\ \A j \in Invoice \ {t.inv} : SlotOf[j] = SlotOf[t.inv] => ~ Live(j)
               /\ \A q \in Request \ {r} :
                     tx[q].invW \notin {"none", "void"} => SlotOf[tx[q].inv] # SlotOf[t.inv]
    BY <1>8, <2>2 DEF MayHold, SlotUnlocked, SlotTaken, Live
  <2>3. SlotHeld'
    BY <1>2, <1>3, <2>1, <2>2 DEF SlotInv, SlotHeld
  <2> QED BY <1>4, <2>3 DEF SlotInv
<1> QED BY <1>6, <1>7, <1>8

LEMMA SlotWrite ==
  ASSUME CoreInv, SlotInv, NEW r \in Request, UpdateInvoice(r) \/ WriteRollup(r)
  PROVE  SlotInv'
<1> USE DEF Become, Goto, Locally, history
<1>0. tx[r] \in Requests /\ invStatus[tx[r].inv] # "absent"
  BY WritesSent
<1>1. PICK status \in InvoiceStatus, next \in {"enqueue", "commit"} : WriteInvoice(r, status, next)
  BY WritesSent
<1>2. CASE Goto(r, "refuse")
  <2> DEFINE t == [tx[r] EXCEPT !.at = "refuse"]
  <2>1. Locally(r, t) /\ t.inv = tx[r].inv /\ t.invW = tx[r].invW
    BY <1>0, <1>2 DEF Requests
  <2> HIDE DEF t
  <2> QED BY <2>1, SlotLocal
<1>3. CASE /\ ~ (invStatus[tx[r].inv] = "void" /\ status # "void" /\ SlotTaken(tx[r].inv, invStatus))
           /\ Become(r, [tx[r] EXCEPT !.at = next, !.invW = status])
  <2> DEFINE t == [tx[r] EXCEPT !.at = next, !.invW = status]
  <2>1. Locally(r, t) /\ t.inv = tx[r].inv /\ t.invW = status /\ t.inv \in Invoice
    BY <1>0, <1>3 DEF Requests
  <2>2. CASE status = "void"
    <3> HIDE DEF t
    <3> QED BY <2>1, <2>2, SlotLocal
  <2>3. CASE status # "void"
    <3>1. InvoiceUnlocked(r, t.inv)
      BY <1>1, <2>1 DEF WriteInvoice
    <3>2. ~ Live(t.inv) => invStatus[t.inv] = "void"
      BY <1>0, <2>1 DEF Live
    <3>3. ~ Live(t.inv) => SlotUnlocked(r, t.inv) /\ ~ SlotTaken(t.inv, invStatus)
      BY <1>1, <1>3, <2>1, <2>3, <3>2 DEF WriteInvoice
    <3>4. MayHold(r, t)
      BY <2>1, <3>1, <3>3 DEF MayHold
    <3> HIDE DEF t
    <3> QED BY <2>1, <3>4, SlotLocal
  <2> QED BY <2>2, <2>3
<1> QED BY <1>1, <1>2, <1>3 DEF WriteInvoice

LEMMA SlotCreate ==
  ASSUME CoreInv, SlotInv, NEW r \in Request, NEW i \in Invoice, CreateInvoice(r, i)
  PROVE  SlotInv'
<1> USE DEF Begin, Become, On, Locally, history
<1>1. CASE SlotTaken(i, invStatus)
  <2> DEFINE t == On("create", i, None, None, "refuse")
  <2>1. Locally(r, t) /\ t.invW = "none"
    BY <1>1 DEF CreateInvoice, Free
  <2> HIDE DEF t
  <2> QED BY <2>1, SlotLocal
<1>2. CASE ~ SlotTaken(i, invStatus)
  <2> DEFINE t == [On("create", i, None, None, "commit") EXCEPT !.invW = "draft"]
  <2>1. Locally(r, t) /\ t.inv = i
    BY <1>2 DEF CreateInvoice, Free
  <2>2. InvoiceUnlocked(r, i) /\ SlotUnlocked(r, i)
    BY DEF CreateInvoice, InvoiceUnlocked
  <2> HIDE DEF t
  <2>3. MayHold(r, t)
    BY <1>2, <2>1, <2>2 DEF MayHold
  <2> QED BY <2>1, <2>3, SlotLocal
<1> QED BY <1>1, <1>2

LEMMA SlotCommit ==
  ASSUME CoreInv, SlotInv, NEW r \in Request, Commit(r)
  PROVE  SlotInv'
<1>1. tx[r] \in Requests
  BY BusyRequest DEF Commit, CoreInv
<1>2. /\ tx'[r] = Free
      /\ \A q \in Request \ {r} : tx'[q] = tx[q]
  BY DEF Commit, CoreInv, TypeOK
<1>3. ASSUME NEW i \in Invoice, Live(i)', ~ Live(i)
      PROVE  i = tx[r].inv /\ tx[r].invW \notin {"none", "void"}
  BY <1>3 DEF Commit, Live
<1>4. ASSUME NEW i \in Invoice, NEW j \in Invoice, SlotOf[i] = SlotOf[j], Live(i)', Live(j)'
      PROVE  i = j
  <2>1. CASE Live(i) /\ Live(j)
    BY <1>4, <2>1 DEF SlotInv, OneLiveInvoicePerSlot, Live
  <2>2. CASE ~ Live(i)
    BY <1>3, <1>4, <2>2 DEF SlotInv, SlotHeld
  <2>3. CASE ~ Live(j)
    BY <1>3, <1>4, <2>3 DEF SlotInv, SlotHeld
  <2> QED BY <2>1, <2>2, <2>3
<1>5. OneLiveInvoicePerSlot'
  BY <1>4 DEF OneLiveInvoicePerSlot, Live
<1>6. ASSUME NEW q \in Request \ {r}, tx[q].invW \notin {"none", "void"}, ~ Live(tx[q].inv)'
      PROVE  /\ ~ Live(tx[q].inv)
             /\ \A j \in Invoice \ {tx[q].inv} : SlotOf[j] = SlotOf[tx[q].inv] => ~ Live(j)'
             /\ \A u \in Request \ {q} :
                   tx[u].invW \notin {"none", "void"} => SlotOf[tx[u].inv] # SlotOf[tx[q].inv]
  <2>1. tx[q].inv \in Invoice
    BY <1>6 DEF CoreInv, TypeOK, Requests, Free
  <2>2. invStatus'[tx[q].inv] = invStatus[tx[q].inv]
    BY <1>6, <2>1 DEF CoreInv, LocksExclusive, Commit
  <2>3. ~ Live(tx[q].inv)
    BY <1>2, <1>6, <2>2 DEF Live
  <2> QED BY <1>3, <1>6, <2>1, <2>3 DEF SlotInv, SlotHeld
<1>7. SlotHeld'
  BY <1>2, <1>6 DEF SlotHeld, Free
<1> QED BY <1>5, <1>7 DEF SlotInv

LEMMA SlotStep == CoreInv /\ SlotInv /\ [Next]_vars => SlotInv'
<1> SUFFICES ASSUME CoreInv, SlotInv, [Next]_vars PROVE SlotInv'
  OBVIOUS
<1>0. TypeOK
  BY DEF CoreInv
<1>1. CASE UNCHANGED vars
  BY <1>1 DEF vars, db, SlotInv, OneLiveInvoicePerSlot, SlotHeld, Live
<1>2. ASSUME NEW r \in Request, Start(r) PROVE SlotInv'
  <2>1. CASE \E i \in Invoice : CreateInvoice(r, i)
    BY <2>1, SlotCreate
  <2>2. CASE \A i \in Invoice : ~ CreateInvoice(r, i)
    <3>1. PICK t : Locally(r, t) /\ t.invW = "none"
      BY <1>2, <2>2, BeginsClean
    <3> QED BY <3>1, SlotLocal
  <2> QED BY <2>1, <2>2
<1>3. ASSUME NEW r \in Request, Reading(r) \/ InsertPayment(r) \/ UpdatePayment(r) \/ Enqueue(r)
      PROVE  SlotInv'
  BY <1>0, <1>3, KeepsInvoice, SlotLocal
<1>4. ASSUME NEW r \in Request, CommitAborted(r) \/ Rollback(r) PROVE SlotInv'
  <2>1. Locally(r, Free) /\ Free.invW = "none"
    BY <1>4 DEF CommitAborted, Rollback, Become, Locally, history, Free
  <2> QED BY <2>1, SlotLocal
<1>5. CASE \E r \in Request : Start(r) \/ Reading(r) \/ Locking(r) \/ Ending(r) \/ Rollback(r)
  BY <1>2, <1>3, <1>4, <1>5, SlotWrite, SlotCommit DEF Locking, Ending, Refused
<1> QED BY <1>1, <1>5 DEF Next

(* The partial unique index suffices: however requests interleave, fail or *)
(* are rolled back, no two invoices that are not void share a contract and *)
(* a period, although voiding, issuing and rolling up never check it.      *)
THEOREM OneLiveInvoice == Spec => []OneLiveInvoicePerSlot
<1>1. Init => SlotInv
  BY DEF Init, SlotInv, OneLiveInvoicePerSlot, SlotHeld, Live, Free
<1>2. SlotInv => OneLiveInvoicePerSlot
  BY DEF SlotInv
<1> QED BY <1>1, <1>2, SlotStep, CoreInvariant, PTL DEF Spec

-----------------------------------------------------------------------------
(* PayInv: one payment per idempotency key.                                *)

PayFits(t) ==
    t.op = "pay" =>
        /\ t.payW = "pending" => PaymentWithKey(t.key) = {}
        /\ t.at = "commit" /\ t.payW = "none"
              => payStatus[t.pay] # "absent" /\ payKey[t.pay] = t.key

LEMMA PayLocal ==
  ASSUME CoreInv, PayInv, NEW r \in Request, NEW t, Locally(r, t), PayFits(t),
         AuditErrs \/ UNCHANGED receipts
  PROVE  PayInv'
<1>1. TypeOK
  BY DEF CoreInv
<1>2. /\ tx'[r] = t
      /\ \A q \in Request \ {r} : tx'[q] = tx[q]
      /\ payStatus' = payStatus /\ payKey' = payKey
  BY <1>1, Changed
<1>3. OneRowPerKey' /\ (~ AuditErrs => RepliesStand')
  BY <1>2 DEF PayInv, OneRowPerKey, RepliesStand
<1>4. PayRequests'
  BY <1>2 DEF PayInv, PayRequests, PayFits, PaymentWithKey
<1> QED BY <1>3, <1>4 DEF PayInv

(* The statements that look a key up and insert. *)
LEMMA PayStatements ==
  ASSUME CoreInv, PayInv, NEW r \in Request,
         PrecheckKey(r) \/ InsertPayment(r) \/ LookupKey(r)
  PROVE  PayInv'
<1> USE DEF Become, Goto, Locally, history
<1>0. tx[r] \in Requests /\ tx[r].op = "pay" /\ tx[r].payW = "none"
  BY BusyRequest DEF PrecheckKey, InsertPayment, LookupKey, CoreInv, RequestFits, StatementFits
<1>1. ASSUME NEW a \in {"insertPayment", "lookupKey"}, Goto(r, a) PROVE PayInv'
  <2> DEFINE t == [tx[r] EXCEPT !.at = a]
  <2>1. Locally(r, t) /\ UNCHANGED receipts /\ PayFits(t)
    BY <1>0, <1>1 DEF Requests, PayFits
  <2> HIDE DEF t
  <2> QED BY <2>1, PayLocal
<1>2. ASSUME NEW p \in PaymentWithKey(tx[r].key),
             Become(r, [tx[r] EXCEPT !.at = "commit", !.pay = p])
      PROVE  PayInv'
  <2> DEFINE t == [tx[r] EXCEPT !.at = "commit", !.pay = p]
  <2>1. Locally(r, t) /\ UNCHANGED receipts /\ PayFits(t)
    BY <1>0, <1>2 DEF Requests, PayFits, PaymentWithKey
  <2> HIDE DEF t
  <2> QED BY <2>1, PayLocal
<1>3. ASSUME PaymentWithKey(tx[r].key) = {},
             Become(r, [tx[r] EXCEPT !.at = "commit", !.payW = "pending"])
      PROVE  PayInv'
  <2> DEFINE t == [tx[r] EXCEPT !.at = "commit", !.payW = "pending"]
  <2>1. Locally(r, t) /\ UNCHANGED receipts /\ PayFits(t)
    BY <1>0, <1>3 DEF Requests, PayFits
  <2> HIDE DEF t
  <2> QED BY <2>1, PayLocal
<1>4. CASE PrecheckKey(r)
  BY <1>1, <1>2, <1>4 DEF PrecheckKey
<1>5. CASE InsertPayment(r)
  BY <1>1, <1>3, <1>5 DEF InsertPayment
<1>6. CASE LookupKey(r)
  BY <1>2, <1>6 DEF LookupKey
<1> QED BY <1>4, <1>5, <1>6

(* Every other statement is of a request that creates no payment. *)
LEMMA NotPaying ==
  ASSUME CoreInv, NEW r \in Request,
         UpdateInvoice(r) \/ UpdatePayment(r) \/ ReadInvoice(r) \/ SumPayments(r) \/ WriteRollup(r)
  PROVE  \E t : Locally(r, t) /\ UNCHANGED receipts /\ t.op # "pay"
<1> USE DEF Become, Goto, Locally, history
<1>0. tx[r] \in Requests /\ tx[r].op # "pay"
  BY BusyRequest DEF UpdateInvoice, UpdatePayment, ReadInvoice, SumPayments, WriteRollup,
                     CoreInv, RequestFits, StatementFits
<1>1. ASSUME NEW a, Goto(r, a)
      PROVE  \E t : Locally(r, t) /\ UNCHANGED receipts /\ t.op # "pay"
  <2> WITNESS [tx[r] EXCEPT !.at = a]
  <2> QED BY <1>0, <1>1 DEF Requests
<1>2. ASSUME NEW a, NEW s, Become(r, [tx[r] EXCEPT !.at = a, !.invW = s])
      PROVE  \E t : Locally(r, t) /\ UNCHANGED receipts /\ t.op # "pay"
  <2> WITNESS [tx[r] EXCEPT !.at = a, !.invW = s]
  <2> QED BY <1>0, <1>2 DEF Requests
<1>3. ASSUME NEW a, NEW s, Become(r, [tx[r] EXCEPT !.at = a, !.payW = s])
      PROVE  \E t : Locally(r, t) /\ UNCHANGED receipts /\ t.op # "pay"
  <2> WITNESS [tx[r] EXCEPT !.at = a, !.payW = s]
  <2> QED BY <1>0, <1>3 DEF Requests
<1>4. ASSUME NEW a, NEW s, Become(r, [tx[r] EXCEPT !.at = a, !.seen = s])
      PROVE  \E t : Locally(r, t) /\ UNCHANGED receipts /\ t.op # "pay"
  <2> WITNESS [tx[r] EXCEPT !.at = a, !.seen = s]
  <2> QED BY <1>0, <1>4 DEF Requests
<1>5. ASSUME NEW s, NEW a, WriteInvoice(r, s, a)
      PROVE  \E t : Locally(r, t) /\ UNCHANGED receipts /\ t.op # "pay"
  BY ONLY <1>1, <1>2, <1>5 DEF WriteInvoice
<1>6. CASE UpdateInvoice(r)
  BY ONLY <1>5, <1>6 DEF UpdateInvoice
<1>7. CASE WriteRollup(r)
  BY ONLY <1>5, <1>7 DEF WriteRollup
<1>8. CASE UpdatePayment(r)
  BY ONLY <1>3, <1>8 DEF UpdatePayment
<1>9. CASE ReadInvoice(r)
  BY ONLY <1>1, <1>4, <1>9 DEF ReadInvoice
<1>10. CASE SumPayments(r)
  BY ONLY <1>1, <1>4, <1>10 DEF SumPayments
<1> QED BY <1>6, <1>7, <1>8, <1>9, <1>10

(* What a commit does to the payment rows: a request that creates one      *)
(* inserts it, and no other row gets a key or comes to exist.              *)
LEMMA CommitRows ==
  ASSUME CoreInv, NEW r \in Request, Commit(r)
  PROVE  /\ \A p \in Payment : payStatus'[p] # "absent" <=>
               payStatus[p] # "absent" \/ (p = tx[r].pay /\ tx[r].payW = "pending")
         /\ \A p \in Payment : payKey'[p] =
               IF p = tx[r].pay /\ tx[r].payW = "pending" THEN tx[r].key ELSE payKey[p]
         /\ tx[r].payW = "pending" =>
               tx[r].op = "pay" /\ tx[r].pay \in Payment /\ payStatus[tx[r].pay] = "absent"
<1>1. tx[r] \in Requests /\ RequestFits(tx[r])
  BY BusyRequest DEF Commit, CoreInv
<1>2. tx[r].payW = "pending" =>
         tx[r].op = "pay" /\ tx[r].pay \in Payment /\ payStatus[tx[r].pay] = "absent"
  BY <1>1 DEF Requests, Op, RequestFits, RowsFit, WritesFit, Inserting
<1>3. tx[r].payW \in {"confirmed", "rejected"} =>
         tx[r].pay \in Payment /\ payStatus[tx[r].pay] # "absent"
  BY <1>1 DEF Requests, Op, RequestFits, RowsFit, WritesFit
<1>4. tx[r].payW \in {"none", "pending", "confirmed", "rejected"}
  BY <1>1 DEF Requests, PaymentStatus
<1>5. payStatus' = PaymentsSeen(r)
  BY DEF Commit
<1>6. \A p \in Payment : payStatus'[p] # "absent" <=>
         payStatus[p] # "absent" \/ (p = tx[r].pay /\ tx[r].payW = "pending")
  BY <1>2, <1>3, <1>4, <1>5 DEF PaymentsSeen
<1>7. \A p \in Payment : payKey'[p] =
         IF p = tx[r].pay /\ tx[r].payW = "pending" THEN tx[r].key ELSE payKey[p]
  BY DEF Commit
<1> QED BY <1>2, <1>6, <1>7

LEMMA PayCommit ==
  ASSUME CoreInv, PayInv, NEW r \in Request, Commit(r)
  PROVE  PayInv'
<1> DEFINE Inserted == tx[r].payW = "pending"
<1>0. tx[r] \in Requests /\ RequestFits(tx[r])
  BY BusyRequest DEF Commit, CoreInv
<1>1. /\ \A p \in Payment : payStatus'[p] # "absent" <=>
            payStatus[p] # "absent" \/ (p = tx[r].pay /\ Inserted)
      /\ \A p \in Payment : payKey'[p] =
            IF p = tx[r].pay /\ Inserted THEN tx[r].key ELSE payKey[p]
      /\ Inserted =>
            tx[r].op = "pay" /\ tx[r].pay \in Payment /\ payStatus[tx[r].pay] = "absent"
  BY CommitRows
<1>2. Inserted => PaymentWithKey(tx[r].key) = {}
  BY <1>1 DEF PayInv, PayRequests
<1> HIDE DEF Inserted
<1>3. ASSUME NEW p \in Payment, NEW q \in Payment,
             payStatus'[p] # "absent", payStatus'[q] # "absent", payKey'[p] = payKey'[q]
      PROVE  p = q
  BY <1>1, <1>2, <1>3 DEF PayInv, OneRowPerKey, PaymentWithKey
<1>4. ASSUME ~ AuditErrs, NEW a \in receipts
      PROVE  payStatus'[a[2]] # "absent" /\ payKey'[a[2]] = a[1]
  <2>1. a[2] \in Payment
    BY DEF CoreInv, TypeOK
  <2> QED BY <1>1, <1>4, <2>1 DEF PayInv, RepliesStand
<1>5. ASSUME tx[r].op = "pay"
      PROVE  payStatus'[tx[r].pay] # "absent" /\ payKey'[tx[r].pay] = tx[r].key
  <2>1. tx[r].pay \in Payment /\ tx[r].payW \in {"none", "pending"} /\ tx[r].at = "commit"
    BY <1>0, <1>5 DEF RequestFits, RowsFit, Commit
  <2>2. CASE Inserted
    BY <1>1, <2>1, <2>2
  <2>3. CASE tx[r].payW = "none"
    <3>1. payStatus[tx[r].pay] # "absent" /\ payKey[tx[r].pay] = tx[r].key
      BY <1>5, <2>1, <2>3 DEF PayInv, PayRequests
    <3>2. ~ Inserted
      BY <2>3 DEF Inserted
    <3> QED BY <1>1, <2>1, <3>1, <3>2
  <2> QED BY <2>1, <2>2, <2>3 DEF Inserted
<1>6. \A a \in receipts' : a \in receipts \/ (tx[r].op = "pay" /\ a = <<tx[r].key, tx[r].pay>>)
  BY DEF Commit, Answered
<1>7. OneRowPerKey' /\ (~ AuditErrs => RepliesStand')
  <2>1. OneRowPerKey'
    BY <1>3 DEF OneRowPerKey
  <2>2. ~ AuditErrs => RepliesStand'
    BY <1>4, <1>5, <1>6 DEF RepliesStand
  <2> QED BY <2>1, <2>2
<1>8. ASSUME NEW q \in Request, tx'[q].op = "pay"
      PROVE  /\ tx'[q].payW = "pending" => PaymentWithKey(tx[q].key)' = {}
             /\ tx'[q].at = "commit" /\ tx'[q].payW = "none"
                   => payStatus'[tx'[q].pay] # "absent" /\ payKey'[tx'[q].pay] = tx'[q].key
  <2>1. q # r /\ tx'[q] = tx[q]
    BY <1>8 DEF Commit, CoreInv, TypeOK, Free
  <2>2. tx[q].payW = "pending" => PaymentWithKey(tx[q].key)' = {}
    <3> SUFFICES ASSUME tx[q].payW = "pending", NEW p \in Payment,
                        payStatus'[p] # "absent", payKey'[p] = tx[q].key
                 PROVE  FALSE
      BY <2>1 DEF PaymentWithKey
    <3>1. PaymentWithKey(tx[q].key) = {}
      BY <1>8, <2>1 DEF PayInv, PayRequests
    <3>2. p = tx[r].pay /\ Inserted /\ tx[r].key = tx[q].key
      BY <1>1, <3>1 DEF PaymentWithKey
    <3> QED BY <2>1, <3>2 DEF CoreInv, LocksExclusive, Inserted
  <2>3. ASSUME tx[q].at = "commit", tx[q].payW = "none"
        PROVE  payStatus'[tx[q].pay] # "absent" /\ payKey'[tx[q].pay] = tx[q].key
    <3>1. payStatus[tx[q].pay] # "absent" /\ payKey[tx[q].pay] = tx[q].key
      BY <1>8, <2>1, <2>3 DEF PayInv, PayRequests
    <3>2. tx[q].pay \in Payment
      BY <1>8, <2>1 DEF CoreInv, RequestFits, RowsFit
    <3> QED BY <1>1, <3>1, <3>2
  <2> QED BY <2>1, <2>2, <2>3
<1>9. PayRequests'
  BY <1>8 DEF PayRequests
<1> QED BY <1>7, <1>9 DEF PayInv

LEMMA PayStep == CoreInv /\ PayInv /\ [Next]_vars => PayInv'
<1> SUFFICES ASSUME CoreInv, PayInv, [Next]_vars PROVE PayInv'
  OBVIOUS
<1>1. CASE UNCHANGED vars
  BY <1>1 DEF vars, db, history, PayInv, OneRowPerKey, RepliesStand, PayRequests,
                 PaymentWithKey
<1>2. ASSUME NEW r \in Request, Start(r) PROVE PayInv'
  <2>1. ASSUME NEW i \in Invoice, CreateInvoice(r, i) PROVE PayInv'
    <3> DEFINE t == IF SlotTaken(i, invStatus)
                    THEN On("create", i, None, None, "refuse")
                    ELSE [On("create", i, None, None, "commit") EXCEPT !.invW = "draft"]
    <3>1. Become(r, t)
      BY <2>1 DEF CreateInvoice, Begin
    <3>2. t.op = "create"
      BY DEF On, Free
    <3> HIDE DEF t
    <3>3. Locally(r, t) /\ UNCHANGED receipts /\ PayFits(t)
      BY <3>1, <3>2 DEF Become, Locally, PayFits, history
    <3> QED BY <3>3, PayLocal
  <2>2. CASE \A i \in Invoice : ~ CreateInvoice(r, i)
    <3>1. PICK t : /\ Locally(r, t) /\ UNCHANGED receipts
                   /\ t.payW = "none" /\ (t.op = "pay" => t.at \in {"precheckKey", "refuse"})
      BY <1>2, <2>2, BeginsClean
    <3>2. PayFits(t)
      BY <3>1 DEF PayFits
    <3> QED BY <3>1, <3>2, PayLocal
  <2> QED BY <2>1, <2>2
<1>3. ASSUME NEW r \in Request,
             \/ UpdateInvoice(r) \/ UpdatePayment(r) \/ ReadInvoice(r) \/ SumPayments(r)
             \/ WriteRollup(r)
      PROVE  PayInv'
  <2>1. PICK t : Locally(r, t) /\ UNCHANGED receipts /\ t.op # "pay"
    BY <1>3, NotPaying
  <2>2. PayFits(t)
    BY <2>1 DEF PayFits
  <2> QED BY <2>1, <2>2, PayLocal
<1>4. ASSUME NEW r \in Request, Enqueue(r) PROVE PayInv'
  <2> DEFINE t == [tx[r] EXCEPT !.at = "commit"]
  <2>1. tx[r] \in Requests /\ tx[r].op # "pay"
    BY <1>4, BusyRequest DEF Enqueue, CoreInv, RequestFits, StatementFits
  <2>2. Locally(r, t) /\ UNCHANGED receipts /\ PayFits(t)
    BY <1>4, <2>1 DEF Enqueue, Locally, history, PayFits, Requests
  <2> HIDE DEF t
  <2> QED BY <2>2, PayLocal
<1>5. ASSUME NEW r \in Request, Rollback(r) PROVE PayInv'
  <2>1. Locally(r, Free) /\ UNCHANGED receipts /\ PayFits(Free)
    BY <1>5 DEF Rollback, Become, Locally, history, PayFits, Free
  <2> QED BY <2>1, PayLocal
<1>6. ASSUME NEW r \in Request, CommitAborted(r) PROVE PayInv'
  <2>1. Locally(r, Free) /\ AuditErrs /\ PayFits(Free)
    BY <1>6 DEF CommitAborted, Locally, PayFits, Free
  <2> QED BY <2>1, PayLocal
<1>7. CASE \E r \in Request : Start(r) \/ Reading(r) \/ Locking(r) \/ Ending(r) \/ Rollback(r)
  BY <1>2, <1>3, <1>4, <1>5, <1>6, <1>7, PayStatements, PayCommit
     DEF Reading, Locking, Ending, Refused
<1> QED BY <1>1, <1>7 DEF Next

LEMMA PayInvariant == Spec => []PayInv
<1>1. Init => PayInv
  BY DEF Init, PayInv, OneRowPerKey, RepliesStand, PayRequests, Free
<1> QED BY <1>1, PayStep, CoreInvariant, PTL DEF Spec

(* One idempotency key makes one payment row, whatever becomes of the      *)
(* transactions that carry it, the audit row included.                     *)
THEOREM OneRowForEachKey == Spec => []OneRowPerKey
<1>1. PayInv => OneRowPerKey
  BY DEF PayInv
<1> QED BY <1>1, PayInvariant, PTL

(* One payment per idempotency key, and every client that sent the key was *)
(* answered with that payment, unless the audit insert can fail.           *)
THEOREM OnePaymentPerKey ==
  ASSUME ~ AuditErrs
  PROVE  Spec => []IdempotentCreate
<1>1. PayInv => IdempotentCreate
  BY DEF PayInv, IdempotentCreate
<1> QED BY <1>1, PayInvariant, PTL

-----------------------------------------------------------------------------
(* EarnedInv: a status is paid for by payments that were confirmed.        *)

LEMMA EarnedMore ==
  ASSUME NEW i, NEW status, NEW S, NEW T, Earned(i, status, S), S \subseteq T
  PROVE  Earned(i, status, T)
<1>1. PICK U \in SUBSET {p \in S : InvoiceOf[p] = i} :
         IF status = "paid" THEN Credit(U) >= Total[i] ELSE Credit(U) > 0
  BY DEF Earned
<1>2. U \in SUBSET {p \in T : InvoiceOf[p] = i}
  OBVIOUS
<1> QED BY <1>1, <1>2 DEF Earned

(* The payments that are confirmed once the request whose state is t commits. *)
Counted(t) == confirmedEver \cup {p \in Payment : t.pay = p /\ t.payW = "confirmed"}

DerivesEarned(t) ==
    t.at = "rollup" /\ t.seen \in {"paid", "partially_paid"} => Earned(t.inv, t.seen, Counted(t))

WritesEarned(t) ==
    t.invW \in {"paid", "partially_paid"} => Earned(t.inv, t.invW, Counted(t))

LEMMA EarnedLocal ==
  ASSUME CoreInv, EarnedInv, NEW r \in Request, NEW t, Locally(r, t),
         DerivesEarned(t), WritesEarned(t)
  PROVE  EarnedInv'
<1>1. TypeOK
  BY DEF CoreInv
<1>2. /\ tx'[r] = t
      /\ \A q \in Request \ {r} : tx'[q] = tx[q]
      /\ invStatus' = invStatus /\ payStatus' = payStatus /\ confirmedEver' = confirmedEver
  BY <1>1, Changed DEF Locally
<1>3. \A q \in Request \ {r} : Confirming(q)' = Confirming(q)
  BY <1>2 DEF Confirming
<1>4. confirmedEver' \cup Confirming(r)' = Counted(t)
  BY <1>2 DEF Confirming, Counted
<1>5. StatusIsEarned' /\ ConfirmedIsRecorded'
  BY <1>2 DEF EarnedInv, StatusIsEarned, ConfirmedIsRecorded
<1>6. ASSUME NEW q \in Request
      PROVE  /\ tx'[q].at = "rollup" /\ tx'[q].seen \in {"paid", "partially_paid"}
                   => Earned(tx'[q].inv, tx'[q].seen, confirmedEver' \cup Confirming(q)')
             /\ tx'[q].invW \in {"paid", "partially_paid"}
                   => Earned(tx'[q].inv, tx'[q].invW, confirmedEver' \cup Confirming(q)')
  <2>1. CASE q = r
    BY <1>2, <1>4, <2>1 DEF DerivesEarned, WritesEarned
  <2>2. CASE q # r
    BY <1>2, <1>3, <2>2 DEF EarnedInv, DerivedIsEarned
  <2> QED BY <2>1, <2>2
<1>7. DerivedIsEarned'
  BY <1>6 DEF DerivedIsEarned, Earned
<1> QED BY <1>5, <1>7 DEF EarnedInv

(* Statements that neither derive a status nor write one. *)
LEMMA EarnedKept ==
  ASSUME CoreInv, EarnedInv, NEW r \in Request,
         \/ PrecheckKey(r) \/ InsertPayment(r) \/ LookupKey(r)
         \/ UpdatePayment(r) \/ ReadInvoice(r) \/ Enqueue(r)
  PROVE  EarnedInv'
<1> USE DEF Become, Goto, Locally, history
<1>0. tx[r] \in Requests /\ RequestFits(tx[r])
  BY BusyRequest DEF PrecheckKey, InsertPayment, LookupKey, UpdatePayment, ReadInvoice, Enqueue,
                     CoreInv
<1>1. WritesEarned(tx[r])
  BY DEF EarnedInv, DerivedIsEarned, WritesEarned, Counted, Confirming
<1>2. ASSUME NEW t, Locally(r, t), t.at # "rollup", t.inv = tx[r].inv, t.invW = tx[r].invW,
             (t.pay = tx[r].pay /\ t.payW \in {tx[r].payW, "confirmed"}) \/ t.invW = "none"
      PROVE  EarnedInv'
  <2>1. DerivesEarned(t)
    BY <1>2 DEF DerivesEarned
  <2>2. WritesEarned(t)
    <3> SUFFICES ASSUME t.invW \in {"paid", "partially_paid"}
                 PROVE  Earned(t.inv, t.invW, Counted(t))
      BY DEF WritesEarned
    <3>1. Earned(t.inv, t.invW, Counted(tx[r]))
      BY <1>1, <1>2 DEF WritesEarned
    <3>2. Counted(tx[r]) \subseteq Counted(t)
      BY <1>2 DEF Counted
    <3> QED BY <3>1, <3>2, EarnedMore
  <2> QED BY <1>2, <2>1, <2>2, EarnedLocal
<1>3. CASE PrecheckKey(r) \/ InsertPayment(r) \/ LookupKey(r)
  <2>1. tx[r].invW = "none"
    BY <1>0, <1>3 DEF PrecheckKey, InsertPayment, LookupKey, RequestFits, StatementFits, WritesFit
  <2>2. ASSUME NEW t, Locally(r, t), t.at # "rollup", t.inv = tx[r].inv, t.invW = tx[r].invW
        PROVE  EarnedInv'
    BY <1>2, <2>1, <2>2
  <2>3. ASSUME NEW a \in {"insertPayment", "lookupKey"}, Goto(r, a) PROVE EarnedInv'
    <3> DEFINE t == [tx[r] EXCEPT !.at = a]
    <3>1. Locally(r, t) /\ t.at # "rollup" /\ t.inv = tx[r].inv /\ t.invW = tx[r].invW
      BY <1>0, <2>3 DEF Requests
    <3> HIDE DEF t
    <3> QED BY <2>2, <3>1
  <2>4. ASSUME NEW p, Become(r, [tx[r] EXCEPT !.at = "commit", !.pay = p]) PROVE EarnedInv'
    <3> DEFINE t == [tx[r] EXCEPT !.at = "commit", !.pay = p]
    <3>1. Locally(r, t) /\ t.at # "rollup" /\ t.inv = tx[r].inv /\ t.invW = tx[r].invW
      BY <1>0, <2>4 DEF Requests
    <3> HIDE DEF t
    <3> QED BY <2>2, <3>1
  <2>5. ASSUME Become(r, [tx[r] EXCEPT !.at = "commit", !.payW = "pending"]) PROVE EarnedInv'
    <3> DEFINE t == [tx[r] EXCEPT !.at = "commit", !.payW = "pending"]
    <3>1. Locally(r, t) /\ t.at # "rollup" /\ t.inv = tx[r].inv /\ t.invW = tx[r].invW
      BY <1>0, <2>5 DEF Requests
    <3> HIDE DEF t
    <3> QED BY <2>2, <3>1
  <2> QED BY ONLY <1>3, <2>3, <2>4, <2>5 DEF PrecheckKey, InsertPayment, LookupKey
<1>4. CASE UpdatePayment(r)
  <2>1. ASSUME tx[r].op = "confirm",
               Become(r, [tx[r] EXCEPT !.at = "readInvoice", !.payW = "confirmed"])
        PROVE  EarnedInv'
    <3> DEFINE t == [tx[r] EXCEPT !.at = "readInvoice", !.payW = "confirmed"]
    <3>1. /\ Locally(r, t) /\ t.at # "rollup" /\ t.inv = tx[r].inv /\ t.invW = tx[r].invW
          /\ t.pay = tx[r].pay /\ t.payW = "confirmed"
      BY <1>0, <2>1 DEF Requests
    <3> HIDE DEF t
    <3> QED BY <1>2, <3>1
  <2>2. ASSUME tx[r].op = "reject",
               Become(r, [tx[r] EXCEPT !.at = "enqueue", !.payW = "rejected"])
        PROVE  EarnedInv'
    <3> DEFINE t == [tx[r] EXCEPT !.at = "enqueue", !.payW = "rejected"]
    <3>1. /\ Locally(r, t) /\ t.at # "rollup" /\ t.inv = tx[r].inv /\ t.invW = tx[r].invW
          /\ t.invW = "none"
      BY <1>0, <2>2 DEF Requests, RequestFits, WritesFit
    <3> HIDE DEF t
    <3> QED BY <1>2, <3>1
  <2> QED BY <1>4, <2>1, <2>2 DEF UpdatePayment
<1>5. CASE ReadInvoice(r) \/ Enqueue(r)
  <2>1. PICK a \in {"enqueue", "sumPayments", "commit"} :
           \E s : Locally(r, [tx[r] EXCEPT !.at = a, !.seen = s])
    <3>1. \A a : [tx[r] EXCEPT !.at = a] = [tx[r] EXCEPT !.at = a, !.seen = tx[r].seen]
      BY <1>0 DEF Requests
    <3>2. CASE Enqueue(r)
      <4>1. Locally(r, [tx[r] EXCEPT !.at = "commit"])
        BY <3>2 DEF Enqueue
      <4>2. Locally(r, [tx[r] EXCEPT !.at = "commit", !.seen = tx[r].seen])
        BY <3>1, <4>1, Zenon
      <4> QED BY <4>2
    <3>3. CASE ReadInvoice(r) /\ Goto(r, "enqueue")
      <4>1. Locally(r, [tx[r] EXCEPT !.at = "enqueue"])
        BY <3>3
      <4>2. Locally(r, [tx[r] EXCEPT !.at = "enqueue", !.seen = tx[r].seen])
        BY <3>1, <4>1, Zenon
      <4> QED BY <4>2
    <3>4. CASE Become(r, [tx[r] EXCEPT !.at = "sumPayments", !.seen = invStatus[tx[r].inv]])
      BY <3>4
    <3> QED BY <1>5, <3>2, <3>3, <3>4 DEF ReadInvoice
  <2> PICK s : Locally(r, [tx[r] EXCEPT !.at = a, !.seen = s])
    BY <2>1
  <2> DEFINE t == [tx[r] EXCEPT !.at = a, !.seen = s]
  <2>2. /\ Locally(r, t) /\ t.at # "rollup" /\ t.inv = tx[r].inv /\ t.invW = tx[r].invW
        /\ t.pay = tx[r].pay /\ t.payW = tx[r].payW
    BY <1>0, <2>1 DEF Requests
  <2> HIDE DEF t
  <2> QED BY <1>2, <2>2
<1> QED BY <1>3, <1>4, <1>5

(* What a request counts as confirmed is confirmed, or will be with it. *)
LEMMA EarnedSum ==
  ASSUME CoreInv, EarnedInv, NEW r \in Request, SumPayments(r)
  PROVE  EarnedInv'
<1> USE DEF Become, Goto, Locally, history
<1> DEFINE i == tx[r].inv
           S == ConfirmedOn(i, PaymentsSeen(r))
           next == RollupStatus(i, tx[r].seen, S)
<1>0. tx[r] \in Requests
  BY BusyRequest DEF SumPayments, CoreInv
<1>1. WritesEarned(tx[r])
  BY DEF EarnedInv, DerivedIsEarned, WritesEarned, Counted, Confirming
<1>2. S \in SUBSET {p \in Counted(tx[r]) : InvoiceOf[p] = i}
  BY DEF ConfirmedOn, PaymentsSeen, Counted, EarnedInv, ConfirmedIsRecorded
<1> HIDE DEF S
<1>3. ASSUME Goto(r, "enqueue") PROVE EarnedInv'
  <2> DEFINE t == [tx[r] EXCEPT !.at = "enqueue"]
  <2>1. /\ Locally(r, t) /\ t.at # "rollup" /\ t.inv = tx[r].inv /\ t.invW = tx[r].invW
        /\ t.pay = tx[r].pay /\ t.payW = tx[r].payW
    BY <1>0, <1>3 DEF Requests
  <2> HIDE DEF t
  <2>2. DerivesEarned(t) /\ WritesEarned(t)
    BY <1>1, <2>1 DEF DerivesEarned, WritesEarned, Counted
  <2> QED BY <2>1, <2>2, EarnedLocal
<1>4. ASSUME next # tx[r].seen, Become(r, [tx[r] EXCEPT !.at = "rollup", !.seen = next])
      PROVE  EarnedInv'
  <2>1. IF next = "paid" THEN Credit(S) >= Total[i] ELSE Credit(S) > 0
    BY <1>4 DEF RollupStatus
  <2>2. Earned(i, next, Counted(tx[r]))
    BY <1>2, <2>1 DEF Earned
  <2> HIDE DEF next
  <2> DEFINE t == [tx[r] EXCEPT !.at = "rollup", !.seen = next]
  <2>3. /\ Locally(r, t) /\ t.seen = next /\ t.inv = tx[r].inv /\ t.invW = tx[r].invW
        /\ t.pay = tx[r].pay /\ t.payW = tx[r].payW
    BY <1>0, <1>4 DEF Requests
  <2> HIDE DEF t
  <2>4. DerivesEarned(t) /\ WritesEarned(t)
    BY <1>1, <2>2, <2>3 DEF DerivesEarned, WritesEarned, Counted
  <2> QED BY <2>3, <2>4, EarnedLocal
<1> QED BY <1>3, <1>4 DEF SumPayments, S

(* A request writes the status it derived, or one that the row already had. *)
LEMMA EarnedWrite ==
  ASSUME CoreInv, EarnedInv, NEW r \in Request, UpdateInvoice(r) \/ WriteRollup(r)
  PROVE  EarnedInv'
<1> USE DEF Become, Goto, Locally, history
<1>0. tx[r] \in Requests
  BY WritesSent
<1>1. WritesEarned(tx[r]) /\ DerivesEarned(tx[r])
  BY DEF EarnedInv, DerivedIsEarned, WritesEarned, DerivesEarned, Counted, Confirming
<1>2. PICK status \in InvoiceStatus, next \in {"enqueue", "commit"} :
         /\ WriteInvoice(r, status, next)
         /\ \/ status \in {"issued", "void", invStatus[tx[r].inv]}
            \/ tx[r].at = "rollup" /\ status = tx[r].seen
  BY WritesSent
<1>3. ASSUME status \in {"paid", "partially_paid"}
      PROVE  Earned(tx[r].inv, status, Counted(tx[r]))
  <2>1. CASE tx[r].at = "rollup" /\ status = tx[r].seen
    BY <1>1, <1>3, <2>1 DEF DerivesEarned
  <2>2. CASE status = invStatus[tx[r].inv]
    <3>1. Earned(tx[r].inv, status, confirmedEver)
      BY <1>0, <1>3, <2>2 DEF EarnedInv, StatusIsEarned, Requests
    <3>2. confirmedEver \subseteq Counted(tx[r])
      BY DEF Counted
    <3> QED BY <3>1, <3>2, EarnedMore
  <2> QED BY <1>2, <1>3, <2>1, <2>2
<1>4. ASSUME NEW t, Locally(r, t), t.at # "rollup", t.inv = tx[r].inv, t.pay = tx[r].pay,
             t.payW = tx[r].payW, t.invW \in {tx[r].invW, status}
      PROVE  EarnedInv'
  <2>1. DerivesEarned(t) /\ WritesEarned(t)
    BY <1>1, <1>3, <1>4 DEF DerivesEarned, WritesEarned, Counted
  <2> QED BY <1>4, <2>1, EarnedLocal
<1>5. CASE Goto(r, "refuse")
  <2> DEFINE t == [tx[r] EXCEPT !.at = "refuse"]
  <2>1. /\ Locally(r, t) /\ t.at # "rollup" /\ t.inv = tx[r].inv /\ t.pay = tx[r].pay
        /\ t.payW = tx[r].payW /\ t.invW = tx[r].invW
    BY <1>0, <1>5 DEF Requests
  <2> HIDE DEF t
  <2> QED BY <1>4, <2>1
<1>6. CASE Become(r, [tx[r] EXCEPT !.at = next, !.invW = status])
  <2> DEFINE t == [tx[r] EXCEPT !.at = next, !.invW = status]
  <2>1. /\ Locally(r, t) /\ t.at # "rollup" /\ t.inv = tx[r].inv /\ t.pay = tx[r].pay
        /\ t.payW = tx[r].payW /\ t.invW = status
    BY <1>0, <1>6 DEF Requests
  <2> HIDE DEF t
  <2> QED BY <1>4, <2>1
<1> QED BY <1>2, <1>5, <1>6 DEF WriteInvoice

LEMMA EarnedCommit ==
  ASSUME CoreInv, EarnedInv, NEW r \in Request, Commit(r)
  PROVE  EarnedInv'
<1>1. /\ tx'[r] = Free
      /\ \A q \in Request \ {r} : tx'[q] = tx[q]
  BY DEF Commit, CoreInv, TypeOK
<1>2. confirmedEver' = confirmedEver \cup Confirming(r)
  BY DEF Commit, Confirming
<1>3. \A q \in Request \ {r} : Confirming(q)' = Confirming(q)
  BY <1>1 DEF Confirming
<1>4. ASSUME NEW i \in Invoice, invStatus'[i] \in {"paid", "partially_paid"}
      PROVE  Earned(i, invStatus'[i], confirmedEver')
  <2>1. CASE tx[r].inv = i /\ tx[r].invW # "none"
    <3>1. invStatus'[i] = tx[r].invW
      BY <2>1 DEF Commit
    <3> QED BY <1>2, <1>4, <2>1, <3>1 DEF EarnedInv, DerivedIsEarned
  <2>2. CASE ~ (tx[r].inv = i /\ tx[r].invW # "none")
    <3>1. invStatus'[i] = invStatus[i]
      BY <2>2 DEF Commit
    <3>2. Earned(i, invStatus'[i], confirmedEver)
      BY <1>4, <3>1 DEF EarnedInv, StatusIsEarned
    <3> QED BY <1>2, <3>2, EarnedMore
  <2> QED BY <2>1, <2>2
<1>5. StatusIsEarned'
  BY <1>4 DEF StatusIsEarned, Earned
<1>6. ASSUME NEW q \in Request
      PROVE  /\ tx'[q].at = "rollup" /\ tx'[q].seen \in {"paid", "partially_paid"}
                   => Earned(tx'[q].inv, tx'[q].seen, confirmedEver' \cup Confirming(q)')
             /\ tx'[q].invW \in {"paid", "partially_paid"}
                   => Earned(tx'[q].inv, tx'[q].invW, confirmedEver' \cup Confirming(q)')
  <2>1. CASE q = r
    BY <1>1, <2>1 DEF Free
  <2>2. CASE q # r
    <3>1. confirmedEver \cup Confirming(q) \subseteq confirmedEver' \cup Confirming(q)'
      BY <1>2, <1>3, <2>2
    <3>2. /\ tx[q].at = "rollup" /\ tx[q].seen \in {"paid", "partially_paid"}
                => Earned(tx[q].inv, tx[q].seen, confirmedEver \cup Confirming(q))
          /\ tx[q].invW \in {"paid", "partially_paid"}
                => Earned(tx[q].inv, tx[q].invW, confirmedEver \cup Confirming(q))
      BY DEF EarnedInv, DerivedIsEarned
    <3>3. tx'[q] = tx[q]
      BY <1>1, <2>2
    <3> QED BY <3>1, <3>2, <3>3, EarnedMore
  <2> QED BY <2>1, <2>2
<1>7. DerivedIsEarned'
  BY <1>6 DEF DerivedIsEarned, Earned
<1>8. ConfirmedIsRecorded'
  BY <1>2 DEF Commit, PaymentsSeen, Confirming, EarnedInv, ConfirmedIsRecorded
<1> QED BY <1>5, <1>7, <1>8 DEF EarnedInv

LEMMA EarnedStep == CoreInv /\ EarnedInv /\ [Next]_vars => EarnedInv'
<1> SUFFICES ASSUME CoreInv, EarnedInv, [Next]_vars PROVE EarnedInv'
  OBVIOUS
<1>1. CASE UNCHANGED vars
  BY <1>1 DEF vars, db, history, EarnedInv, StatusIsEarned, DerivedIsEarned,
              ConfirmedIsRecorded, Confirming, Earned
<1>2. ASSUME NEW r \in Request, NEW t, Locally(r, t), t.at # "rollup",
             t.invW \notin {"paid", "partially_paid"}
      PROVE  EarnedInv'
  BY <1>2, EarnedLocal DEF DerivesEarned, WritesEarned
<1>3. ASSUME NEW r \in Request, Start(r) PROVE EarnedInv'
  <2>1. ASSUME NEW i \in Invoice, CreateInvoice(r, i) PROVE EarnedInv'
    <3> DEFINE t == IF SlotTaken(i, invStatus)
                    THEN On("create", i, None, None, "refuse")
                    ELSE [On("create", i, None, None, "commit") EXCEPT !.invW = "draft"]
    <3>1. Become(r, t)
      BY <2>1 DEF CreateInvoice, Begin
    <3>2. t.at # "rollup" /\ t.invW \in {"none", "draft"}
      BY DEF On, Free
    <3> HIDE DEF t
    <3> QED BY <1>2, <3>1, <3>2 DEF Become, Locally, history
  <2>2. CASE \A i \in Invoice : ~ CreateInvoice(r, i)
    <3>1. PICK t : Locally(r, t) /\ t.invW = "none" /\ t.at # "rollup"
      BY <1>3, <2>2, BeginsClean
    <3> QED BY <1>2, <3>1
  <2> QED BY <2>1, <2>2
<1>4. ASSUME NEW r \in Request, CommitAborted(r) \/ Rollback(r) PROVE EarnedInv'
  <2>1. Locally(r, Free) /\ Free.at # "rollup" /\ Free.invW = "none"
    BY <1>4 DEF CommitAborted, Rollback, Become, Locally, history, Free
  <2> QED BY <1>2, <2>1
<1>5. CASE \E r \in Request : Start(r) \/ Reading(r) \/ Locking(r) \/ Ending(r) \/ Rollback(r)
  BY <1>3, <1>4, <1>5, EarnedKept, EarnedSum, EarnedWrite, EarnedCommit
     DEF Reading, Locking, Ending, Refused
<1> QED BY <1>1, <1>5 DEF Next

(* However requests interleave, fail or are rolled back, an invoice is paid *)
(* only if payments on it that an admin confirmed cover its total, and     *)
(* partially paid only if some money was confirmed.                        *)
THEOREM OnlyEarnedStatus == Spec => []StatusIsEarned
<1>1. Init => EarnedInv
  BY DEF Init, EarnedInv, StatusIsEarned, DerivedIsEarned, ConfirmedIsRecorded, Free
<1>2. EarnedInv => StatusIsEarned
  BY DEF EarnedInv
<1> QED BY <1>1, <1>2, EarnedStep, CoreInvariant, PTL DEF Spec

-----------------------------------------------------------------------------
(* No statement but a commit changes what is committed. *)
LEMMA CommitOnly ==
  ASSUME [Next]_vars, ~ \E r \in Request : Commit(r)
  PROVE  UNCHANGED db
<1>1. CASE UNCHANGED vars
  BY <1>1 DEF vars
<1>2. CASE \E r \in Request : Start(r) \/ Reading(r) \/ Locking(r) \/ Ending(r) \/ Rollback(r)
  <2>1. PICK r \in Request : Start(r) \/ Reading(r) \/ Locking(r) \/ Ending(r) \/ Rollback(r)
    BY <1>2
  <2>2. CASE Start(r)
    BY <2>2 DEF Start, CreateInvoice, IssueInvoice, VoidInvoice, PatchInvoice, ConfirmPayment,
                RejectPayment, CreatePayment, Begin, Become
  <2>3. CASE Reading(r)
    BY <2>3 DEF Reading, PrecheckKey, LookupKey, ReadInvoice, SumPayments, Goto, Become
  <2>4. CASE Locking(r)
    BY <2>4 DEF Locking, UpdateInvoice, InsertPayment, UpdatePayment, WriteRollup, WriteInvoice,
                Goto, Become
  <2>5. CASE Ending(r) \/ Rollback(r)
    BY <2>5 DEF Ending, Enqueue, CommitAborted, Refused, Rollback, Become
  <2> QED BY <2>1, <2>2, <2>3, <2>4, <2>5
<1> QED BY <1>1, <1>2 DEF Next


(* What an invoice may become, of the invariant of every request.          *)
LEMMA DraftStep ==
  ASSUME CoreInv, [Next]_vars, NEW i \in Invoice
  PROVE  /\ invStatus[i] = "draft" => invStatus'[i] \in {"draft", "issued", "void"}
         /\ invStatus'[i] = "draft" => invStatus[i] \in {"absent", "draft"}
<1>1. ASSUME NEW r \in Request, Commit(r), tx[r].inv = i, tx[r].invW # "none"
      PROVE  /\ invStatus'[i] = tx[r].invW
             /\ invStatus[i] = "draft" => tx[r].invW \in {"draft", "issued", "void"}
             /\ tx[r].invW = "draft" => invStatus[i] \in {"absent", "draft"}
  <2>1. invStatus'[i] = tx[r].invW
    BY <1>1 DEF Commit
  <2>2. tx[r] \in Requests /\ RequestFits(tx[r])
    BY <1>1, BusyRequest DEF Commit, CoreInv
  <2>3. CASE tx[r].op = "confirm"
    <3>1. invStatus[i] # "draft"
      BY <1>1, <2>2, <2>3 DEF RequestFits, RowsFit, CoreInv, NoPaymentOnDraft
    <3> QED BY <2>1, <2>2, <2>3, <3>1 DEF RequestFits, WritesFit
  <2>4. CASE tx[r].op # "confirm"
    BY <1>1, <2>1, <2>2, <2>4 DEF Requests, Op, RequestFits, RowsFit, WritesFit
  <2> QED BY <2>3, <2>4
<1>2. CASE invStatus'[i] = invStatus[i]
  BY <1>2
<1>3. CASE invStatus'[i] # invStatus[i]
  <2>1. PICK r \in Request : Commit(r)
    BY <1>3, CommitOnly DEF db
  <2>2. tx[r].inv = i /\ tx[r].invW # "none"
    BY <1>3, <2>1 DEF Commit
  <2> QED BY <1>1, <2>1, <2>2
<1> QED BY <1>2, <1>3

(* A draft becomes a bill only by being issued, and a bill never becomes a *)
(* draft again, whatever rollup or patch is in flight.                     *)
THEOREM DraftsAreIssuedOnce == Spec => DraftOnlyIssuedOrVoided
<1>1. CoreInv /\ [Next]_vars =>
         [\A i \in Invoice :
            /\ invStatus[i] = "draft" => invStatus'[i] \in {"draft", "issued", "void"}
            /\ invStatus'[i] = "draft" => invStatus[i] \in {"absent", "draft"}]_vars
  BY DraftStep
<1> QED BY <1>1, CoreInvariant, PTL DEF Spec, DraftOnlyIssuedOrVoided

-----------------------------------------------------------------------------
(***************************************************************************)
(* Requests on one invoice that do not overlap: each behaves as one step.  *)
(***************************************************************************)
(* What a request may rely on stands as long as its rows do.                *)
LEMMA StandsKept ==
  ASSUME TypeOK, NEW t, Stands(t), RequestFits(t), t.op # "none" => t.inv \in Invoice,
         invStatus' \in [Invoice -> InvoiceStatus \cup {"absent"}],
         payStatus' \in [Payment -> PaymentStatus \cup {"absent"}],
         invStatus'[t.inv] = invStatus[t.inv],
         \A p \in Payment : InvoiceOf[p] = t.inv => payStatus'[p] = payStatus[p],
         t.payW = "pending" => PaymentWithKey(t.key)' = {}
  PROVE  Stands(t)'
<1>1. InvoiceStands(t)'
  BY DEF Stands, InvoiceStands, Inserting
<1>2. PaymentStands(t)'
  BY DEF Stands, PaymentStands, RequestFits, RowsFit
<1>3. ASSUME t.op = "confirm" PROVE Due(t)' = Due(t)
  <2>1. ConfirmedOn(t.inv, [payStatus EXCEPT ![t.pay] = "confirmed"])'
           = ConfirmedOn(t.inv, [payStatus EXCEPT ![t.pay] = "confirmed"])
    BY DEF ConfirmedOn, TypeOK
  <2> QED BY <2>1 DEF Due
<1>4. RollupStands(t)'
  BY <1>3 DEF Stands, RollupStands
<1> QED BY <1>1, <1>2, <1>4 DEF Stands

(* A step that commits nothing keeps SerialInv if what r becomes does.     *)
LEMMA SerialLocal ==
  ASSUME CoreInv, SerialInv, NEW r \in Request, NEW t, Locally(r, t), Stands(t),
         \/ t = Free
         \/ tx[r] # Free /\ t.inv = tx[r].inv
         \/ \A q \in Request : tx[q].inv # t.inv
  PROVE  SerialInv'
<1>1. /\ tx'[r] = t
      /\ \A q \in Request \ {r} : tx'[q] = tx[q]
      /\ invStatus' = invStatus /\ payStatus' = payStatus /\ payKey' = payKey
  BY Changed DEF CoreInv
<1>2. ASSUME NEW q \in Request PROVE Stands(tx[q])'
  <2>1. CASE q = r
    BY <1>1, <2>1 DEF Stands, InvoiceStands, Inserting, PaymentStands, PaymentWithKey,
                      RollupStands, Due
  <2>2. CASE q # r
    <3>1. Stands(tx[q])
      BY DEF SerialInv
    <3> QED BY <1>1, <2>2, <3>1 DEF Stands, InvoiceStands, Inserting, PaymentStands,
                                    PaymentWithKey, RollupStands, Due
  <2> QED BY <2>1, <2>2
<1>3. Alone'
  BY <1>1 DEF SerialInv, Alone
<1> QED BY <1>2, <1>3 DEF SerialInv

LEMMA FreeStands == Stands(Free)
BY DEF Free, Stands, InvoiceStands, Inserting, PaymentStands, RollupStands

(* What a handler begins with has been read in the same step. *)
LEMMA SerialBegins ==
  ASSUME ~ Overlap, CoreInv, SerialInv, NEW r \in Request, Start(r)
  PROVE  SerialInv'
<1> USE DEF Begin, Become, Locally, history
<1>1. ASSUME NEW t, Begin(r, t), Stands(t) PROVE SerialInv'
  <2>1. Locally(r, t) /\ \A q \in Request : tx[q].inv # t.inv
    BY <1>1
  <2> QED BY <1>1, <2>1, SerialLocal
<1> DEFINE Plain(t) == /\ t.payW = "none" /\ t.op # "confirm" /\ ~ Inserting(t)
                       /\ t.op \in {"issue", "void"} => t.at # "updateInvoice" /\ t.invW = "none"
                       /\ t.op = "reject" => t.at # "updatePayment"
<1>2. ASSUME NEW t, Plain(t) PROVE Stands(t)
  BY <1>2 DEF Stands, InvoiceStands, PaymentStands, RollupStands
<1> HIDE DEF Plain
<1>3. ASSUME NEW i \in Invoice, CreateInvoice(r, i) PROVE SerialInv'
  <2> PICK t : /\ Begin(r, t)
               /\ \/ t = On("create", i, None, None, "refuse")
                  \/ t = [On("create", i, None, None, "commit") EXCEPT !.invW = "draft"]
    BY <1>3 DEF CreateInvoice
  <2>1. Plain(t)
    BY DEF On, Free, Plain, Inserting
  <2> QED BY <2>1, <1>1, <1>2
<1>4. ASSUME NEW i \in Invoice, IssueInvoice(r, i) PROVE SerialInv'
  <2> PICK a \in {"commit", "updateInvoice", "refuse"} :
         Begin(r, On("issue", i, None, None, a)) /\ (a = "updateInvoice" => invStatus[i] = "draft")
    BY <1>4 DEF IssueInvoice
  <2>1. Stands(On("issue", i, None, None, a))
    BY DEF On, Free, Stands, InvoiceStands, Inserting, PaymentStands, RollupStands
  <2> QED BY <2>1, <1>1
<1>5. ASSUME NEW i \in Invoice, VoidInvoice(r, i) PROVE SerialInv'
  <2> PICK a \in {"commit", "updateInvoice", "refuse"} :
         /\ Begin(r, On("void", i, None, None, a))
         /\ a = "updateInvoice" => invStatus[i] \notin {"void", "paid"}
    BY <1>5 DEF VoidInvoice
  <2>1. Stands(On("void", i, None, None, a))
    BY DEF On, Free, Stands, InvoiceStands, Inserting, PaymentStands, RollupStands
  <2> QED BY <2>1, <1>1
<1>6. ASSUME NEW i \in Invoice, PatchInvoice(r, i) PROVE SerialInv'
  <2>1. Begin(r, On("patch", i, None, None, "updateInvoice"))
    BY <1>6 DEF PatchInvoice
  <2>2. Plain(On("patch", i, None, None, "updateInvoice"))
    BY DEF On, Free, Plain, Inserting
  <2> QED BY <2>1, <2>2, <1>1, <1>2
<1>7. ASSUME NEW p \in Payment, ConfirmPayment(r, p) PROVE SerialInv'
  <2> PICK a \in {"commit", "updatePayment", "refuse"} :
         /\ Begin(r, On("confirm", InvoiceOf[p], p, None, a))
         /\ a = "updatePayment" => payStatus[p] = "pending"
    BY <1>7 DEF ConfirmPayment, CoreInv, TypeOK, PaymentStatus
  <2>1. Stands(On("confirm", InvoiceOf[p], p, None, a))
    BY DEF On, Free, Stands, InvoiceStands, Inserting, PaymentStands, RollupStands
  <2> QED BY <2>1, <1>1
<1>8. ASSUME NEW p \in Payment, RejectPayment(r, p) PROVE SerialInv'
  <2> PICK a \in {"commit", "updatePayment", "refuse"} :
         /\ Begin(r, On("reject", InvoiceOf[p], p, None, a))
         /\ a = "updatePayment" => payStatus[p] = "pending"
    BY <1>8 DEF RejectPayment, CoreInv, TypeOK, PaymentStatus
  <2>1. Stands(On("reject", InvoiceOf[p], p, None, a))
    BY DEF On, Free, Stands, InvoiceStands, Inserting, PaymentStands, RollupStands
  <2> QED BY <2>1, <1>1
<1>9. ASSUME NEW p \in Payment, NEW k \in Key, CreatePayment(r, p, k) PROVE SerialInv'
  <2> PICK a \in {"precheckKey", "refuse"} :
         /\ Begin(r, On("pay", InvoiceOf[p], p, k, a))
         /\ a = "precheckKey" => invStatus[InvoiceOf[p]] # "void"
    BY <1>9 DEF CreatePayment, Payable
  <2>1. Stands(On("pay", InvoiceOf[p], p, k, a))
    BY DEF On, Free, Stands, InvoiceStands, Inserting, PaymentStands, RollupStands
  <2> QED BY <2>1, <1>1
<1> QED BY <1>3, <1>4, <1>5, <1>6, <1>7, <1>8, <1>9 DEF Start

(* Statements between the first and the commit. *)
LEMMA SerialPays ==
  ASSUME CoreInv, SerialInv, NEW r \in Request,
         PrecheckKey(r) \/ InsertPayment(r) \/ LookupKey(r)
  PROVE  SerialInv'
<1> USE DEF Become, Goto, Locally, history
<1>0. tx[r] \in Requests /\ tx[r] # Free /\ tx[r].op = "pay" /\ tx[r].payW = "none"
  <2>1. tx[r].at \in {"precheckKey", "insertPayment", "lookupKey"}
    BY DEF PrecheckKey, InsertPayment, LookupKey
  <2>2. tx[r] \in Requests /\ tx[r] # Free
    BY <2>1, BusyRequest DEF CoreInv, Free
  <2> QED BY <2>1, <2>2 DEF CoreInv, RequestFits, StatementFits
<1>1. Inserting(tx[r]) /\ invStatus[tx[r].inv] # "void"
  BY <1>0 DEF SerialInv, Stands, InvoiceStands, Inserting, PrecheckKey, InsertPayment, LookupKey
<1>2. ASSUME NEW t, Become(r, t), t.op = "pay", t.inv = tx[r].inv,
             t.payW = "pending" => PaymentWithKey(t.key) = {}
      PROVE  SerialInv'
  <2>1. Stands(t)
    BY <1>1, <1>2 DEF Stands, InvoiceStands, PaymentStands, RollupStands
  <2> QED BY <1>0, <1>2, <2>1, SerialLocal
<1>3. ASSUME NEW a, Goto(r, a) PROVE SerialInv'
  <2> DEFINE t == [tx[r] EXCEPT !.at = a]
  <2>1. Become(r, t) /\ t.op = "pay" /\ t.inv = tx[r].inv /\ t.payW = "none"
    BY <1>0, <1>3 DEF Requests
  <2> HIDE DEF t
  <2> QED BY <2>1, <1>2
<1>4. ASSUME NEW p, Become(r, [tx[r] EXCEPT !.at = "commit", !.pay = p]) PROVE SerialInv'
  <2> DEFINE t == [tx[r] EXCEPT !.at = "commit", !.pay = p]
  <2>1. Become(r, t) /\ t.op = "pay" /\ t.inv = tx[r].inv /\ t.payW = "none"
    BY <1>0, <1>4 DEF Requests
  <2> HIDE DEF t
  <2> QED BY <2>1, <1>2
<1>5. ASSUME PaymentWithKey(tx[r].key) = {},
             Become(r, [tx[r] EXCEPT !.at = "commit", !.payW = "pending"])
      PROVE  SerialInv'
  <2> DEFINE t == [tx[r] EXCEPT !.at = "commit", !.payW = "pending"]
  <2>1. Become(r, t) /\ t.op = "pay" /\ t.inv = tx[r].inv /\ t.key = tx[r].key
    BY <1>0, <1>5 DEF Requests
  <2> HIDE DEF t
  <2> QED BY <2>1, <1>2, <1>5
<1>6. CASE PrecheckKey(r)
  BY <1>3, <1>4, <1>6 DEF PrecheckKey
<1>7. CASE InsertPayment(r)
  BY <1>3, <1>5, <1>7 DEF InsertPayment
<1>8. CASE LookupKey(r)
  BY <1>4, <1>8 DEF LookupKey
<1> QED BY <1>6, <1>7, <1>8

LEMMA SerialUpdates ==
  ASSUME CoreInv, SerialInv, NEW r \in Request,
         UpdateInvoice(r) \/ UpdatePayment(r) \/ WriteRollup(r)
  PROVE  SerialInv'
<1> USE DEF Become, Goto, Locally, history
<1>0. tx[r] \in Requests /\ tx[r] # Free /\ RequestFits(tx[r]) /\ Stands(tx[r])
  <2>1. tx[r].at \in {"updateInvoice", "updatePayment", "rollup"}
    BY DEF UpdateInvoice, UpdatePayment, WriteRollup
  <2> QED BY <2>1, BusyRequest DEF CoreInv, SerialInv, Free
<1>1. ASSUME NEW t, Become(r, t), t.inv = tx[r].inv, Stands(t) PROVE SerialInv'
  BY <1>0, <1>1, SerialLocal
<1>2. ASSUME NEW s, NEW a \in {"enqueue", "commit"}, WriteInvoice(r, s, a), s # "none",
             Stands([tx[r] EXCEPT !.at = a, !.invW = s])
      PROVE  SerialInv'
  <2>1. CASE Goto(r, "refuse")
    <3> DEFINE t == [tx[r] EXCEPT !.at = "refuse"]
    <3>1. Become(r, t) /\ t.inv = tx[r].inv
      BY <1>0, <2>1 DEF Requests
    <3>2. /\ t.op = tx[r].op /\ t.at = "refuse" /\ t.invW = tx[r].invW /\ t.payW = tx[r].payW
          /\ t.pay = tx[r].pay /\ t.key = tx[r].key
      BY <1>0 DEF Requests
    <3> HIDE DEF t
    <3>3. Stands(t)
      BY <1>0, <3>1, <3>2 DEF Stands, InvoiceStands, Inserting, PaymentStands, RollupStands
    <3> QED BY <3>1, <3>3, <1>1
  <2>2. CASE Become(r, [tx[r] EXCEPT !.at = a, !.invW = s])
    <3>1. [tx[r] EXCEPT !.at = a, !.invW = s].inv = tx[r].inv
      BY <1>0 DEF Requests
    <3> QED BY <3>1, <2>2, <1>2, <1>1
  <2> QED BY ONLY <1>2, <2>1, <2>2 DEF WriteInvoice
<1>3. ASSUME UpdateInvoice(r), NEW s, NEW a,
             s # "none",
             \/ tx[r].op = "issue" /\ s = "issued" /\ a = "enqueue"
             \/ tx[r].op = "void" /\ s = "void" /\ a = "commit"
             \/ tx[r].op = "patch" /\ a = "commit"
      PROVE  Stands([tx[r] EXCEPT !.at = a, !.invW = s])
  <2> DEFINE t == [tx[r] EXCEPT !.at = a, !.invW = s]
  <2>1. tx[r].at = "updateInvoice" /\ tx[r].payW = "none"
    BY <1>0, <1>3 DEF UpdateInvoice, RequestFits, StatementFits, WritesFit
  <2>2. t.op = tx[r].op /\ t.inv = tx[r].inv /\ t.payW = "none"
    BY <1>0, <2>1 DEF Requests
  <2> HIDE DEF t
  <2>3. Stands(t)
    BY <1>0, <1>3, <2>1, <2>2 DEF Stands, InvoiceStands, Inserting, PaymentStands, RollupStands
  <2> QED BY <2>3 DEF t
<1>4. CASE UpdateInvoice(r)
  <2>1. invStatus[tx[r].inv] # "none"
    BY <1>0 DEF CoreInv, TypeOK, Requests, InvoiceStatus
  <2>2. CASE tx[r].op = "issue" /\ WriteInvoice(r, "issued", "enqueue")
    BY <1>2, <1>3, <1>4, <2>2
  <2>3. CASE tx[r].op = "void" /\ WriteInvoice(r, "void", "commit")
    BY <1>2, <1>3, <1>4, <2>3
  <2>4. CASE tx[r].op = "patch" /\ WriteInvoice(r, invStatus[tx[r].inv], "commit")
    BY <1>2, <1>3, <1>4, <2>1, <2>4
  <2> QED BY ONLY <1>4, <2>2, <2>3, <2>4 DEF UpdateInvoice
<1>5. CASE WriteRollup(r)
  <2> DEFINE t == [tx[r] EXCEPT !.at = "enqueue", !.invW = tx[r].seen]
  <2>1. /\ tx[r].at = "rollup" /\ tx[r].op = "confirm" /\ tx[r].payW = "confirmed"
        /\ tx[r].seen \in InvoiceStatus /\ tx[r].seen = Due(tx[r])
        /\ invStatus[tx[r].inv] # "void" /\ payStatus[tx[r].pay] = "pending"
    BY <1>0, <1>5 DEF WriteRollup, RequestFits, StatementFits, Stands, RollupStands, PaymentStands
  <2>2. /\ t.op = "confirm" /\ t.at = "enqueue" /\ t.inv = tx[r].inv /\ t.pay = tx[r].pay
        /\ t.payW = "confirmed" /\ t.invW = tx[r].seen
    BY <1>0, <2>1 DEF Requests
  <2> HIDE DEF t
  <2>3. Due(t) = Due(tx[r])
    BY <2>2 DEF Due
  <2>4. Stands(t)
    BY <2>1, <2>2, <2>3 DEF Stands, InvoiceStands, Inserting, PaymentStands, RollupStands
  <2>5. tx[r].seen # "none"
    BY <2>1 DEF InvoiceStatus
  <2> QED BY <1>2, <1>5, <2>4, <2>5 DEF WriteRollup, t
<1>6. CASE UpdatePayment(r)
  <2>1. ASSUME NEW a, NEW s, Become(r, [tx[r] EXCEPT !.at = a, !.payW = s]),
               \/ tx[r].op = "confirm" /\ a = "readInvoice" /\ s = "confirmed"
               \/ tx[r].op = "reject" /\ a = "enqueue" /\ s = "rejected"
        PROVE  SerialInv'
    <3> DEFINE t == [tx[r] EXCEPT !.at = a, !.payW = s]
    <3>1. /\ t.op = tx[r].op /\ t.at = a /\ t.inv = tx[r].inv /\ t.pay = tx[r].pay
          /\ t.payW = s /\ t.invW = tx[r].invW
      BY <1>0 DEF Requests
    <3>2. Become(r, t)
      BY <2>1
    <3> HIDE DEF t
    <3>3. tx[r].at = "updatePayment"
      BY <1>6 DEF UpdatePayment
    <3>4. Stands(t)
      BY <1>0, <2>1, <3>1, <3>3 DEF Stands, InvoiceStands, Inserting, PaymentStands, RollupStands
    <3> QED BY <3>1, <3>2, <3>4, <1>1
  <2> QED BY <1>6, <2>1 DEF UpdatePayment
<1> QED BY <1>4, <1>5, <1>6

(* The payments a confirming request reads are those it is about to leave. *)
LEMMA SeenIsDue ==
  ASSUME CoreInv, NEW r \in Request, tx[r].pay \in Payment, tx[r].payW = "confirmed"
  PROVE  PaymentsSeen(r) = [payStatus EXCEPT ![tx[r].pay] = "confirmed"]
BY DEF CoreInv, TypeOK, PaymentsSeen

LEMMA SerialReads ==
  ASSUME CoreInv, SerialInv, NEW r \in Request, ReadInvoice(r) \/ SumPayments(r) \/ Enqueue(r)
  PROVE  SerialInv'
<1> USE DEF Become, Goto, Locally, history
<1>0. tx[r] \in Requests /\ tx[r] # Free /\ RequestFits(tx[r]) /\ Stands(tx[r])
  <2>1. tx[r].at \in {"readInvoice", "sumPayments", "enqueue"}
    BY DEF ReadInvoice, SumPayments, Enqueue
  <2> QED BY <2>1, BusyRequest DEF CoreInv, SerialInv, Free
<1> DEFINE To(a, s) == [tx[r] EXCEPT !.at = a, !.seen = s]
<1>1. ASSUME NEW a, NEW s, Locally(r, To(a, s)), Stands(To(a, s)) PROVE SerialInv'
  <2>1. To(a, s).inv = tx[r].inv
    BY <1>0 DEF Requests
  <2> QED BY <1>0, <1>1, <2>1, SerialLocal
<1>2. ASSUME NEW a \in {"sumPayments", "rollup", "enqueue"}, NEW s,
             tx[r].at \in {"readInvoice", "sumPayments"},
             a \in {"sumPayments", "rollup"} => invStatus[tx[r].inv] # "void",
             a = "sumPayments" => s = invStatus[tx[r].inv],
             a = "rollup" => s = Due(tx[r]),
             a = "enqueue" => invStatus[tx[r].inv] \in {"void", Due(tx[r])}
      PROVE  Stands(To(a, s))
  <2> DEFINE t == To(a, s)
  <2>1. /\ tx[r].op = "confirm" /\ tx[r].payW = "confirmed" /\ tx[r].invW = "none"
        /\ payStatus[tx[r].pay] = "pending"
    BY <1>0, <1>2 DEF RequestFits, StatementFits, Stands, RollupStands, PaymentStands
  <2>2. /\ t.op = "confirm" /\ t.at = a /\ t.inv = tx[r].inv /\ t.pay = tx[r].pay
        /\ t.payW = "confirmed" /\ t.invW = "none" /\ t.seen = s
    BY <1>0, <2>1 DEF Requests
  <2> HIDE DEF t
  <2>3. Due(t) = Due(tx[r])
    BY <2>2 DEF Due
  <2>4. Stands(t)
    BY <1>2, <2>1, <2>2, <2>3 DEF Stands, InvoiceStands, Inserting, PaymentStands, RollupStands
  <2> QED BY <2>4 DEF t
<1>3. ASSUME NEW a, Goto(r, a) PROVE Locally(r, To(a, tx[r].seen))
  <2>1. To(a, tx[r].seen) = [tx[r] EXCEPT !.at = a]
    BY <1>0 DEF Requests
  <2> QED BY <1>3, <2>1
<1>7. ASSUME NEW a, NEW s, Become(r, [tx[r] EXCEPT !.at = a, !.seen = s])
      PROVE  Locally(r, To(a, s))
  BY <1>7
<1> HIDE DEF To
<1>4. CASE ReadInvoice(r)
  <2>1. tx[r].at = "readInvoice"
    BY <1>4 DEF ReadInvoice
  <2>2. CASE invStatus[tx[r].inv] = "void" /\ Goto(r, "enqueue")
    <3>1. Stands(To("enqueue", tx[r].seen))
      BY ONLY <1>2, <2>1, <2>2
    <3>2. Locally(r, To("enqueue", tx[r].seen))
      BY <1>3, <2>2
    <3> QED BY ONLY <1>1, <3>1, <3>2
  <2>3. CASE /\ invStatus[tx[r].inv] # "void"
             /\ Become(r, [tx[r] EXCEPT !.at = "sumPayments", !.seen = invStatus[tx[r].inv]])
    <3>1. Stands(To("sumPayments", invStatus[tx[r].inv]))
      BY ONLY <1>2, <2>1, <2>3
    <3>2. Locally(r, To("sumPayments", invStatus[tx[r].inv]))
      BY <1>7, <2>3
    <3> QED BY ONLY <1>1, <3>1, <3>2
  <2> QED BY <1>4, <2>2, <2>3 DEF ReadInvoice
<1>5. CASE SumPayments(r)
  <2>1. /\ tx[r].at = "sumPayments" /\ tx[r].seen = invStatus[tx[r].inv]
        /\ invStatus[tx[r].inv] # "void" /\ tx[r].payW = "confirmed" /\ tx[r].pay \in Payment
    BY <1>0, <1>5 DEF SumPayments, RequestFits, StatementFits, RowsFit, Stands, RollupStands
  <2>2. RollupStatus(tx[r].inv, tx[r].seen, ConfirmedOn(tx[r].inv, PaymentsSeen(r))) = Due(tx[r])
    BY <2>1, SeenIsDue DEF Due
  <2>3. \/ Due(tx[r]) = tx[r].seen /\ Goto(r, "enqueue")
        \/ Become(r, [tx[r] EXCEPT !.at = "rollup", !.seen = Due(tx[r])])
    BY ONLY <1>5, <2>2 DEF SumPayments
  <2>4. CASE Due(tx[r]) = tx[r].seen /\ Goto(r, "enqueue")
    <3>1. Stands(To("enqueue", tx[r].seen))
      BY ONLY <1>2, <2>1, <2>4
    <3>2. Locally(r, To("enqueue", tx[r].seen))
      BY <1>3, <2>4
    <3> QED BY ONLY <1>1, <3>1, <3>2
  <2>5. CASE Become(r, [tx[r] EXCEPT !.at = "rollup", !.seen = Due(tx[r])])
    <3>1. Stands(To("rollup", Due(tx[r])))
      BY ONLY <1>2, <2>1
    <3>2. Locally(r, To("rollup", Due(tx[r])))
      BY <1>7, <2>5
    <3> QED BY ONLY <1>1, <3>1, <3>2
  <2> QED BY <2>3, <2>4, <2>5
<1>6. CASE Enqueue(r)
  <2> DEFINE t == [tx[r] EXCEPT !.at = "commit"]
  <2>1. tx[r].at = "enqueue" /\ Locally(r, t)
    BY <1>6 DEF Enqueue
  <2>2. /\ t.op = tx[r].op /\ t.at = "commit" /\ t.inv = tx[r].inv /\ t.pay = tx[r].pay
        /\ t.payW = tx[r].payW /\ t.invW = tx[r].invW /\ t.key = tx[r].key
    BY <1>0 DEF Requests
  <2> HIDE DEF t
  <2>3. Due(t) = Due(tx[r])
    BY <2>2 DEF Due
  <2>4. Stands(t)
    BY <1>0, <2>1, <2>2, <2>3 DEF Stands, InvoiceStands, Inserting, PaymentStands, RollupStands
  <2> QED BY <1>0, <2>1, <2>2, <2>4, SerialLocal
<1> QED BY <1>4, <1>5, <1>6

-----------------------------------------------------------------------------
(* What a commit makes of the committed rows. *)
LEMMA CommitEffect ==
  ASSUME CoreInv, NEW r \in Request, Commit(r)
  PROVE  LET t == tx[r] IN
         /\ t \in Requests /\ RequestFits(t) /\ t.at = "commit"
         /\ invStatus' = IF t.invW = "none" THEN invStatus ELSE [invStatus EXCEPT ![t.inv] = t.invW]
         /\ payStatus' = IF t.payW = "none" THEN payStatus ELSE [payStatus EXCEPT ![t.pay] = t.payW]
         /\ payKey' = IF t.payW = "pending" THEN [payKey EXCEPT ![t.pay] = t.key] ELSE payKey
         /\ t.payW # "none" => t.pay \in Payment /\ t.inv = InvoiceOf[t.pay]
         /\ t.payW = "pending" => t.op = "pay" /\ payStatus[t.pay] = "absent"
<1> DEFINE t == tx[r]
<1>1. t \in Requests /\ RequestFits(t) /\ t.at = "commit"
  BY BusyRequest DEF Commit, CoreInv
<1>2. t.inv \in Invoice
  BY <1>1 DEF Requests
<1>3. t.payW # "none" => t.pay \in Payment /\ t.inv = InvoiceOf[t.pay]
  BY <1>1 DEF Requests, Op, RequestFits, RowsFit, WritesFit, Inserting
<1>4. t.payW = "pending" => t.op = "pay" /\ payStatus[t.pay] = "absent"
  BY <1>1 DEF Requests, Op, RequestFits, RowsFit, WritesFit, Inserting
<1>5. invStatus' = IF t.invW = "none" THEN invStatus ELSE [invStatus EXCEPT ![t.inv] = t.invW]
  BY <1>2 DEF Commit, CoreInv, TypeOK
<1>6. payStatus' = IF t.payW = "none" THEN payStatus ELSE [payStatus EXCEPT ![t.pay] = t.payW]
  BY <1>3 DEF Commit, PaymentsSeen, CoreInv, TypeOK
<1>7. payKey' = IF t.payW = "pending" THEN [payKey EXCEPT ![t.pay] = t.key] ELSE payKey
  BY <1>3 DEF Commit, CoreInv, TypeOK
<1> QED BY <1>1, <1>3, <1>4, <1>5, <1>6, <1>7

LEMMA SerialCommits ==
  ASSUME CoreInv, CoreInv', SerialInv, NEW r \in Request, Commit(r)
  PROVE  SerialInv'
<1> DEFINE t == tx[r]
<1>0. /\ t \in Requests
      /\ invStatus' = IF t.invW = "none" THEN invStatus ELSE [invStatus EXCEPT ![t.inv] = t.invW]
      /\ payStatus' = IF t.payW = "none" THEN payStatus ELSE [payStatus EXCEPT ![t.pay] = t.payW]
      /\ payKey' = IF t.payW = "pending" THEN [payKey EXCEPT ![t.pay] = t.key] ELSE payKey
      /\ t.payW # "none" => t.pay \in Payment /\ t.inv = InvoiceOf[t.pay]
  BY CommitEffect
<1>1. /\ tx'[r] = Free
      /\ \A q \in Request \ {r} : tx'[q] = tx[q]
      /\ t # Free
  BY DEF Commit, CoreInv, TypeOK, Free
<1> HIDE DEF t
<1>2. Alone'
  BY <1>1 DEF SerialInv, Alone
<1>3. ASSUME NEW q \in Request PROVE Stands(tx[q])'
  <2>1. CASE tx'[q] = Free
    BY <2>1 DEF Free, Stands, InvoiceStands, Inserting, PaymentStands, RollupStands
  <2>2. CASE tx'[q] # Free
    <3> PICK u : u = tx[q]
      OBVIOUS
    <3>1. q # r /\ tx'[q] = u /\ u # Free
      BY <1>1, <2>2
    <3>2. u.inv # t.inv
      BY <1>1, <3>1 DEF SerialInv, Alone, t
    <3>3. u \in Requests /\ RequestFits(u) /\ Stands(u)
      BY <3>1 DEF CoreInv, TypeOK, SerialInv
    <3>4. u.inv \in Invoice
      BY <3>3 DEF Requests
    <3>5. u.payW = "pending" => PaymentWithKey(u.key)' = {}
      <4> SUFFICES ASSUME u.payW = "pending", NEW p \in Payment,
                          payStatus'[p] # "absent", payKey'[p] = u.key
                   PROVE  FALSE
        BY DEF PaymentWithKey
      <4>1. PaymentWithKey(u.key) = {}
        BY <3>3 DEF Stands, PaymentStands
      <4>2. ~ (p = t.pay /\ t.payW # "none") => payStatus'[p] = payStatus[p]
        BY <1>0 DEF CoreInv, TypeOK
      <4>3. ~ (p = t.pay /\ t.payW = "pending") => payKey'[p] = payKey[p]
        BY <1>0 DEF CoreInv, TypeOK
      <4>4. t.payW \in {"confirmed", "rejected"} => payStatus[t.pay] # "absent"
        BY <1>0 DEF CoreInv, t, Requests, Op, RequestFits, RowsFit, WritesFit
      <4>5. p = t.pay /\ t.payW = "pending"
        <5>1. CASE t.payW = "pending"
          BY <5>1, <4>1, <4>2, <4>3 DEF PaymentWithKey
        <5>2. CASE t.payW # "pending"
          <6>1. payKey[p] = u.key
            BY <5>2, <4>3
          <6>2. payStatus[p] # "absent"
            BY <1>0, <5>2, <4>2, <4>4 DEF Requests, PaymentStatus
          <6> QED BY <6>1, <6>2, <4>1 DEF PaymentWithKey
        <5> QED BY <5>1, <5>2
      <4>6. t.key = u.key
        BY <1>0, <4>5 DEF CoreInv, TypeOK
      <4> QED BY <3>1, <4>5, <4>6 DEF CoreInv, LocksExclusive, t
    <3>6. invStatus'[u.inv] = invStatus[u.inv]
      BY <1>0, <3>2, <3>4 DEF CoreInv, TypeOK
    <3>7. \A p \in Payment : InvoiceOf[p] = u.inv => payStatus'[p] = payStatus[p]
      BY <1>0, <3>2 DEF CoreInv, TypeOK
    <3>8. /\ invStatus' \in [Invoice -> InvoiceStatus \cup {"absent"}]
          /\ payStatus' \in [Payment -> PaymentStatus \cup {"absent"}]
          /\ TypeOK
      BY DEF CoreInv, TypeOK
    <3>9. Stands(u)'
      BY <3>3, <3>4, <3>5, <3>6, <3>7, <3>8, StandsKept
    <3> QED BY <3>1, <3>9 DEF Stands, InvoiceStands, Inserting, PaymentStands, RollupStands, Due
  <2> QED BY <2>1, <2>2
<1> QED BY <1>2, <1>3 DEF SerialInv

LEMMA SerialStep ==
  ASSUME ~ Overlap
  PROVE  CoreInv /\ CoreInv' /\ SerialInv /\ [Next]_vars => SerialInv'
<1> SUFFICES ASSUME CoreInv, CoreInv', SerialInv, [Next]_vars PROVE SerialInv'
  OBVIOUS
<1>1. CASE UNCHANGED vars
  <2>1. Alone'
    BY <1>1 DEF vars, SerialInv, Alone
  <2>2. \A r \in Request : Stands(tx[r])'
    BY <1>1 DEF vars, db, SerialInv, Stands, InvoiceStands, Inserting, PaymentStands,
                PaymentWithKey, RollupStands, Due
  <2> QED BY <2>1, <2>2 DEF SerialInv
<1>2. ASSUME NEW r \in Request, CommitAborted(r) \/ Rollback(r) PROVE SerialInv'
  <2>1. Locally(r, Free)
    BY <1>2 DEF CommitAborted, Rollback, Become, Locally, history
  <2> QED BY <2>1, FreeStands, SerialLocal
<1>3. CASE \E r \in Request : Start(r) \/ Reading(r) \/ Locking(r) \/ Ending(r) \/ Rollback(r)
  BY <1>2, <1>3, SerialBegins, SerialPays, SerialUpdates, SerialReads, SerialCommits
     DEF Reading, Locking, Ending, Refused
<1> QED BY <1>1, <1>3 DEF Next

LEMMA SerialInvariant ==
  ASSUME ~ Overlap
  PROVE  Spec => [](CoreInv /\ SlotInv /\ SerialInv)
<1>1. Init => SerialInv
  BY FreeStands DEF Init, SerialInv, Alone
<1>2. Init => SlotInv
  BY DEF Init, SlotInv, OneLiveInvoicePerSlot, SlotHeld, Free
<1>3. CoreInv /\ CoreInv' /\ SerialInv /\ [Next]_vars => SerialInv'
  BY SerialStep
<1> QED BY <1>1, <1>2, <1>3, SlotStep, CoreInvariant, PTL DEF Spec

-----------------------------------------------------------------------------
(* The functions of IdealBilling are those of Billing. *)
LEMMA SameCredit ==
  ASSUME NEW S
  PROVE  Ideal!Credit(S) = Credit(S)
BY Zenon DEF Ideal!Credit, Credit, Ideal!MapThenSumSet, MapThenSumSet, Ideal!MapThenFoldSet,
             MapThenFoldSet

LEMMA SameRollup ==
  ASSUME NEW i, NEW status, NEW ps
  PROVE  /\ Ideal!ConfirmedOn(i, ps) = ConfirmedOn(i, ps)
         /\ Ideal!RollupStatus(i, status, ps) = RollupStatus(i, status, ps)
<1>2. Ideal!ConfirmedOn(i, ps) = ConfirmedOn(i, ps)
  BY DEF Ideal!ConfirmedOn, ConfirmedOn
<1>3. Ideal!RollupStatus(i, status, ps) = RollupStatus(i, status, ps)
  BY SameCredit DEF Ideal!RollupStatus, RollupStatus
<1> QED BY <1>2, <1>3

(* Every commit is a step of IdealBilling, or changes no row.              *)
LEMMA CommitIsIdeal ==
  ASSUME CoreInv, SlotInv, SerialInv, NEW r \in Request, Commit(r)
  PROVE  Ideal!Next \/ UNCHANGED <<invStatus, payStatus, payKey>>
<1> PICK t : t = tx[r]
  OBVIOUS
<1>1. /\ t \in Requests /\ RequestFits(t) /\ t.at = "commit" /\ Stands(t)
      /\ invStatus' = IF t.invW = "none" THEN invStatus ELSE [invStatus EXCEPT ![t.inv] = t.invW]
      /\ payStatus' = IF t.payW = "none" THEN payStatus ELSE [payStatus EXCEPT ![t.pay] = t.payW]
      /\ payKey' = IF t.payW = "pending" THEN [payKey EXCEPT ![t.pay] = t.key] ELSE payKey
      /\ t.payW # "none" => t.pay \in Payment /\ t.inv = InvoiceOf[t.pay]
      /\ t.payW = "pending" => t.op = "pay" /\ payStatus[t.pay] = "absent"
  BY CommitEffect DEF SerialInv
<1>2. t.inv \in Invoice
  BY <1>1 DEF Requests
<1>3. CASE t.invW = "none" /\ t.payW = "none"
  BY <1>1, <1>3
<1>4. CASE t.op = "create" /\ t.invW # "none"
  <2>1. t.invW = "draft" /\ t.payW = "none" /\ invStatus[t.inv] = "absent"
    BY <1>1, <1>4 DEF RequestFits, RowsFit, WritesFit
  <2>2. ~ SlotTaken(t.inv, invStatus)
    BY <1>2, <2>1 DEF SlotInv, SlotHeld, Live, SlotTaken
  <2>3. Ideal!CreateInvoice(t.inv)
    BY <1>1, <2>1, <2>2 DEF Ideal!CreateInvoice, Ideal!SlotTaken, SlotTaken
  <2> QED BY <1>2, <2>3 DEF Ideal!Next
<1>5. CASE t.op = "issue" /\ t.invW # "none"
  <2>1. t.invW = "issued" /\ t.payW = "none" /\ invStatus[t.inv] = "draft"
    BY <1>1, <1>5 DEF RequestFits, WritesFit, Stands, InvoiceStands
  <2>2. Ideal!IssueInvoice(t.inv)
    BY <1>1, <2>1 DEF Ideal!IssueInvoice
  <2> QED BY <1>2, <2>2 DEF Ideal!Next
<1>6. CASE t.op = "void" /\ t.invW # "none"
  <2>1. /\ t.invW = "void" /\ t.payW = "none"
        /\ invStatus[t.inv] \in {"draft", "issued", "partially_paid"}
    BY <1>1, <1>2, <1>6 DEF RequestFits, RowsFit, WritesFit, Stands, InvoiceStands, CoreInv, TypeOK,
                      InvoiceStatus
  <2>2. Ideal!VoidInvoice(t.inv)
    BY <1>1, <2>1 DEF Ideal!VoidInvoice
  <2> QED BY <1>2, <2>2 DEF Ideal!Next
<1>7. CASE t.op = "patch" /\ t.invW # "none"
  <2>1. t.invW = invStatus[t.inv] /\ t.payW = "none"
    BY <1>1, <1>7 DEF RequestFits, WritesFit
  <2>2. [invStatus EXCEPT ![t.inv] = invStatus[t.inv]] = invStatus
    BY DEF CoreInv, TypeOK
  <2> QED BY <1>1, <1>7, <2>1, <2>2
<1>8. CASE t.op = "pay" /\ t.payW # "none"
  <2>1. /\ t.payW = "pending" /\ t.invW = "none" /\ t.key \in Key /\ Inserting(t)
        /\ Sent(t.inv)
    BY <1>1, <1>8 DEF RequestFits, RowsFit, WritesFit, Inserting
  <2>2. invStatus[t.inv] \in Payable /\ PaymentWithKey(t.key) = {}
    BY <1>1, <1>2, <2>1 DEF Stands, InvoiceStands, PaymentStands, Sent, Payable, CoreInv, TypeOK,
                            InvoiceStatus
  <2>3. Ideal!CreatePayment(t.pay, t.key)
    BY <1>1, <2>1, <2>2 DEF Ideal!CreatePayment, Ideal!KeyUsed, Ideal!Payable, Payable, PaymentWithKey
  <2> QED BY <1>1, <2>1, <2>3 DEF Ideal!Next
<1>9. CASE t.op = "reject" /\ t.payW # "none"
  <2>1. t.payW = "rejected" /\ t.invW = "none" /\ payStatus[t.pay] = "pending"
    BY <1>1, <1>9 DEF RequestFits, RowsFit, WritesFit, Stands, PaymentStands, Requests, PaymentStatus
  <2>2. Ideal!RejectPayment(t.pay)
    BY <1>1, <2>1 DEF Ideal!RejectPayment
  <2> QED BY <1>1, <2>1, <2>2 DEF Ideal!Next
<1>10. CASE t.op = "confirm" /\ t.payW # "none"
  <2>1. t.payW = "confirmed" /\ payStatus[t.pay] = "pending"
    BY <1>1, <1>10 DEF RequestFits, RowsFit, WritesFit, Stands, PaymentStands, Requests, PaymentStatus
  <2>2. \/ t.invW = "none" /\ invStatus[t.inv] \in {"void", Due(t)}
        \/ t.invW = Due(t) /\ invStatus[t.inv] # "void"
    BY <1>1, <1>10, <2>1 DEF Stands, RollupStands
  <2>3. payStatus' = [payStatus EXCEPT ![t.pay] = "confirmed"] /\ t.inv = InvoiceOf[t.pay]
    BY <1>1, <2>1
  <2>4. Due(t) = RollupStatus(t.inv, invStatus[t.inv], ConfirmedOn(t.inv, payStatus'))
    BY <2>3 DEF Due
  <2>5. invStatus' = IF invStatus[t.inv] = "void" THEN invStatus
                     ELSE [invStatus EXCEPT ![t.inv] = Due(t)]
    <3>1. CASE t.invW = "none" /\ invStatus[t.inv] = Due(t)
      <4>1. [invStatus EXCEPT ![t.inv] = Due(t)] = invStatus
        BY <3>1 DEF CoreInv, TypeOK
      <4> QED BY <1>1, <3>1, <4>1
    <3>2. CASE t.invW = "none" /\ invStatus[t.inv] = "void"
      BY <1>1, <3>2
    <3>3. CASE t.invW = Due(t) /\ invStatus[t.inv] # "void" /\ t.invW # "none"
      BY <1>1, <3>3
    <3>4. Due(t) # "none"
      BY <1>2, <2>4 DEF RollupStatus, CoreInv, TypeOK, InvoiceStatus
    <3> QED BY <2>2, <3>1, <3>2, <3>3, <3>4
  <2>6. payKey' = payKey
    BY <1>1, <2>1
  <2>7. Ideal!ConfirmPayment(t.pay)
    <3>1. Ideal!RollupStatus(t.inv, invStatus[t.inv], Ideal!ConfirmedOn(t.inv, payStatus')) = Due(t)
      BY <2>4, SameRollup
    <3> QED BY <2>1, <2>3, <2>5, <2>6, <3>1 DEF Ideal!ConfirmPayment
  <2> QED BY <1>1, <2>1, <2>7 DEF Ideal!Next
<1>11. t.op \in {"confirm", "reject", "pay"} /\ t.payW = "none" => t.invW = "none"
  BY <1>1 DEF RequestFits, WritesFit, Stands, RollupStands
<1>12. t.op \in {"create", "issue", "void", "patch"} => t.payW = "none"
  BY <1>1 DEF RequestFits, WritesFit
<1> QED BY <1>1, <1>3, <1>4, <1>5, <1>6, <1>7, <1>8, <1>9, <1>10, <1>11, <1>12 DEF Requests, Op

(* As long as requests on one invoice do not overlap, every one of them is *)
(* one step of IdealBilling: no rollback, replay or failing audit insert   *)
(* is seen.                                                                *)
THEOREM RequestsAreSteps ==
  ASSUME ~ Overlap
  PROVE  Spec => ImplementsIdeal
<1>1. Init => Ideal!Init
  BY DEF Init, Ideal!Init
<1>2. CoreInv /\ SlotInv /\ SerialInv /\ [Next]_vars => [Ideal!Next]_(Ideal!vars)
  <2> SUFFICES ASSUME CoreInv, SlotInv, SerialInv, [Next]_vars
               PROVE  Ideal!Next \/ UNCHANGED <<invStatus, payStatus, payKey>>
    BY DEF Ideal!vars
  <2>1. CASE \E r \in Request : Commit(r)
    BY <2>1, CommitIsIdeal
  <2>2. CASE ~ \E r \in Request : Commit(r)
    BY <2>2, CommitOnly DEF db
  <2> QED BY <2>1, <2>2
<1>3. Spec => [](CoreInv /\ SlotInv /\ SerialInv)
  BY SerialInvariant
<1> QED BY <1>1, <1>2, <1>3, PTL DEF Spec, ImplementsIdeal, Ideal!Spec

-----------------------------------------------------------------------------
(* A set of naturals that is not empty has a least member.                *)
Smaller == {ss \in Nat \X Nat : ss[1] < ss[2]}

LEMMA SmallerIsWellFounded == IsWellFoundedOn(Smaller, Nat)
<1>1. Smaller = OpToRel(<, Nat)
  BY Zenon DEF OpToRel, Smaller
<1> QED BY <1>1, NatLessThanWellFounded, Zenon

LEMMA NatMin ==
  ASSUME NEW S \in SUBSET Nat, S # {}
  PROVE  \E x \in S : \A y \in S : x <= y
<1>2. PICK x \in S : \A y \in S : ~(<<y, x>> \in Smaller)
  BY SmallerIsWellFounded, WFMin
<1>3. ASSUME NEW y \in S PROVE x <= y
  <2>1. ~(y < x)
    BY <1>2 DEF Smaller
  <2> QED BY <2>1
<1> QED BY <1>3

(* Of finite sets with a property, one has no smaller one among them.      *)
LEMMA LeastSet ==
  ASSUME NEW C, C # {}, \A s \in C : IsFiniteSet(s)
  PROVE  \E s \in C : \A u \in C : u \subseteq s => u = s
<1> DEFINE Sizes == {Cardinality(s) : s \in C}
<1>1. Sizes \in SUBSET Nat /\ Sizes # {}
  BY FS_CardinalityType
<1>2. PICK n \in Sizes : \A m \in Sizes : n <= m
  <2> HIDE DEF Sizes
  <2> QED BY <1>1, NatMin
<1>3. PICK s \in C : Cardinality(s) = n
  BY <1>2
<1>4. ASSUME NEW u \in C, u \subseteq s, u # s PROVE FALSE
  <2>1. IsFiniteSet(s) /\ IsFiniteSet(u) /\ u \in SUBSET s
    BY <1>4
  <2>2. Cardinality(u) <= Cardinality(s) /\ Cardinality(u) # Cardinality(s)
    BY <2>1, <1>4, FS_Subset
  <2>3. Cardinality(u) \in Nat /\ Cardinality(s) \in Nat
    BY <2>1, FS_CardinalityType
  <2>4. Cardinality(s) <= Cardinality(u)
    BY <1>2, <1>3
  <2> QED BY <2>2, <2>3, <2>4
<1> QED BY <1>4

(* The one Credit adds first, and what it adds up to over the subsets of S. *)
First(s) == CHOOSE x \in s : TRUE

Sums(g, S) ==
    g = [s \in SUBSET S |-> IF s = {} THEN 0 ELSE Amount[First(s)] + g[s \ {First(s)}]]

SumOf(S) == CHOOSE g : Sums(g, S)

LEMMA CreditIsSum ==
  ASSUME NEW S
  PROVE  Credit(S) = SumOf(S)[S]
BY Zenon DEF Credit, MapThenSumSet, MapThenFoldSet, SumOf, Sums, First

LEMMA SumsAt ==
  ASSUME NEW S, NEW g, Sums(g, S)
  PROVE  \A s \in SUBSET S :
            /\ s = {} => g[s] = 0
            /\ s # {} => g[s] = Amount[First(s)] + g[s \ {First(s)}]
BY DEF Sums

LEMMA FirstIn == ASSUME NEW s, s # {} PROVE First(s) \in s
BY DEF First

LEMMA SumsAgree ==
  ASSUME NEW S, IsFiniteSet(S), NEW V \in SUBSET S, NEW g, NEW h, Sums(g, S), Sums(h, V)
  PROVE  \A s \in SUBSET V : g[s] = h[s]
<1> DEFINE Differ == {s \in SUBSET V : g[s] # h[s]}
<1> SUFFICES ASSUME Differ # {} PROVE FALSE
  OBVIOUS
<1>1. \A s \in Differ : IsFiniteSet(s)
  BY FS_Subset
<1> HIDE DEF Differ
<1>2. PICK s \in Differ : \A u \in Differ : u \subseteq s => u = s
  BY <1>1, LeastSet
<1>3. s \in SUBSET V /\ s \in SUBSET S /\ g[s] # h[s]
  BY <1>2 DEF Differ
<1>4. CASE s = {}
  <2>1. g[s] = 0
    BY <1>3, <1>4, SumsAt
  <2>2. h[s] = 0
    BY <1>3, <1>4, SumsAt
  <2> QED BY <2>1, <2>2, <1>3
<1>5. CASE s # {}
  <2> DEFINE u == s \ {First(s)}
  <2>1. u \in SUBSET V /\ u \subseteq s /\ u # s
    BY <1>3, <1>5, FirstIn
  <2>2. g[u] = h[u]
    BY <1>2, <2>1 DEF Differ
  <2>3. g[s] = Amount[First(s)] + g[u]
    BY <1>3, <1>5, SumsAt
  <2>4. h[s] = Amount[First(s)] + h[u]
    BY <1>3, <1>5, SumsAt
  <2> QED BY <2>2, <2>3, <2>4, <1>3
<1> QED BY <1>4, <1>5

LEMMA SumsExist ==
  ASSUME NEW S, IsFiniteSet(S)
  PROVE  Sums(SumOf(S), S)
<1> DEFINE Without == {s \in SUBSET S : ~ \E g : Sums(g, s)}
<1>1. \A s \in Without : IsFiniteSet(s)
  BY FS_Subset
<1>2. ASSUME Without # {} PROVE FALSE
  <2> PICK s \in Without : \A u \in Without : u \subseteq s => u = s
    <3> HIDE DEF Without
    <3> QED BY <1>1, <1>2, LeastSet
  <2>0. s \in SUBSET S /\ IsFiniteSet(s)
    BY <1>1
  <2>1. ASSUME NEW u \in SUBSET s, u # s PROVE Sums(SumOf(u), u) /\ IsFiniteSet(u)
    <3>1. \E g : Sums(g, u)
      BY <2>1
    <3> QED BY <2>0, <2>1, <3>1, FS_Subset DEF SumOf
  <2> HIDE DEF Without
  <2> DEFINE rest(u) == u \ {First(u)}
             h == [u \in SUBSET s |-> IF u = {} THEN 0
                                      ELSE Amount[First(u)] + SumOf(rest(u))[rest(u)]]
  <2>2. ASSUME NEW u \in SUBSET s, u # {} PROVE SumOf(rest(u))[rest(u)] = h[rest(u)]
    <3> DEFINE v == rest(u)
    <3>1. v \in SUBSET s /\ v # s
      BY <2>2, FirstIn
    <3>2. Sums(SumOf(v), v) /\ IsFiniteSet(v)
      BY <3>1, <2>1
    <3>3. CASE v = {}
      <4>1. SumOf(v)[v] = 0
        BY <3>2, <3>3, SumsAt
      <4> QED BY <4>1, <3>1, <3>3
    <3>4. CASE v # {}
      <4> DEFINE w == rest(v)
      <4>1. w \in SUBSET v /\ w \in SUBSET s /\ w # s
        BY <3>1, <3>4, FirstIn
      <4>2. Sums(SumOf(w), w)
        BY <4>1, <2>1
      <4>3. SumOf(v)[v] = Amount[First(v)] + SumOf(v)[w]
        <5> HIDE DEF v
        <5>1. v \in SUBSET v
          OBVIOUS
        <5> QED BY <5>1, <3>2, <3>4, SumsAt
      <4>4. SumOf(v)[w] = SumOf(w)[w]
        BY <3>2, <4>1, <4>2, SumsAgree
      <4>5. h[v] = Amount[First(v)] + SumOf(w)[w]
        BY <3>1, <3>4
      <4> QED BY <4>3, <4>4, <4>5
    <3> QED BY <3>3, <3>4
  <2>3. Sums(h, s)
    <3>1. \A u \in SUBSET s : h[u] = IF u = {} THEN 0 ELSE Amount[First(u)] + h[rest(u)]
      BY <2>2
    <3>2. h = [u \in SUBSET s |-> h[u]]
      OBVIOUS
    <3> HIDE DEF h
    <3> QED BY <3>1, <3>2 DEF Sums
  <2> QED BY <2>3 DEF Without
<1>3. \E g : Sums(g, S)
  BY <1>2
<1> QED BY <1>3 DEF SumOf

LEMMA CreditAdds ==
  ASSUME NEW S, IsFiniteSet(S)
  PROVE  Credit(S) = IF S = {} THEN 0 ELSE Amount[First(S)] + Credit(S \ {First(S)})
<1>1. Sums(SumOf(S), S)
  BY SumsExist
<1>2. CASE S = {}
  <2>1. SumOf(S)[S] = 0
    BY <1>1, <1>2, SumsAt
  <2> QED BY <2>1, <1>2, CreditIsSum
<1>3. CASE S # {}
  <2> DEFINE u == S \ {First(S)}
  <2>1. u \in SUBSET S /\ IsFiniteSet(u)
    BY FS_Subset
  <2>2. Sums(SumOf(u), u)
    BY <2>1, SumsExist
  <2>3. SumOf(S)[S] = Amount[First(S)] + SumOf(S)[u]
    BY <1>1, <1>3, SumsAt
  <2>4. SumOf(S)[u] = SumOf(u)[u]
    BY <1>1, <2>1, <2>2, SumsAgree
  <2>5. Credit(u) = SumOf(u)[u] /\ Credit(S) = SumOf(S)[S]
    BY CreditIsSum
  <2> QED BY <1>3, <2>3, <2>4, <2>5
<1> QED BY <1>2, <1>3

(* What is credited is a whole number of satang, and something for any     *)
(* payment at all.                                                         *)
LEMMA CreditIsPositive ==
  ASSUME NEW S \in SUBSET Payment, IsFiniteSet(S)
  PROVE  Credit(S) \in Nat /\ (S # {} => Credit(S) > 0)
<1> DEFINE Fine(s) == Credit(s) \in Nat /\ (s # {} => Credit(s) > 0)
           Wrong == {s \in SUBSET S : ~ Fine(s)}
<1> SUFFICES ASSUME Wrong # {} PROVE FALSE
  OBVIOUS
<1>1. \A s \in Wrong : IsFiniteSet(s)
  BY FS_Subset
<1>2. PICK s \in Wrong : \A u \in Wrong : u \subseteq s => u = s
  <2> HIDE DEF Wrong
  <2> QED BY <1>1, LeastSet
<1>3. s \in SUBSET S /\ IsFiniteSet(s) /\ ~ Fine(s)
  BY <1>1, <1>2
<1>4. CASE s = {}
  <2>1. Credit(s) = 0
    BY <1>3, <1>4, CreditAdds
  <2> QED BY <2>1, <1>3, <1>4
<1>5. CASE s # {}
  <2> DEFINE u == s \ {First(s)}
  <2>1. First(s) \in Payment /\ u \in SUBSET S /\ u \subseteq s /\ u # s
    BY <1>3, <1>5, FirstIn
  <2>2. Fine(u)
    BY <1>2, <2>1
  <2>3. Credit(s) = Amount[First(s)] + Credit(u)
    BY <1>3, <1>5, CreditAdds
  <2>4. Amount[First(s)] \in Nat /\ Amount[First(s)] > 0
    BY <2>1, AmountAssumption
  <2> QED BY <2>2, <2>3, <2>4, <1>3
<1> QED BY <1>4, <1>5

-----------------------------------------------------------------------------
(* RollupAgrees: with every request one step, status and payments agree.   *)
Agreeing(i, status, confirmed) ==
    IF confirmed = {} THEN status \in {"draft", "issued"}
    ELSE status = IF Credit(confirmed) >= Total[i] THEN "paid" ELSE "partially_paid"

AllAgree(st, ps) ==
    \A i \in Invoice : st[i] \notin {"absent", "void"} => Agreeing(i, st[i], ConfirmedOn(i, ps))

LEMMA AgreeIs ==
  /\ RollupAgrees <=> AllAgree(invStatus, payStatus)
  /\ RollupAgrees' <=> AllAgree(invStatus', payStatus')
<1>1. ASSUME NEW i, NEW status, NEW ps
      PROVE  Agreeing(i, status, ps) <=>
                IF ps = {} THEN status \in {"draft", "issued"}
                ELSE status = IF Ideal!Credit(ps) >= Total[i] THEN "paid" ELSE "partially_paid"
  BY SameCredit DEF Agreeing
<1>2. ASSUME NEW i, NEW ps PROVE Ideal!ConfirmedOn(i, ps) = ConfirmedOn(i, ps)
  BY SameRollup
<1> QED BY <1>1, <1>2 DEF RollupAgrees, Ideal!RollupAgrees, AllAgree

(* Confirming a payment leaves its invoice with what it now adds up to.    *)
LEMMA RollupIsExact ==
  ASSUME NEW i \in Invoice, NEW status, NEW S \in SUBSET Payment, S # {}, IsFiniteSet(S)
  PROVE  Agreeing(i, RollupStatus(i, status, S), S)
<1>1. Credit(S) > 0
  BY CreditIsPositive
<1> QED BY <1>1 DEF Agreeing, RollupStatus

LEMMA AgreeStep ==
  ASSUME CoreInv, CoreInv', AgreeInv, Ideal!Next \/ UNCHANGED <<invStatus, payStatus, payKey>>
  PROVE  AgreeInv'
<1> DEFINE Confirmed(ps) == {p \in Payment : ps[p] = "confirmed"}
<1>1. AllAgree(invStatus, payStatus) /\ IsFiniteSet(Confirmed(payStatus))
  BY AgreeIs DEF AgreeInv
<1>2. /\ invStatus \in [Invoice -> InvoiceStatus \cup {"absent"}]
      /\ payStatus \in [Payment -> PaymentStatus \cup {"absent"}]
  BY DEF CoreInv, TypeOK
<1>3. ASSUME AllAgree(invStatus', payStatus'), IsFiniteSet(Confirmed(payStatus'))
      PROVE  AgreeInv'
  BY <1>3, AgreeIs DEF AgreeInv
<1> HIDE DEF Confirmed
<1>4. ASSUME NEW i \in Invoice, invStatus[i] \in {"absent", "draft"}
      PROVE  ConfirmedOn(i, payStatus) = {}
  BY <1>4 DEF CoreInv, NoPaymentOnDraft, ConfirmedOn
<1>5. ASSUME NEW i \in Invoice, NEW s \in InvoiceStatus, UNCHANGED payStatus,
             invStatus' = [invStatus EXCEPT ![i] = s],
             s = "void" \/ (invStatus[i] \in {"absent", "draft"} /\ s \in {"draft", "issued"})
      PROVE  AgreeInv'
  <2>1. ASSUME NEW j \in Invoice, invStatus'[j] \notin {"absent", "void"}
        PROVE  Agreeing(j, invStatus'[j], ConfirmedOn(j, payStatus'))
    <3>1. CASE j = i
      BY <1>2, <1>4, <1>5, <2>1, <3>1 DEF Agreeing
    <3>2. CASE j # i
      BY <1>1, <1>2, <1>5, <2>1, <3>2 DEF AllAgree
    <3> QED BY <3>1, <3>2
  <2> QED BY <1>1, <1>3, <1>5, <2>1 DEF AllAgree
<1>6. ASSUME NEW p \in Payment, NEW s \in {"pending", "rejected"}, payStatus[p] # "confirmed",
             payStatus' = [payStatus EXCEPT ![p] = s], UNCHANGED invStatus
      PROVE  AgreeInv'
  <2>1. \A i \in Invoice : ConfirmedOn(i, payStatus') = ConfirmedOn(i, payStatus)
    BY <1>2, <1>6 DEF ConfirmedOn
  <2>2. Confirmed(payStatus') = Confirmed(payStatus)
    BY <1>2, <1>6 DEF Confirmed
  <2> QED BY <1>1, <1>3, <1>6, <2>1, <2>2 DEF AllAgree
<1>7. ASSUME NEW p \in Payment, Ideal!ConfirmPayment(p) PROVE AgreeInv'
  <2> DEFINE i == InvoiceOf[p]
             paid == ConfirmedOn(i, payStatus')
  <2>0. i \in Invoice
    BY InvoiceOfAssumption
  <2>1. /\ payStatus' = [payStatus EXCEPT ![p] = "confirmed"]
        /\ invStatus' = IF invStatus[i] = "void" THEN invStatus
                        ELSE [invStatus EXCEPT ![i] = RollupStatus(i, invStatus[i], paid)]
    <3>1. Ideal!RollupStatus(i, invStatus[i], Ideal!ConfirmedOn(i, payStatus'))
             = RollupStatus(i, invStatus[i], paid)
      BY SameRollup
    <3> QED BY <1>7, <3>1 DEF Ideal!ConfirmPayment
  <2>2. Confirmed(payStatus') = Confirmed(payStatus) \cup {p}
    BY <1>2, <2>1 DEF Confirmed
  <2>3. IsFiniteSet(Confirmed(payStatus'))
    BY <1>1, <2>2, FS_AddElement
  <2>4. paid \in SUBSET Confirmed(payStatus') /\ paid \in SUBSET Payment /\ p \in paid
    BY <1>2, <2>1 DEF Confirmed, ConfirmedOn
  <2> HIDE DEF paid
  <2>5. IsFiniteSet(paid)
    BY <2>3, <2>4, FS_Subset
  <2>6. ASSUME NEW j \in Invoice, invStatus'[j] \notin {"absent", "void"}
        PROVE  Agreeing(j, invStatus'[j], ConfirmedOn(j, payStatus'))
    <3>1. CASE j = i
      <4>1. invStatus'[j] = RollupStatus(i, invStatus[i], paid)
        BY <1>2, <2>0, <2>1, <2>6, <3>1
      <4>2. Agreeing(i, RollupStatus(i, invStatus[i], paid), paid)
        BY <2>0, <2>4, <2>5, RollupIsExact
      <4> QED BY <3>1, <4>1, <4>2 DEF paid
    <3>2. CASE j # i
      <4>1. invStatus'[j] = invStatus[j]
        BY <1>2, <2>1, <3>2
      <4>2. ConfirmedOn(j, payStatus') = ConfirmedOn(j, payStatus)
        BY <1>2, <2>1, <3>2 DEF ConfirmedOn
      <4> QED BY <1>1, <2>6, <4>1, <4>2 DEF AllAgree
    <3> QED BY <3>1, <3>2
  <2> QED BY <1>3, <2>3, <2>6 DEF AllAgree
<1>8. CASE UNCHANGED <<invStatus, payStatus, payKey>>
  BY <1>1, <1>3, <1>8
<1>9. CASE Ideal!Next
  <2>1. ASSUME NEW i \in Invoice,
               Ideal!CreateInvoice(i) \/ Ideal!IssueInvoice(i) \/ Ideal!VoidInvoice(i)
        PROVE  AgreeInv'
    BY <1>5, <2>1 DEF Ideal!CreateInvoice, Ideal!IssueInvoice, Ideal!VoidInvoice, InvoiceStatus
  <2>2. ASSUME NEW p \in Payment, Ideal!RejectPayment(p) PROVE AgreeInv'
    BY <1>6, <2>2 DEF Ideal!RejectPayment
  <2>3. ASSUME NEW p \in Payment, NEW k \in Key, Ideal!CreatePayment(p, k) PROVE AgreeInv'
    BY <1>6, <2>3 DEF Ideal!CreatePayment
  <2> QED BY <1>7, <1>9, <2>1, <2>2, <2>3 DEF Ideal!Next
<1> QED BY <1>8, <1>9

LEMMA AgreesAlways ==
  ASSUME ~ Overlap
  PROVE  Spec => []AgreeInv
<1>1. Init => AgreeInv
  <2> SUFFICES ASSUME Init PROVE AgreeInv
    OBVIOUS
  <2>1. AllAgree(invStatus, payStatus)
    BY DEF Init, AllAgree
  <2>2. {p \in Payment : payStatus[p] = "confirmed"} = {}
    BY DEF Init
  <2> QED BY <2>1, <2>2, AgreeIs, FS_EmptySet DEF AgreeInv
<1>2. CoreInv /\ CoreInv' /\ AgreeInv /\ [Ideal!Next]_(Ideal!vars) => AgreeInv'
  BY AgreeStep DEF Ideal!vars
<1>3. Spec => ImplementsIdeal
  BY RequestsAreSteps
<1> QED BY <1>1, <1>2, <1>3, CoreInvariant, PTL DEF Spec, ImplementsIdeal, Ideal!Spec

(* Outside a request, the status of an invoice that is not void is exactly *)
(* what its confirmed payments add up to, if requests on one invoice do    *)
(* not overlap.                                                            *)
THEOREM StatusIsTheSum ==
  ASSUME ~ Overlap
  PROVE  Spec => []RollupAgrees
<1>1. AgreeInv => RollupAgrees
  BY DEF AgreeInv
<1>2. Spec => []AgreeInv
  BY AgreesAlways
<1> QED BY <1>1, <1>2, PTL

(* The comments of PaymentService hold of requests that do not overlap: a  *)
(* decision is final, a void invoice is never paid, a full payment pays.   *)
THEOREM PromisesHoldAlone ==
  ASSUME ~ Overlap
  PROVE  Spec => []FullyPaidIsPaid /\ DecidedIsFinal /\ VoidNeverPaid
<1>1. CoreInv /\ AgreeInv => FullyPaidIsPaid
  <2> SUFFICES ASSUME CoreInv, AgreeInv, NEW i \in Invoice, invStatus[i] = "partially_paid"
               PROVE  Credit(ConfirmedOn(i, payStatus)) < Total[i]
    BY DEF FullyPaidIsPaid
  <2> DEFINE paid == ConfirmedOn(i, payStatus)
             all == {p \in Payment : payStatus[p] = "confirmed"}
  <2>1. Agreeing(i, invStatus[i], paid)
    BY AgreeIs DEF AgreeInv, AllAgree
  <2>2. paid \in SUBSET all /\ paid \in SUBSET Payment /\ IsFiniteSet(all)
    BY DEF ConfirmedOn, AgreeInv
  <2> HIDE DEF paid, all
  <2>3. IsFiniteSet(paid)
    BY <2>2, FS_Subset
  <2>4. Credit(paid) \in Nat
    BY <2>2, <2>3, CreditIsPositive
  <2>5. ~ (Credit(paid) >= Total[i])
    BY <2>1 DEF Agreeing
  <2>6. Total[i] \in Int
    BY TotalAssumption
  <2>7. Credit(paid) < Total[i]
    BY <2>4, <2>5, <2>6
  <2> QED BY <2>7 DEF paid
<1> DEFINE Kept == /\ \A p \in Payment : payStatus[p] \in {"confirmed", "rejected"}
                                               => payStatus'[p] = payStatus[p]
                   /\ \A i \in Invoice : invStatus[i] = "void"
                                               => invStatus'[i] \notin {"paid", "partially_paid"}
<1>2. ASSUME CoreInv, [Ideal!Next]_(Ideal!vars) PROVE Kept
  <2> USE DEF CoreInv, TypeOK
  <2>1. ASSUME NEW i \in Invoice,
               Ideal!CreateInvoice(i) \/ Ideal!IssueInvoice(i) \/ Ideal!VoidInvoice(i)
        PROVE  Kept
    <3>1. payStatus' = payStatus
      BY <2>1 DEF Ideal!CreateInvoice, Ideal!IssueInvoice, Ideal!VoidInvoice
    <3>2. PICK s \in {"draft", "issued", "void"} : invStatus' = [invStatus EXCEPT ![i] = s]
      BY <2>1 DEF Ideal!CreateInvoice, Ideal!IssueInvoice, Ideal!VoidInvoice
    <3> QED BY <3>1, <3>2
  <2>2. ASSUME NEW p \in Payment, Ideal!RejectPayment(p) PROVE Kept
    BY <2>2 DEF Ideal!RejectPayment
  <2>3. ASSUME NEW p \in Payment, NEW k \in Key, Ideal!CreatePayment(p, k) PROVE Kept
    BY <2>3 DEF Ideal!CreatePayment
  <2>4. ASSUME NEW p \in Payment, Ideal!ConfirmPayment(p) PROVE Kept
    <3>1. payStatus[p] = "pending" /\ payStatus' = [payStatus EXCEPT ![p] = "confirmed"]
      BY <2>4 DEF Ideal!ConfirmPayment
    <3>2. \A i \in Invoice : invStatus[i] = "void" => invStatus'[i] = "void"
      BY <2>4 DEF Ideal!ConfirmPayment
    <3> QED BY <3>1, <3>2
  <2>5. CASE UNCHANGED Ideal!vars
    BY <2>5 DEF Ideal!vars
  <2> QED BY <1>2, <2>1, <2>2, <2>3, <2>4, <2>5 DEF Ideal!Next
<1>3. CoreInv /\ [Ideal!Next]_(Ideal!vars) /\ [Next]_vars =>
        /\ [\A p \in Payment :
              payStatus[p] \in {"confirmed", "rejected"} => payStatus'[p] = payStatus[p]]_vars
        /\ [\A i \in Invoice :
              invStatus[i] = "void" => invStatus'[i] \notin {"paid", "partially_paid"}]_vars
  BY <1>2
<1>4. Spec => ImplementsIdeal
  BY RequestsAreSteps
<1>5. Spec => []AgreeInv
  BY AgreesAlways
<1> QED BY <1>1, <1>3, <1>4, <1>5, CoreInvariant, PTL
        DEF Spec, ImplementsIdeal, Ideal!Spec, DecidedIsFinal, VoidNeverPaid
=============================================================================
