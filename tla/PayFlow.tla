------------------------------- MODULE PayFlow -------------------------------
(***************************************************************************)
(* Paying a bill from the tenant's phone: the LIFF session, the pay page    *)
(* with its four-hop upload of a slip (payment, signed URL, bytes to the    *)
(* bucket, registration), the status page that polls, and the payments page *)
(* of the admin web on the other side.  Billing has the transactions behind *)
(* a payment; here a request is one step, whose answer may be lost.         *)
(***************************************************************************)
EXTENDS Naturals, FiniteSets

CONSTANTS
    Tab,        \* LIFF tabs
    Bill,
    BillOf,     \* [Tab -> Bill]: the bill a tab is about
    Upload,     \* ids of uploads; the payment an upload makes has its id
    Row,        \* uploads whose payment the operator looks at on the payments page
    Desk,       \* clients of the admin API, which upload for a tenant
    MaxMounts,  \* bound: pages a tab opens
    MaxFetches, \* bound: fetches of one row under way
    Nil

Payment == [status : {"pending", "confirmed", "rejected"}, slip : Upload \cup {Nil}]

Uploading == [by : Tab \cup Desk, at : {"create", "mint", "put", "check", "insert", "done", "failed"},
            payment : Upload \cup {Nil}, watched : BOOLEAN]

PayFlowConstants ==
    /\ BillOf \in [Tab -> Bill] /\ Tab \cap Desk = {} /\ Row \subseteq Upload
    /\ MaxMounts \in Nat /\ MaxFetches \in Nat /\ Nil \notin Upload \cup Tab \cup Desk
    /\ Nil \notin Payment /\ Nil \notin Uploading /\ Nil \notin {"pending", "confirmed", "rejected"}

ASSUME PayFlowAssumption == PayFlowConstants

VARIABLES
    bills,     \* [Bill -> its status]
    payments,  \* [Upload -> Nil or the payment that upload made]
    bucket,    \* objects, each under the key minted for an upload
    up,        \* [Upload -> Nil or the upload]
    token,     \* [Tab -> the token minted last: none, good or old]
    stored,    \* tabs with a token in sessionStorage
    tab,       \* [Tab -> its page, session and what it shows]
    rows,      \* [Row -> the status the payments page has, Nil for no row]
    view,      \* [Row -> the expanded panel of its row]
    mounts,    \* counter of the bound
    told,      \* history: payments whose decision was kept and told to the payments page
    overtaken, \* history: uploads whose registration a decision came into
    unkept     \* history: slips that were answered as registered and not kept

payVars == <<bills, payments, bucket, up, token, stored, tab, rows, view, mounts, told, overtaken, unkept>>

api   == <<bills, payments, bucket>>
liff  == <<up, token, stored, tab, mounts>>
admin == <<rows, view, told, overtaken, unkept>>

NewTab == [page |-> "bill", session |-> "loading", bill |-> Nil, payment |-> Nil, shown |-> Nil, error |-> FALSE]

NoView == [open |-> FALSE, slip |-> Nil, missing |-> FALSE, fetches |-> 0, cut |-> FALSE]

(* An open bill is issued, or partially paid: both can be paid.             *)
BillStatus == {"open", "paid", "void"}

UnderWay == {"create", "mint", "put", "check", "insert"}
Decided == {"confirmed", "rejected"}

PayTypeOK ==
    /\ bills \in [Bill -> BillStatus]
    /\ payments \in [Upload -> Payment \cup {Nil}] /\ up \in [Upload -> Uploading \cup {Nil}]
    /\ \A p \in Upload : payments[p] # Nil => up[p] # Nil /\ up[p].by \in Tab
    /\ \A u \in Upload : up[u] # Nil /\ up[u].at \notin {"create", "mint", "failed"} => payments[up[u].payment] # Nil
    /\ bucket \subseteq Upload /\ stored \subseteq Tab
    /\ token \in [Tab -> {"none", "good", "old"}]
    /\ tab \in [Tab -> [page : {"bill", "pay", "status"}, session : {"loading", "in", "bind", "error"},
                        bill : BillStatus \cup {Nil}, payment : Upload \cup {Nil},
                        shown : {"pending", "confirmed", "rejected", Nil}, error : BOOLEAN]]
    /\ rows \in [Row -> {"pending", "confirmed", "rejected", Nil}]
    /\ view \in [Row -> [open : BOOLEAN, slip : Upload \cup {Nil}, missing : BOOLEAN, fetches : Nat, cut : BOOLEAN]]
    /\ told \subseteq Row /\ unkept \subseteq Upload

PayInit ==
    /\ bills = [b \in Bill |-> "open"] /\ payments = [p \in Upload |-> Nil] /\ bucket = {}
    /\ up = [u \in Upload |-> Nil] /\ token = [t \in Tab |-> "none"] /\ stored = {}
    /\ tab = [t \in Tab |-> NewTab] /\ mounts = [t \in Tab |-> 1]
    /\ rows = [p \in Row |-> Nil] /\ view = [p \in Row |-> NoView]
    /\ told = {} /\ overtaken = {} /\ unkept = {}

Made == {p \in Upload : payments[p] # Nil}

-----------------------------------------------------------------------------
(* The session.  Every page that mounts starts useTenantSession again.      *)

Mount(t, page, payment) ==
    /\ mounts[t] < MaxMounts /\ mounts' = [mounts EXCEPT ![t] = @ + 1]
    /\ tab' = [tab EXCEPT ![t] = [NewTab EXCEPT !.page = page, !.payment = payment, !.bill = tab[t].bill]]
    /\ up' = [u \in Upload |-> IF up[u] # Nil /\ up[u].by = t
                               THEN [up[u] EXCEPT !.watched = FALSE] ELSE up[u]]

(* The bill page links to the pay page while it shows the bill as open, the *)
(* status page when the payment it shows is rejected.                      *)
PayLink(t) == tab[t].page = "bill" /\ tab[t].bill \notin {Nil, "paid", "void"}
RetryLink(t) == tab[t].page = "status" /\ tab[t].shown = "rejected" /\ ~tab[t].error

(* A link, to the bill or to the pay page.  A mutation that runs goes on     *)
(* without its page.                                                       *)
Go(t, page) ==
    /\ page = "pay" => PayLink(t) \/ RetryLink(t)
    /\ page \in {"bill", "pay"} /\ tab[t].page # page
    /\ Mount(t, page, Nil)
    /\ UNCHANGED <<api, admin, token, stored>>

(* A reload forgets the queries' answers and stops what was running.        *)
Reload(t) ==
    /\ mounts[t] < MaxMounts /\ mounts' = [mounts EXCEPT ![t] = @ + 1]
    /\ tab' = [tab EXCEPT ![t] = [NewTab EXCEPT !.page = tab[t].page, !.payment = tab[t].payment]]
    /\ up' = [u \in Upload |-> IF up[u] # Nil /\ up[u].by = t
                               THEN [up[u] EXCEPT !.watched = FALSE,
                                                  !.at = IF @ \in UnderWay THEN "failed" ELSE @]
                               ELSE up[u]]
    /\ UNCHANGED <<api, admin, token, stored>>

(* Where the exchange of an id token leads: a 401, for a tenant who is not   *)
(* bound or not active, to the bind page; any other failure is an error.    *)
Exchanged == {"in", "bind", "error"}

(* readTenantToken returns a token that does not expire soon; otherwise the *)
(* id token is exchanged.                                                  *)
Start(t) ==
    /\ tab[t].session = "loading"
    /\ \/ /\ t \in stored /\ token[t] = "good"
          /\ tab' = [tab EXCEPT ![t].session = "in"] /\ UNCHANGED <<token, stored>>
       \/ \E session \in Exchanged :
             /\ tab' = [tab EXCEPT ![t].session = session]
             /\ token' = [token EXCEPT ![t] = IF session = "in" THEN "good" ELSE "none"]
             /\ stored' = IF session = "in" THEN stored \cup {t} ELSE stored \ {t}
    /\ UNCHANGED <<api, admin, up, mounts>>

Expire(t) ==
    /\ token[t] = "good" /\ token' = [token EXCEPT ![t] = "old"]
    /\ UNCHANGED <<api, admin, up, stored, tab, mounts>>

(* verifyTenantToken: an expired token is refused with 401.                 *)
Verified(t) == token[t] = "good"

(* A 401 drops the stored token; the page keeps the one it holds.           *)
AfterAnswer(t, authorised) == stored' = IF authorised THEN stored ELSE stored \ {t}

-----------------------------------------------------------------------------
(* The queries of the bill page, the pay page and the status page.          *)

(* useInvoiceDetail; the answer is kept for the pages that follow.          *)
LoadBill(t) ==
    /\ tab[t].session = "in" /\ tab[t].page # "status"
    /\ tab[t].bill # bills[BillOf[t]] \/ token[t] = "old"
    /\ IF Verified(t)
       THEN tab' = [tab EXCEPT ![t].bill = bills[BillOf[t]]]
       ELSE UNCHANGED tab
    /\ AfterAnswer(t, Verified(t))
    /\ UNCHANGED <<api, admin, up, token, mounts>>

(* A mutant: the page fetches its payment only once. *)
FetchesOnce(t) == tab[t].shown = Nil /\ ~tab[t].error

(* usePaymentDetail fetches its first answer, in three tries, and again      *)
(* every thirty seconds while the last answer said pending: a page whose    *)
(* first tries all failed has no answer to go by and never fetches again.   *)
Polls(t) == IF tab[t].shown = Nil THEN ~tab[t].error ELSE tab[t].shown = "pending"

(* The status page, once its session has a token.                          *)
OnStatus(t) == tab[t].session = "in" /\ tab[t].page = "status"

Answers(t) ==
    /\ OnStatus(t) /\ Verified(t) /\ payments[tab[t].payment] # Nil
    /\ tab' = [tab EXCEPT ![t].shown = payments[tab[t].payment].status, ![t].error = FALSE]
    /\ UNCHANGED <<api, admin, up, token, stored, mounts>>

PollAnswered(t) == Polls(t) /\ Answers(t)

(* A 401 or any other failure: the last answer is kept, but the page shows  *)
(* the error in its place until another fetch is answered.                 *)
FetchFails(t) ==
    /\ OnStatus(t)
    /\ tab' = [tab EXCEPT ![t].error = TRUE]
    /\ UNCHANGED stored \/ (~Verified(t) /\ AfterAnswer(t, FALSE))
    /\ UNCHANGED <<api, admin, up, token, mounts>>

PollFails(t) == Polls(t) /\ FetchFails(t)

(* The phone is online again: queries are fetched whatever they have.       *)
Reconnect(t) == Answers(t) \/ FetchFails(t)

-----------------------------------------------------------------------------
(* useSlipUpload.                                                          *)

Busy(t) == \E u \in Upload : up[u] # Nil /\ up[u].by = t /\ up[u].watched /\ up[u].at \in UnderWay

(* The pay page shows its form once it has a session and the bill. *)
ShowsForm(t) == tab[t].session = "in" /\ tab[t].page = "pay" /\ tab[t].bill # Nil

(* A file and an amount that pass the form's checks. *)
Submit(t, u) ==
    /\ ShowsForm(t)
    /\ ~Busy(t) /\ up[u] = Nil /\ mounts[t] < MaxMounts
    /\ up' = [up EXCEPT ![u] = [by |-> t, at |-> "create", payment |-> Nil, watched |-> TRUE]]
    /\ UNCHANGED <<api, admin, token, stored, tab, mounts>>

(* A client of the admin API uploads a slip for a payment that is there.    *)
SubmitAtDesk(d, u, p) ==
    /\ up[u] = Nil /\ p \in Made
    /\ up' = [up EXCEPT ![u] = [by |-> d, at |-> "mint", payment |-> p, watched |-> FALSE]]
    /\ UNCHANGED <<api, admin, token, stored, tab, mounts>>

(* Whether the guards let a request of the upload through.                  *)
Authorised(u) == up[u].by \in Desk \/ Verified(up[u].by)

To(u, at) == up' = [up EXCEPT ![u].at = at]

(* A request of an upload: refused with 401, or handled, and then the       *)
(* answer takes the upload to its next step, or is lost and ends it.        *)
Hop(u, from, next) ==
    /\ up[u] # Nil /\ up[u].at = from
    /\ IF Authorised(u) THEN To(u, next) \/ To(u, "failed") ELSE To(u, "failed")
    /\ stored' = IF Authorised(u) THEN stored ELSE stored \ {up[u].by}
    /\ UNCHANGED <<admin, token, tab, mounts>>

(* POST /me/payments, with an idempotency key of this upload alone, for a   *)
(* bill that is not void.  As after every POST and PATCH, the audit INSERT  *)
(* may fail: the answer stays a success, and nothing is kept.              *)
Create(u) ==
    /\ up[u] # Nil /\ up[u].at = "create"
    /\ IF Authorised(u) /\ bills[BillOf[up[u].by]] # "void"
       THEN /\ \/ payments' = [payments EXCEPT ![u] = [status |-> "pending", slip |-> Nil]]
               \/ UNCHANGED payments
            /\ up' = [up EXCEPT ![u].at = "mint", ![u].payment = u] \/ To(u, "failed")
       ELSE To(u, "failed") /\ UNCHANGED payments
    /\ stored' = IF Authorised(u) THEN stored ELSE stored \ {up[u].by}
    /\ UNCHANGED <<bills, bucket, admin, token, tab, mounts>>

(* What createUploadUrl and register ask of the payment.                    *)
TakesSlip(p) == payments[p] # Nil /\ payments[p].status = "pending" /\ payments[p].slip = Nil

Mint(u) ==
    /\ Hop(u, "mint", IF TakesSlip(up[u].payment) THEN "put" ELSE "failed")
    /\ UNCHANGED api

(* The bytes go to the bucket directly, with the URL as the only ticket.     *)
Put(u) ==
    /\ up[u] # Nil /\ up[u].at = "put"
    /\ \/ bucket' = bucket \cup {u} /\ (To(u, "check") \/ To(u, "failed"))
       \/ UNCHANGED bucket /\ To(u, "failed")
    /\ UNCHANGED <<bills, payments, admin, token, stored, tab, mounts>>

(* register: reads the payment, asks the bucket for the object, and then    *)
(* inserts the slip.                                                       *)
Check(u) ==
    /\ Hop(u, "check", IF TakesSlip(up[u].payment) /\ u \in bucket THEN "insert" ELSE "failed")
    /\ UNCHANGED api

(* A mutant: without the unique index on the payment. *)
InsertAnyway(u) ==
    /\ up[u] # Nil /\ up[u].at = "insert"
    /\ payments' = [payments EXCEPT ![up[u].payment].slip = u]
    /\ To(u, "done") \/ To(u, "failed")
    /\ UNCHANGED <<bills, bucket, admin, token, stored, tab, mounts>>

(* The INSERT, kept, answered and not kept, or refused or rolled back.      *)
InsertSlip(u) ==
    LET p == up[u].payment
    IN  /\ up[u] # Nil /\ up[u].at = "insert"
        /\ \/ /\ payments[p].slip = Nil /\ payments' = [payments EXCEPT ![p].slip = u]
              /\ To(u, "done") \/ To(u, "failed")
              /\ UNCHANGED unkept
           \/ /\ payments[p].slip = Nil /\ To(u, "done")
              /\ unkept' = unkept \cup {u} /\ UNCHANGED payments
           \/ To(u, "failed") /\ UNCHANGED <<payments, unkept>>
        /\ UNCHANGED <<bills, bucket, rows, view, told, overtaken, token, stored, tab, mounts>>

(* A mutant: the page moves on as soon as there is a payment. *)
ArriveEarly(u) ==
    /\ up[u] # Nil /\ up[u].watched /\ up[u].payment # Nil
    /\ Mount(up[u].by, "status", u)
    /\ UNCHANGED <<api, admin, token, stored>>

(* onSuccess, of the page that is still there.                              *)
Arrive(u) ==
    /\ up[u] # Nil /\ up[u].at = "done" /\ up[u].watched
    /\ Mount(up[u].by, "status", u)
    /\ UNCHANGED <<api, admin, token, stored>>

-----------------------------------------------------------------------------
(* The payments page of the admin web.                                     *)

StatusOf(p) == IF payments[p] = Nil THEN Nil ELSE payments[p].status

LoadRows ==
    /\ rows' = [p \in Row |-> StatusOf(p)] /\ rows' # rows
    /\ UNCHANGED <<api, liff, view, told, overtaken, unkept>>

(* A mutant: collapsing keeps what was shown. *)
ToggleKeeping(p) ==
    /\ rows[p] # Nil /\ (view[p].open \/ view[p].fetches < MaxFetches)
    /\ IF view[p].open
       THEN view' = [view EXCEPT ![p].open = FALSE]
       ELSE view' = [view EXCEPT ![p].open = TRUE, ![p].fetches = @ + 1]
    /\ UNCHANGED <<api, liff, rows, told, overtaken, unkept>>

(* onExpand: opening a row fetches its slip, closing it drops the answer.   *)
Toggle(p) ==
    /\ rows[p] # Nil /\ (view[p].open \/ view[p].fetches < MaxFetches)
    /\ IF view[p].open
       THEN view' = [view EXCEPT ![p].open = FALSE, ![p].slip = Nil, ![p].missing = FALSE,
                                 ![p].cut = @ \/ view[p].fetches > 0]
       ELSE view' = [view EXCEPT ![p].open = TRUE, ![p].fetches = @ + 1]
    /\ UNCHANGED <<api, liff, rows, told, overtaken, unkept>>

(* getSlipViewUrlAction; answers come in the order of the clicks, and one    *)
(* of them clears nothing.                                                 *)
Fetched(p) ==
    /\ view[p].fetches > 0
    /\ view' = [view EXCEPT ![p].fetches = @ - 1,
                            ![p].slip = IF payments[p].slip # Nil THEN payments[p].slip ELSE @,
                            ![p].missing = @ \/ payments[p].slip = Nil]
    /\ UNCHANGED <<api, liff, rows, told, overtaken, unkept>>

(* A row shown as pending that waits for nothing is clicked, and its        *)
(* payment still is pending; otherwise the refusal changes nothing.        *)
Decidable(p) ==
    rows[p] = "pending" /\ view[p].open /\ view[p].fetches = 0 /\ payments[p].status = "pending"

(* What a confirmed payment makes of its bill: the amounts are in Billing.  *)
Settled(status) == IF status = "open" THEN {"open", "paid"} ELSE {status}

(* A mutant: the page is not rendered again after a decision. *)
DecideQuietly(p, verdict, answered) ==
    /\ Decidable(p)
    /\ payments' = [payments EXCEPT ![p].status = verdict]
    /\ told' = told \cup {p}
    /\ UNCHANGED <<bills, bucket, liff, rows, view, overtaken, unkept>>

(* The decision is taken (the statements of two at once are in Billing). A  *)
(* success that is answered renders the page again, a lost answer does not. *)
Decide(p, verdict, answered) ==
    LET b == BillOf[up[p].by]
    IN  /\ Decidable(p)
        /\ payments' = [payments EXCEPT ![p].status = verdict]
        /\ \E status \in IF verdict = "confirmed" THEN Settled(bills[b]) ELSE {bills[b]} :
              bills' = [bills EXCEPT ![b] = status]
        /\ rows' = IF answered THEN [q \in Row |-> IF q = p THEN verdict ELSE StatusOf(q)] ELSE rows
        /\ told' = IF answered THEN told \cup {p} ELSE told
        /\ overtaken' = overtaken \cup {u \in Upload : up[u] # Nil /\ up[u].at = "insert"}
        /\ UNCHANGED <<bucket, liff, view, unkept>>

(* The audit INSERT failed: the page is told of a decision and rendered      *)
(* again, but nothing was kept, and the row is offered as before.          *)
DecisionAborted(p) ==
    /\ Decidable(p)
    /\ rows' = [q \in Row |-> StatusOf(q)]
    /\ UNCHANGED <<api, liff, view, told, overtaken, unkept>>

(* The bill is voided by the company.                                      *)
Void(b) ==
    /\ bills[b] = "open" /\ bills' = [bills EXCEPT ![b] = "void"]
    /\ UNCHANGED <<payments, bucket, liff, admin>>

-----------------------------------------------------------------------------
Steps(u) == Create(u) \/ Mint(u) \/ Put(u) \/ Check(u) \/ InsertSlip(u)

PayNext ==
    \/ \E t \in Tab :
          \/ \E page \in {"bill", "pay"} : Go(t, page)
          \/ Reload(t) \/ Start(t) \/ Expire(t) \/ LoadBill(t)
          \/ PollAnswered(t) \/ PollFails(t) \/ Reconnect(t)
          \/ \E u \in Upload : Submit(t, u)
    \/ \E d \in Desk, u \in Upload, p \in Upload : SubmitAtDesk(d, u, p)
    \/ \E u \in Upload : Steps(u) \/ Arrive(u)
    \/ LoadRows
    \/ \E p \in Row :
          \/ Toggle(p) \/ Fetched(p)
          \/ DecisionAborted(p)
          \/ \E verdict \in Decided, answered \in BOOLEAN : Decide(p, verdict, answered)
    \/ \E b \in Bill : Void(b)

PaySpec == PayInit /\ [][PayNext]_payVars

(* Requests are answered or fail in the end; a page that goes on polling is *)
(* answered once.                                                          *)
PayFairSpec ==
    /\ PaySpec
    /\ \A u \in Upload : WF_payVars(Steps(u))
    /\ \A t \in Tab : WF_payVars(Start(t)) /\ WF_payVars(PollAnswered(t))

-----------------------------------------------------------------------------
(* A tab that its own upload brought to the status page is told of a        *)
(* payment of its bill whose bytes are in the bucket, and that has the slip *)
(* it uploaded unless the registration was answered and not kept, whatever  *)
(* was lost and whoever uploaded beside it.                                *)
DoneIsWhole ==
    \A t \in Tab : tab[t].page = "status" =>
        LET p == tab[t].payment
        IN  /\ up[p].by = t /\ payments[p] # Nil /\ p \in bucket
            /\ payments[p].slip = p \/ p \in unkept

(* A payment has one slip for good, taken while it was pending; a decision   *)
(* can only come between the two statements of one registration.            *)
SlipIsFinal ==
    [][\A p \in Made : payments'[p].slip # payments[p].slip =>
          payments[p].slip = Nil /\ (payments[p].status = "pending" \/ payments'[p].slip \in overtaken)]_payVars

(* The payments page never offers a decision again that was kept and that   *)
(* it was told of.                                                         *)
DecidedOnce == \A p \in told : rows[p] # "pending"

(* An expanded row shows the slip its last fetch found, unless the row was  *)
(* ever collapsed while a fetch was under way.                             *)
RowShowsSlip ==
    \A p \in Row :
        view[p].open /\ view[p].fetches = 0 /\ ~view[p].cut => view[p].missing # (view[p].slip # Nil)

(* What the pages show on both sides of a payment.                         *)
PagesTell == DoneIsWhole /\ DecidedOnce /\ RowShowsSlip

(* The page shows an error and fetches nothing: its first fetch failed, or  *)
(* one after the decision.                                                 *)
Stuck(t) == tab[t].error /\ ~Polls(t)

(* A tenant who waits at the status page is shown the decision, however     *)
(* many polls fail between, unless her token ends first or the page is      *)
(* stuck with an error.                                                    *)
DecisionIsShown ==
    \A t \in Tab :
        OnStatus(t) /\ StatusOf(tab[t].payment) \in Decided
        ~> \/ tab[t].shown \in Decided /\ ~tab[t].error
           \/ ~OnStatus(t) \/ token[t] # "good" \/ Stuck(t)

(* payments.ts:106-109: while the payment is pending the page refetches, so *)
(* that it reflects the decision without a manual reload.                  *)
NoPageIsStuck == \A t \in Tab : OnStatus(t) /\ token[t] = "good" => ~Stuck(t)

(* audit-log.interceptor.ts:49-50: a failing audit insert does not fail the *)
(* user's action; so a slip that is registered is there afterwards.        *)
RegisteredIsKept == \A u \in Upload : up[u] # Nil /\ up[u].at = "done" => payments[up[u].payment].slip = u

(* A tenant who submits again after a failure goes on with her payment:      *)
(* there are never two of hers under review.                               *)
OnePendingPayment ==
    \A p, q \in Made : up[p].by = up[q].by /\ payments[p].status = "pending" /\ payments[q].status = "pending"
                        => p = q
=============================================================================
