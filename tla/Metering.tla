------------------------------- MODULE Metering -------------------------------
(***************************************************************************)
(* Meters, monthly readings and the batch that bills them: MeterService,   *)
(* ReadingService, InvoiceService.createBatch, and the grid of the admin   *)
(* web in which the readings of a period are typed.                        *)
(*                                                                         *)
(* A meter of a unit is named by the unit and its kind, a reading by its   *)
(* meter and period: the two unique indexes.  A transaction's writes are   *)
(* seen when it commits.  Values are whole numbers: decimals with two      *)
(* places are added and subtracted exactly.                                *)
(***************************************************************************)
EXTENDS Naturals, FiniteSets

CONSTANTS
    Meter,
    UnitServed,   \* [Meter \cup Contract -> units]
    Installed,    \* the meters there are at first
    Contract,
    Period,       \* months in order, as 1 .. n
    Billed,       \* the months for which invoices are made
    Value,        \* what a meter may show
    Client,       \* who sends readings
    Operator,     \* the client that types into the grid; the others call the API
    Batcher,      \* who generates the invoices of a period, once each
    MaxInputs,    \* bound: readings sent, pages loaded, batches started, changes made elsewhere
    Unset

Price == {1, 2}

ReadingRow == [current : Value, previous : Value \cup {0}, used : Nat]

Line == [meter : Meter, quantity : Nat, price : Price]

InvoiceRow == [contract : Contract, period : Period, lines : SUBSET Line, meters : SUBSET Meter]

Saving == [at : {"idle", "read", "write", "saved", "unkept", "refused"}, kind : {"post", "patch", Unset},
           meter : Meter \cup {Unset}, period : Period \cup {Unset}, value : Value \cup {0},
           previous : Value \cup {0}, crossed : BOOLEAN, screen : Period \cup {Unset}]

(* What a row was told last of is a reading that was kept, a value that was *)
(* not, or the id of a reading that was not.                               *)
GridRow == [saved : Period \cup {Unset}, shown : Value \cup {0}, status : {"idle", "saving", "saved", "error"},
            holds : {"kept", "unkept", "ghost"}]

Generating == [at : {"idle", "start", "meters", "each", "answered", "failed", "over"}, period : Period \cup {Unset},
               todo : SUBSET Contract, there : SUBSET Contract, meters : SUBSET (Meter \X Price),
               used : SUBSET (Meter \X Nat), made : SUBSET InvoiceRow, skipped : SUBSET Contract,
               aborted : BOOLEAN, kept : SUBSET InvoiceRow]

MeteringConstants ==
    /\ Installed \subseteq Meter /\ Billed \subseteq Period /\ Operator \in Client
    /\ Period \subseteq Nat \ {0} /\ Value \subseteq Nat \ {0} /\ MaxInputs \in Nat
    /\ Unset \notin Period \cup Meter \cup Price /\ Unset \notin ReadingRow /\ Unset \notin {"post", "patch"}

ASSUME MeteringAssumption == MeteringConstants

VARIABLES
    rate,       \* [Meter -> its price, Unset when there is no such meter]
    reading,    \* [Meter \X Period -> Unset or [current, previous, used]]
    active,     \* contracts whose status is "active"
    invoices,   \* invoices that are not void: [contract, period, lines]
    saving,     \* [Client -> the reading being saved]
    grid,       \* the grid: its period and its rows
    batch,      \* [Batcher -> the batch being generated]
    inputs,     \* how many inputs there were
    had,        \* history: [Meter \X Period -> what its reading has been]
    disturbed   \* history: meters whose readings were corrected, entered late or raced

meterVars == <<rate, reading, active, invoices, saving, grid, batch, inputs, had, disturbed>>

NoReq == [at |-> "idle", kind |-> Unset, meter |-> Unset, period |-> Unset, value |-> 0,
          previous |-> 0, crossed |-> FALSE, screen |-> Unset]

NoBatch == [at |-> "idle", period |-> Unset, todo |-> {}, there |-> {}, meters |-> {},
            used |-> {}, made |-> {}, skipped |-> {}, aborted |-> FALSE, kept |-> {}]

EmptyRow == [saved |-> Unset, shown |-> 0, status |-> "idle", holds |-> "kept"]

MeterTypeOK ==
    /\ rate \in [Meter -> Price \cup {Unset}]
    /\ reading \in [Meter \X Period -> ReadingRow \cup {Unset}]
    /\ \A mp \in Meter \X Period : reading[mp] # Unset => rate[mp[1]] # Unset
    /\ active \subseteq Contract /\ invoices \subseteq InvoiceRow
    /\ \A i, j \in invoices : i.contract = j.contract /\ i.period = j.period => i = j
    /\ saving \in [Client -> Saving]
    /\ \A c \in Client : saving[c].at # "idle" => saving[c].meter \in Meter /\ saving[c].period \in Period
    /\ grid \in [period : Period \cup {Unset}, rows : [Meter -> GridRow]]
    /\ batch \in [Batcher -> Generating]
    /\ \A b \in Batcher : \A i \in batch[b].made : i.contract \notin batch[b].todo \cup batch[b].skipped
    /\ inputs \in 0 .. MaxInputs
    /\ had \in [Meter \X Period -> SUBSET ReadingRow] /\ disturbed \subseteq Meter

MeterInit ==
    /\ rate = [m \in Meter |-> IF m \in Installed THEN 1 ELSE Unset]
    /\ reading = [mp \in Meter \X Period |-> Unset]
    /\ active = Contract /\ invoices = {}
    /\ saving = [c \in Client |-> NoReq] /\ batch = [b \in Batcher |-> NoBatch]
    /\ grid = [period |-> Unset, rows |-> [m \in Meter |-> EmptyRow]]
    /\ inputs = 0
    /\ had = [mp \in Meter \X Period |-> {}] /\ disturbed = {}

Metered == {m \in Meter : rate[m] # Unset}

Input == inputs < MaxInputs /\ inputs' = inputs + 1

-----------------------------------------------------------------------------
(* MeterService; contracts and invoices as the other services change them. *)

CreateMeter(m) ==
    /\ Input
    /\ m \notin Metered /\ rate' = [rate EXCEPT ![m] = 1]
    /\ UNCHANGED <<reading, active, invoices, saving, grid, batch, had, disturbed>>

UpdateMeter(m) ==
    /\ Input
    /\ m \in Metered /\ rate' = [rate EXCEPT ![m] = 3 - @]
    /\ UNCHANGED <<reading, active, invoices, saving, grid, batch, had, disturbed>>

EndContract(k) ==
    /\ Input
    /\ k \in active /\ active' = active \ {k}
    /\ UNCHANGED <<rate, reading, invoices, saving, grid, batch, had, disturbed>>

(* The invoice holds its (contract, period) in the partial unique index, so *)
(* a batch that has inserted the same slot is waited for.                  *)
Held(k, p) ==
    \E b \in Batcher : batch[b].at = "each" /\ ~batch[b].aborted /\ \E i \in batch[b].made :
        i.contract = k /\ i.period = p

Invoiced(k, p) == \E i \in invoices : i.contract = k /\ i.period = p

CreateInvoice(k, p) ==
    /\ Input
    /\ ~Held(k, p) /\ ~Invoiced(k, p)
    /\ invoices' = invoices \cup {[contract |-> k, period |-> p, lines |-> {}, meters |-> {}]}
    /\ UNCHANGED <<rate, reading, active, saving, grid, batch, had, disturbed>>

VoidInvoice(i) ==
    /\ Input
    /\ invoices' = invoices \ {i}
    /\ UNCHANGED <<rate, reading, active, saving, grid, batch, had, disturbed>>

-----------------------------------------------------------------------------
(* ReadingService.                                                         *)

SendReading(c, kind, m, p, v, screen) ==
    /\ saving[c] = NoReq /\ Input
    /\ saving' = [saving EXCEPT ![c] = [NoReq EXCEPT !.at = "read", !.kind = kind, !.meter = m, !.period = p,
                                               !.value = v, !.screen = screen]]
    /\ UNCHANGED <<rate, reading, active, invoices, batch, had, disturbed>>

Post(c, m, p, v) == SendReading(c, "post", m, p, v, Unset) /\ UNCHANGED grid

Patch(c, m, p, v) == reading[<<m, p>>] # Unset /\ SendReading(c, "patch", m, p, v, Unset) /\ UNCHANGED grid

Earlier(m, p) == {q \in Period : q < p /\ reading[<<m, q>>] # Unset}

(* A mutant: the first of the earlier readings. *)
FirstValuePrevious(m, p) ==
    LET first == CHOOSE q \in Earlier(m, p) : \A r \in Earlier(m, p) : q <= r
    IN  IF Earlier(m, p) = {} THEN 0 ELSE reading[<<m, first>>].current

(* The current value of the latest reading of a strictly earlier period.   *)
resolveValuePrevious(m, p) ==
    LET last == CHOOSE q \in Earlier(m, p) : \A r \in Earlier(m, p) : q >= r
    IN  IF Earlier(m, p) = {} THEN 0 ELSE reading[<<m, last>>].current

Answers(c, at) == saving' = [saving EXCEPT ![c].at = at]

(* A mutant: whether there is such a meter is not asked. *)
ResolveAny(c) ==
    LET r == saving[c]
        previous == resolveValuePrevious(r.meter, r.period)
    IN  /\ r.at = "read" /\ r.kind = "post"
        /\ IF previous <= r.value
           THEN saving' = [saving EXCEPT ![c].at = "write", ![c].previous = previous]
           ELSE Answers(c, "refused")
        /\ UNCHANGED <<rate, reading, active, invoices, grid, batch, inputs, had, disturbed>>

(* create: the meter is there (400), what it showed before is resolved, and *)
(* a meter does not run backwards (400).                                   *)
Resolve(c) ==
    LET r == saving[c]
        previous == resolveValuePrevious(r.meter, r.period)
    IN  /\ r.at = "read" /\ r.kind = "post"
        /\ IF r.meter \in Metered /\ previous <= r.value
           THEN saving' = [saving EXCEPT ![c].at = "write", ![c].previous = previous]
           ELSE Answers(c, "refused")
        /\ UNCHANGED <<rate, reading, active, invoices, grid, batch, inputs, had, disturbed>>

Record(m, p, row) ==
    /\ reading' = [reading EXCEPT ![<<m, p>>] = row]
    /\ had' = [had EXCEPT ![<<m, p>>] = @ \cup {row}]

(* INSERT and COMMIT; the second reading of a meter and period is a 409.    *)
Insert(c) ==
    LET r == saving[c]
        late == \E q \in Period : q > r.period /\ reading[<<r.meter, q>>] # Unset
    IN  /\ r.at = "write" /\ r.kind = "post"
        /\ IF reading[<<r.meter, r.period>>] # Unset
           THEN Answers(c, "refused") /\ UNCHANGED <<reading, had, disturbed>>
           ELSE /\ Record(r.meter, r.period, [current |-> r.value, previous |-> r.previous,
                                              used |-> r.value - r.previous])
                /\ disturbed' = IF late \/ r.crossed THEN disturbed \cup {r.meter} ELSE disturbed
                /\ saving' = [d \in Client |->
                        IF d = c THEN [r EXCEPT !.at = "saved"]
                        ELSE [saving[d] EXCEPT !.crossed =
                                @ \/ (saving[d].at = "write" /\ saving[d].meter = r.meter /\ saving[d].period > r.period)]]
        /\ UNCHANGED <<rate, active, invoices, grid, batch, inputs>>

(* The id that the grid sends names no reading.                            *)
OfGhost(r) == r.screen # Unset /\ grid.rows[r.meter].holds = "ghost"

(* A mutant: what the meter showed before is resolved again. *)
LookAgain(c) ==
    LET r == saving[c]
        previous == resolveValuePrevious(r.meter, r.period)
    IN  /\ r.at = "read" /\ r.kind = "patch"
        /\ IF ~OfGhost(r) /\ reading[<<r.meter, r.period>>] # Unset /\ previous <= r.value
           THEN saving' = [saving EXCEPT ![c].at = "write", ![c].previous = previous]
           ELSE Answers(c, "refused")
        /\ UNCHANGED <<rate, reading, active, invoices, grid, batch, inputs, had, disturbed>>

(* update: against the stored previous value, which is never changed.      *)
Look(c) ==
    LET r == saving[c]
    IN  /\ r.at = "read" /\ r.kind = "patch"
        /\ IF ~OfGhost(r) /\ reading[<<r.meter, r.period>>] # Unset /\ reading[<<r.meter, r.period>>].previous <= r.value
           THEN saving' = [saving EXCEPT ![c].at = "write", ![c].previous = reading[<<r.meter, r.period>>].previous]
           ELSE Answers(c, "refused")
        /\ UNCHANGED <<rate, reading, active, invoices, grid, batch, inputs, had, disturbed>>

Rewrite(c) ==
    LET r == saving[c]
    IN  /\ r.at = "write" /\ r.kind = "patch"
        /\ Record(r.meter, r.period, [reading[<<r.meter, r.period>>] EXCEPT
                                        !.current = r.value, !.used = r.value - r.previous])
        /\ disturbed' = disturbed \cup {r.meter}
        /\ Answers(c, "saved")
        /\ UNCHANGED <<rate, active, invoices, grid, batch, inputs>>

(* The write succeeds, but the audit INSERT after it fails, which is        *)
(* swallowed: the answer is that of a save, and COMMIT keeps nothing.       *)
SaveAborted(c) ==
    LET r == saving[c]
    IN  /\ r.at = "write" /\ (r.kind = "post" => reading[<<r.meter, r.period>>] = Unset)
        /\ Answers(c, "unkept")
        /\ UNCHANGED <<rate, reading, active, invoices, grid, batch, inputs, had, disturbed>>

(* The transaction fails, or is given up.                                  *)
Fail(c) ==
    /\ saving[c].at = "write" /\ Answers(c, "refused")
    /\ UNCHANGED <<rate, reading, active, invoices, grid, batch, inputs, had, disturbed>>

-----------------------------------------------------------------------------
(* The grid.  It takes its rows from the readings it is mounted with.  A   *)
(* change of the period in the address loads the new period's readings,     *)
(* but the component stays and its rows with it.                           *)

RowOf(m, p) ==
    IF reading[<<m, p>>] = Unset THEN EmptyRow
    ELSE [saved |-> p, shown |-> reading[<<m, p>>].current, status |-> "saved", holds |-> "kept"]

Load(p) ==
    /\ Input
    /\ saving[Operator].at = "idle"
    /\ grid' = [period |-> p, rows |-> [m \in Meter |-> IF m \in Metered THEN RowOf(m, p) ELSE EmptyRow]]
    /\ UNCHANGED <<rate, reading, active, invoices, saving, batch, had, disturbed>>

ChangePeriod(p) ==
    /\ Input
    /\ grid.period \notin {Unset, p}
    /\ grid' = [grid EXCEPT !.period = p]
    /\ UNCHANGED <<rate, reading, active, invoices, saving, batch, had, disturbed>>

(* useRowSave: PATCH of the reading the row has, POST when it has none.     *)
Save(m, v) ==
    LET row == grid.rows[m]
    IN  /\ grid.period # Unset /\ m \in Metered
        /\ grid' = [grid EXCEPT !.rows[m].shown = v, !.rows[m].status = "saving"]
        /\ IF row.saved # Unset THEN SendReading(Operator, "patch", m, row.saved, v, grid.period)
           ELSE SendReading(Operator, "post", m, grid.period, v, grid.period)

(* A row after a save it was told of: it has the reading of the answer.     *)
Marked(r) ==
    [saved |-> r.period, shown |-> r.value, status |-> "saved",
     holds |-> CASE r.at # "unkept" -> "kept" [] r.kind = "patch" -> "unkept" [] OTHER -> "ghost"]

(* A mutant: the row is marked whatever the answer. *)
TellSaved(c) ==
    /\ saving[c].at \in {"saved", "unkept", "refused"}
    /\ saving' = [saving EXCEPT ![c] = NoReq]
    /\ grid' = IF saving[c].screen = Unset THEN grid
               ELSE [grid EXCEPT !.rows[saving[c].meter] = Marked(saving[c])]
    /\ UNCHANGED <<rate, reading, active, invoices, batch, inputs, had, disturbed>>

(* The answer, or its loss, which reads as an error.                       *)
Tell(c) ==
    /\ saving[c].at \in {"saved", "unkept", "refused"}
    /\ saving' = [saving EXCEPT ![c] = NoReq]
    /\ IF saving[c].screen = Unset THEN UNCHANGED grid
       ELSE \/ grid' = [grid EXCEPT !.rows[saving[c].meter].status = "error"]
            \/ /\ saving[c].at # "refused"
               /\ grid' = [grid EXCEPT !.rows[saving[c].meter] = Marked(saving[c])]
    /\ UNCHANGED <<rate, reading, active, invoices, batch, inputs, had, disturbed>>

-----------------------------------------------------------------------------
(* createBatch, in the one transaction of its request.                     *)

Becomes(b, r) ==
    /\ batch' = [batch EXCEPT ![b] = r]
    /\ UNCHANGED <<rate, reading, active, saving, grid, had, disturbed>>

Generate(b, p) ==
    /\ batch[b] = NoBatch /\ Input
    /\ Becomes(b, [NoBatch EXCEPT !.at = "start", !.period = p])
    /\ UNCHANGED invoices

(* The contracts, then the invoices of the period that are not void.        *)
ReadInvoices(b) ==
    /\ batch[b].at = "start"
    /\ Becomes(b, [batch[b] EXCEPT !.at = "meters", !.todo = active, !.skipped = Contract \ active,
                                   !.there = {k \in active : Invoiced(k, batch[b].period)}])
    /\ UNCHANGED <<invoices, inputs>>

(* The meters with their prices, then the readings of the period.          *)
ReadMeters(b) ==
    LET p == batch[b].period
    IN  /\ batch[b].at = "meters"
        /\ Becomes(b, [batch[b] EXCEPT !.at = "each", !.meters = {<<m, rate[m]>> : m \in Metered},
                                       !.used = {<<m, reading[<<m, p>>].used>> : m \in {n \in Meter : reading[<<n, p>>] # Unset}}])
        /\ UNCHANGED <<invoices, inputs>>

MetersOf(r, k) == {mr \in r.meters : UnitServed[mr[1]] = UnitServed[k]}

(* A mutant: one meter with a reading is enough. *)
LacksEveryReading(r, k) ==
    MetersOf(r, k) # {} /\ \A mr \in MetersOf(r, k) : ~\E mu \in r.used : mu[1] = mr[1]

(* findMissingReadingReason.                                               *)
LacksReading(r, k) == \E mr \in MetersOf(r, k) : ~\E mu \in r.used : mu[1] = mr[1]

(* buildBatchItems: rent aside, a line for every meter that has a reading.  *)
Lines(r, k) ==
    {[meter |-> pair[1][1], quantity |-> pair[2][2], price |-> pair[1][2]] :
        pair \in {both \in MetersOf(r, k) \X r.used : both[1][1] = both[2][1]}}

Invoice(r, k) ==
    [contract |-> k, period |-> r.period, lines |-> Lines(r, k), meters |-> {mr[1] : mr \in MetersOf(r, k)}]

(* A mutant: a duplicate is tried again. *)
EachTrying(b, k) ==
    LET r == batch[b]
        next == [r EXCEPT !.todo = @ \ {k}]
    IN  /\ r.at = "each" /\ k \in r.todo
        /\ \/ (k \in r.there \/ LacksReading(r, k)) /\ Becomes(b, [next EXCEPT !.skipped = @ \cup {k}])
           \/ /\ k \notin r.there /\ ~LacksReading(r, k) /\ ~Held(k, r.period)
              /\ IF r.aborted \/ Invoiced(k, r.period) THEN Becomes(b, r)
                 ELSE Becomes(b, [next EXCEPT !.made = @ \cup {Invoice(r, k)}])
        /\ UNCHANGED <<invoices, inputs>>

(* One contract, in the order the database gave them.  The insert waits for *)
(* whoever holds the slot.  A unique violation is caught and listed as a    *)
(* skip, but it has aborted the transaction: the next insert fails, and     *)
(* that error is not caught.                                               *)
Each(b, k) ==
    LET r == batch[b]
        next == [r EXCEPT !.todo = @ \ {k}]
        insert == k \notin r.there /\ ~LacksReading(r, k)
    IN  /\ r.at = "each" /\ k \in r.todo
        /\ \/ ~insert /\ Becomes(b, [next EXCEPT !.skipped = @ \cup {k}])
           \/ insert /\ r.aborted /\ Becomes(b, [r EXCEPT !.at = "failed"])
           \/ /\ insert /\ ~r.aborted /\ ~Held(k, r.period)
              /\ IF Invoiced(k, r.period)
                 THEN Becomes(b, [next EXCEPT !.skipped = @ \cup {k}, !.aborted = TRUE])
                 ELSE Becomes(b, [next EXCEPT !.made = @ \cup {Invoice(r, k)}])
        /\ UNCHANGED <<invoices, inputs>>

(* Two batches that wait for each other: the database fails one of them.    *)
Deadlock(b) ==
    LET waits(a, c) == \E k \in batch[a].todo : batch[a].at = "each" /\ \E i \in batch[c].made :
                            i.contract = k /\ i.period = batch[a].period
    IN  /\ ~batch[b].aborted
        /\ \E c \in Batcher \ {b} : ~batch[c].aborted /\ waits(b, c) /\ waits(c, b)
        /\ Becomes(b, [batch[b] EXCEPT !.at = "failed", !.aborted = TRUE])
        /\ UNCHANGED <<invoices, inputs>>

(* The answer is built, then COMMIT, which rolls an aborted transaction     *)
(* back and reports no error; the audit INSERT may be what aborted it.      *)
Finish(b) ==
    /\ batch[b].at = "each" /\ batch[b].todo = {}
    /\ \E kept \in {{}, IF batch[b].aborted THEN {} ELSE batch[b].made} :
          /\ Becomes(b, [batch[b] EXCEPT !.at = "answered", !.kept = kept])
          /\ invoices' = invoices \cup kept
    /\ UNCHANGED inputs

Read(b) ==
    /\ batch[b].at \in {"answered", "failed"} /\ Becomes(b, [NoBatch EXCEPT !.at = "over"])
    /\ UNCHANGED <<invoices, inputs>>

-----------------------------------------------------------------------------
ServeReading(c) == Resolve(c) \/ Insert(c) \/ Look(c) \/ Rewrite(c) \/ Tell(c)

BillPeriod(b) == ReadInvoices(b) \/ ReadMeters(b) \/ (\E k \in Contract : Each(b, k)) \/ Deadlock(b) \/ Finish(b) \/ Read(b)

MeterNext ==
    \/ \E c \in Client :
          \/ ServeReading(c) \/ SaveAborted(c) \/ Fail(c)
          \/ /\ c # Operator
             /\ \E m \in Meter, p \in Period, v \in Value : Post(c, m, p, v) \/ Patch(c, m, p, v)
    \/ \E m \in Meter, v \in Value : Save(m, v)
    \/ \E p \in Period : Load(p) \/ ChangePeriod(p)
    \/ \E b \in Batcher : BillPeriod(b) \/ \E p \in Billed : Generate(b, p)
    \/ \E m \in Meter : CreateMeter(m) \/ UpdateMeter(m)
    \/ \E k \in Contract : EndContract(k) \/ \E p \in Billed : CreateInvoice(k, p)
    \/ \E i \in invoices : VoidInvoice(i)

MeterSpec == MeterInit /\ [][MeterNext]_meterVars

MeterFairSpec == MeterSpec /\ \A b \in Batcher : WF_meterVars(BillPeriod(b))

-----------------------------------------------------------------------------
(* What a reading adds up to: the consumption that is billed is the         *)
(* difference of the two values stored with it, after any number of         *)
(* corrections of this reading and of the ones before it.                  *)
ConsumptionAddsUp ==
    \A mp \in Meter \X Period : reading[mp] # Unset =>
        reading[mp].used = reading[mp].current - reading[mp].previous /\ reading[mp].previous <= reading[mp].current

(* Nothing a meter counted is billed twice or never: every reading begins   *)
(* where the one before it ended, unless a reading of the meter was         *)
(* corrected, entered after a later month's, or raced another.             *)
ContinuousUnlessDisturbed ==
    \A m \in Meter \ disturbed, p \in Period : reading[<<m, p>>] # Unset =>
        reading[<<m, p>>].previous =
            IF Earlier(m, p) = {} THEN 0
            ELSE reading[<<m, CHOOSE q \in Earlier(m, p) : \A r \in Earlier(m, p) : q >= r>>].current

(* What the readings of a meter say together, and each of them alone.       *)
ReadingsAddUp == ConsumptionAddsUp /\ ContinuousUnlessDisturbed

(* An invoice of a batch has one line for every meter its unit had when the *)
(* batch read them, and bills the difference of the values a reading of its *)
(* own period really had (findMissingReadingReason, buildBatchItems).      *)
InvoiceIsComplete ==
    \A i \in invoices :
        /\ \A m \in i.meters : Cardinality({line \in i.lines : line.meter = m}) = 1
        /\ \A line \in i.lines : line.quantity \in {r.current - r.previous : r \in had[<<line.meter, i.period>>]}

(* A row the grid marks as saved shows a value that was saved for its       *)
(* meter, although answers are lost and others correct the same reading;    *)
(* unless what it was told of last was not kept.                           *)
SavedWasRecorded ==
    \A m \in Meter : grid.rows[m].status = "saved" /\ grid.rows[m].holds = "kept" =>
        grid.rows[m].shown \in {r.current : r \in had[<<m, grid.rows[m].saved>>]}

(* Every batch ends, although two batches may insert the same invoices in   *)
(* opposite orders and each wait for the other.                            *)
EveryBatchEnds == \A b \in Batcher : batch[b].at # "idle" ~> batch[b].at = "over"

(* invoice.service.ts: a row that hits the race window is a duplicate skip  *)
(* "rather than failing the rest of the batch"; so the invoices a batch     *)
(* reports as generated were committed.                                    *)
GeneratedIsThere == \A b \in Batcher : batch[b].at = "answered" => batch[b].made \subseteq batch[b].kept

(* readings-grid.tsx: the rows are "re-keyed only when the prop identity     *)
(* changes"; so what is saved is a reading of the period on the screen.    *)
SavedOnScreen == \A c \in Client : saving[c].screen # Unset => saving[c].period = saving[c].screen

(* audit-log.interceptor.ts:49-50: a failing audit insert does not fail the *)
(* user's action; so a row is marked as saved once its reading is.         *)
MarkedIsKept == \A m \in Meter : grid.rows[m].status = "saved" => grid.rows[m].holds = "kept"
=============================================================================
