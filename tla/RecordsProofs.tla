--------------------------- MODULE RecordsProofs ----------------------------
(***************************************************************************)
(* What holds of the records staff keep, for any number of rows, requests, *)
(* clients and pages: properties, units, tenants and contracts (Occupancy), *)
(* and, apart from them and under its own assumption, meters, readings and *)
(* the batches that bill them (Metering).                                  *)
(***************************************************************************)
EXTENDS Occupancy, Metering, TLAPS, FiniteSetTheorems, WellFoundedInduction

-----------------------------------------------------------------------------
(***************************************************************************)
(* Properties, units, tenants, contracts.  What a request goes by when it  *)
(* writes is what it looked up before: rows stay, with their company, and  *)
(* a request that no other crossed sees the contracts of its unit as they  *)
(* are.                                                                    *)
(***************************************************************************)
Having(kind, company) == {id \in There : KindOf[id] = kind /\ rows[id].company = company}

(* What the request asks of rows fits them.                                *)
RequestFits(s, r) ==
    /\ r.at # "idle" => r.id \in Id
    /\ r.create => r.at \in {"check", "write", "commit"} /\ ~r.paged /\ rows[r.id] = None
                   /\ Kinds(r.refs) = RefersTo(KindOf[r.id])
    /\ r.at # "idle" /\ ~r.create =>
          /\ rows[r.id] # None
          /\ r.refs # {} => KindOf[r.id] = "unit" /\ Kinds(r.refs) = {"property"}
    /\ r.at \in {"check", "write", "commit"} /\ ~r.create => rows[r.id].company = CompanyOf[s] /\ r.seen # None
    /\ r.at \in {"write", "commit"} => \A ref \in r.refs : Visible(s, ref)

(* Its page waits for it, and has a status the row has had to go back to.   *)
PageWaits(s, r) ==
    /\ r.at \in {"ok", "failed"} => r.paged
    /\ r.paged => /\ s \in Viewer /\ page[s].id = r.id /\ page[s].before \in was[r.id] \cup unkept[s]
                  /\ r.status = page[s].shown /\ r.status # None
                  /\ r.at = "ok" => page[s].shown \in was[r.id] \cup unkept[s]

(* What a create counted is there when it commits.                         *)
CountIsTrue(s, r) ==
    /\ r.count # 0 => r.create /\ r.at = "commit"
    /\ r.count <= Cardinality(Having(KindOf[r.id], CompanyOf[s])) + 1
    /\ r.warn => r.count > Limit

(* Until a transaction crosses it, what a request read of contracts holds.  *)
LooksAhead(r) ==
    KindOf[r.id] = "contract" /\ ~r.crossed =>
        /\ r.at \in {"check", "write", "commit"} /\ ~r.create => r.seen = rows[r.id]
        /\ r.at \in {"write", "commit"} /\ NeedsOverlapCheck(r) => ~Overlaps(r)

RequestKnows(s, r) ==
    r.at # "idle" => RequestFits(s, r) /\ PageWaits(s, r) /\ CountIsTrue(s, r) /\ LooksAhead(r)

LettingsInv ==
    /\ TypeOK
    /\ \A id \in There : rows[id].status \in was[id]
    /\ \A s \in Staff : RequestKnows(s, req[s])
    /\ \A s, t \in Staff : s # t /\ req[s].create /\ req[t].create => req[s].id # req[t].id
    /\ RowsAgree /\ WarningIsTrue /\ ShownWasTrue

LEMMA IdleRequest ==
    ASSUME OccupancyConstants
    PROVE  Idle \in Request /\ Idle.at = "idle" /\ ~Idle.paged
           /\ ~Idle.create
BY DEF OccupancyConstants, Idle, Request

(* What a request knows is of the rows, their statuses and its own page.   *)
LEMMA KnowsTheSame ==
    ASSUME rows' = rows, was' = was, NEW s, NEW r, s \in Viewer => page'[s] = page[s] /\ unkept'[s] = unkept[s],
           RequestKnows(s, r)
    PROVE  RequestKnows(s, r)'
<1>1. RequestFits(s, r) => RequestFits(s, r)'
  BY DEF RequestFits, Visible, There
<1>2. PageWaits(s, r) => PageWaits(s, r)'
  BY DEF PageWaits
<1>3. Having(KindOf[r.id], CompanyOf[s])' = Having(KindOf[r.id], CompanyOf[s])
  BY DEF Having, There
<1>4. CountIsTrue(s, r) => CountIsTrue(s, r)'
  BY <1>3 DEF CountIsTrue
<1>5. LooksAhead(r) => LooksAhead(r)'
  BY DEF LooksAhead, Overlaps, There, NeedsOverlapCheck
<1> QED BY <1>1, <1>2, <1>4, <1>5 DEF RequestKnows

Pages == [Viewer -> [id : Id \cup {None}, shown : Status \cup {None},
                     before : Status \cup {None}]]

(* A step of one staff member that writes no row.                          *)
LEMMA NoRowWritten ==
    ASSUME LettingsInv, rows' = rows, was' = was, warnings' = warnings, raced' = raced,
           recent' \subseteq Company \X Kind,
           \E kind \in Kind : sent' \in 0 .. MaxOf[kind],
           NEW s \in Staff, NEW r \in Request, req' = [req EXCEPT ![s] = r],
           r.at = "idle" <=> r = Idle,
           RequestKnows(s, r)',
           \A t \in Staff \ {s} : r.create /\ req[t].create => r.id # req[t].id,
           page' \in Pages, unkept' \in [Viewer -> SUBSET Status],
           \A v \in Viewer \ {s} : page'[v] = page[v] /\ unkept'[v] = unkept[v],
           \A v \in Viewer : page'[v].id # None => rows[page'[v].id] # None,
           s \in Viewer /\ page'[s].id # None /\ ~r.paged =>
               page'[s].shown \in was[page'[s].id] \cup unkept'[s]
    PROVE  LettingsInv'
<1>1. /\ req' \in [Staff -> Request] /\ req'[s] = r
      /\ \A t \in Staff \ {s} : req'[t] = req[t]
  BY DEF LettingsInv, TypeOK
<1>2. TypeOK'
  BY <1>1 DEF LettingsInv, TypeOK, Pages, Request, Rows
<1>3. \A t \in Staff : RequestKnows(t, req[t])'
  <2> SUFFICES ASSUME NEW t \in Staff PROVE RequestKnows(t, req[t])'
    OBVIOUS
  <2>1. CASE t = s
    BY <1>1, <2>1
  <2>2. CASE t # s
    <3>1. PICK q : q = req[t]
      OBVIOUS
    <3>2. RequestKnows(t, q)
      BY <3>1 DEF LettingsInv
    <3>3. RequestKnows(t, q)'
      BY <2>2, <3>2, KnowsTheSame
    <3> QED BY <1>1, <2>2, <3>1, <3>3
  <2> QED BY <2>1, <2>2
<1>4. (\A t, u \in Staff : t # u /\ req[t].create /\ req[u].create => req[t].id # req[u].id)'
  BY <1>1 DEF LettingsInv
<1>5. RowsAgree'
  BY DEF LettingsInv, RowsAgree, OverlapOnlyByRace, RefsStayHome,
         There, Clash, Refers
<1>6. WarningIsTrue'
  BY DEF LettingsInv, WarningIsTrue, There
<1>7. ShownWasTrue'
  BY <1>1 DEF LettingsInv, ShownWasTrue
<1>8. (\A id \in There : rows[id].status \in was[id])'
  BY DEF LettingsInv, There
<1> QED BY <1>2, <1>3, <1>4, <1>5, <1>6, <1>7, <1>8 DEF LettingsInv

(* The same request at another step.                                       *)
Like(x, r) ==
    /\ x.id = r.id /\ x.create = r.create /\ x.refs = r.refs /\ x.key = r.key /\ x.start = r.start
    /\ x.end = r.end /\ x.status = r.status /\ x.seen = r.seen /\ x.count = r.count
    /\ x.warn = r.warn /\ x.crossed = r.crossed /\ x.paged = r.paged

LEMMA AtStep ==
    ASSUME NEW r \in Request,
           NEW at \in {"idle", "find", "check", "write", "commit", "ok", "failed"},
           NEW x, x = [r EXCEPT !.at = at]
    PROVE  x \in Request /\ x.at = at /\ Like(x, r)
BY DEF Request, Like

LEMMA ConstantsHold ==
    ASSUME OccupancyConstants
    PROVE  Limit \in Nat /\ Viewer \subseteq Staff /\ None \notin Id /\ CompanyOf \in [Staff -> Company]
           /\ KindOf \in [Id -> Kind] /\ IsFiniteSet(Id) /\ None \notin Row
BY DEF OccupancyConstants

(* What every request in progress is.                                      *)
LEMMA RequestTyped ==
    ASSUME LettingsInv, NEW s \in Staff
    PROVE  req[s] \in Request /\ (req[s].at # "idle" => RequestKnows(s, req[s]))
           /\ (req[s].at = "idle" <=> req[s] = Idle)
BY DEF LettingsInv, TypeOK

(* A request that is refused: a page hears of it, others are forgotten.    *)
LEMMA LettingsFails ==
    ASSUME LettingsInv, OccupancyConstants, NEW s \in Staff,
           req[s].at \in {"find", "check", "write", "commit"}, Ends(s, "failed"),
           UNCHANGED <<rows, page, warnings, recent, sent, was, raced, unkept>>
    PROVE  LettingsInv'
<1>1. PICK r : r = IF ~req[s].paged THEN Idle ELSE [req[s] EXCEPT !.at = "failed"]
  OBVIOUS
<1>2. req' = [req EXCEPT ![s] = r]
  BY <1>1 DEF Ends
<1>3. req[s] \in Request /\ RequestKnows(s, req[s]) /\ Limit \in Nat
  BY RequestTyped, ConstantsHold
<1>4. r \in Request /\ (r.at = "idle" <=> r = Idle) /\ ~r.create /\ RequestKnows(s, r)
      /\ (req[s].paged => r.paged)
  <2>1. CASE ~req[s].paged
    BY <1>1, <2>1, IdleRequest DEF RequestKnows
  <2>2. CASE req[s].paged
    <3>1. r \in Request /\ r.at = "failed" /\ Like(r, req[s])
      BY <1>1, <1>3, <2>2, AtStep
    <3>2. RequestFits(s, req[s]) /\ PageWaits(s, req[s]) /\ CountIsTrue(s, req[s])
      BY <1>3 DEF RequestKnows
    <3>3. ~r.create /\ r.paged /\ r.count = 0 /\ ~r.warn
      BY <1>3, <2>2, <3>1, <3>2 DEF Like, RequestFits, CountIsTrue, Request
    <3>4. RequestFits(s, r) /\ PageWaits(s, r)
      BY <3>1, <3>2, <3>3 DEF RequestFits, PageWaits, Like
    <3>5. CountIsTrue(s, r)
      BY <3>1, <3>2, <3>3 DEF CountIsTrue, Like
    <3>6. LooksAhead(r)
      BY <3>1 DEF LooksAhead
    <3>7. r.at # "idle" /\ r # Idle
      BY <3>1, IdleRequest
    <3> QED BY <3>1, <3>3, <3>4, <3>5, <3>6, <3>7 DEF RequestKnows
  <2> QED BY <2>1, <2>2
<1>5. RequestKnows(s, r)'
  BY <1>4, KnowsTheSame
<1>6. s \in Viewer /\ page'[s].id # None /\ ~r.paged => page'[s].shown \in was[page'[s].id] \cup unkept[s]
  BY <1>4 DEF LettingsInv, ShownWasTrue
<1> QED BY <1>2, <1>4, <1>5, <1>6, NoRowWritten DEF LettingsInv, TypeOK, Pages

(* A request that goes on, with what it knows then.                        *)
LEMMA LettingsGoesOn ==
    ASSUME LettingsInv, OccupancyConstants, NEW s \in Staff, req[s].at # "idle",
           NEW r \in Request, r.at # "idle", req' = [req EXCEPT ![s] = r],
           r.id = req[s].id, r.create = req[s].create, r.paged = req[s].paged, RequestKnows(s, r),
           UNCHANGED <<rows, page, warnings, recent, sent, was, raced, unkept>>
    PROVE  LettingsInv'
<1>1. RequestKnows(s, r)'
  BY KnowsTheSame
<1>2. s \in Viewer /\ page'[s].id # None /\ ~r.paged => page'[s].shown \in was[page'[s].id] \cup unkept[s]
  BY DEF LettingsInv, ShownWasTrue
<1>3. r # Idle
  BY IdleRequest
<1>4. \A t \in Staff \ {s} : r.create /\ req[t].create => r.id # req[t].id
  BY DEF LettingsInv
<1> QED BY <1>1, <1>2, <1>3, <1>4, NoRowWritten DEF LettingsInv, TypeOK, Pages

LEMMA LettingsFind ==
    ASSUME LettingsInv, OccupancyConstants, NEW s \in Staff, Find(s)
    PROVE  LettingsInv'
<1>1. req[s].at = "find" /\ UNCHANGED <<rows, page, warnings, recent, sent, was, raced, unkept>>
      /\ req[s] \in Request /\ RequestKnows(s, req[s])
  BY RequestTyped DEF Find
<1>2. CASE Ends(s, "failed")
  BY <1>1, <1>2, LettingsFails
<1>3. CASE /\ Visible(s, req[s].id)
           /\ req' = [req EXCEPT ![s].at = "check", ![s].seen = rows[req[s].id]]
  <2>1. PICK r : r = [req[s] EXCEPT !.at = "check", !.seen = rows[req[s].id]]
    OBVIOUS
  <2>2. req' = [req EXCEPT ![s] = r]
    BY <1>3, <2>1
  <2>3. rows[req[s].id] \in Row /\ rows[req[s].id].company = CompanyOf[s] /\ req[s].id \in Id
        /\ rows[req[s].id] # None
    BY <1>3 DEF Visible, There, LettingsInv, TypeOK, Rows
  <2>4. r \in Request
    BY <1>1, <2>1, <2>3 DEF Request
  <2>5. /\ r.at = "check" /\ r.seen = rows[r.id] /\ r.id = req[s].id /\ r.create = req[s].create
        /\ r.refs = req[s].refs /\ r.status = req[s].status /\ r.count = req[s].count
        /\ r.warn = req[s].warn /\ r.paged = req[s].paged
    BY <1>1, <2>1 DEF Request
  <2>6. RequestFits(s, req[s]) /\ PageWaits(s, req[s]) /\ CountIsTrue(s, req[s]) /\ ~req[s].create
    BY <1>1 DEF RequestKnows, RequestFits
  <2>7. RequestFits(s, r) /\ PageWaits(s, r)
    BY <1>1, <2>3, <2>5, <2>6 DEF RequestFits, PageWaits
  <2>8. CountIsTrue(s, r) /\ LooksAhead(r)
    BY <1>1, <2>5, <2>6 DEF CountIsTrue, LooksAhead
  <2> QED BY <1>1, <2>2, <2>4, <2>5, <2>7, <2>8, LettingsGoesOn DEF RequestKnows
<1> QED BY <1>1, <1>2, <1>3 DEF Find

LEMMA LettingsCheck ==
    ASSUME LettingsInv, OccupancyConstants, NEW s \in Staff, Check(s)
    PROVE  LettingsInv'
<1>1. req[s].at = "check" /\ UNCHANGED <<rows, page, warnings, recent, sent, was, raced, unkept>>
      /\ req[s] \in Request /\ RequestKnows(s, req[s])
  BY RequestTyped DEF Check
<1>2. CASE Ends(s, "failed")
  BY <1>1, <1>2, LettingsFails
<1>3. CASE /\ \A id \in req[s].refs : Visible(s, id)
           /\ ~(NeedsOverlapCheck(req[s]) /\ Overlaps(req[s]))
           /\ Ends(s, "write")
  <2>1. PICK r : r = [req[s] EXCEPT !.at = "write"]
    OBVIOUS
  <2>2. req' = [req EXCEPT ![s] = r]
    BY <1>3, <2>1 DEF Ends
  <2>3. r \in Request /\ r.at = "write" /\ Like(r, req[s])
    BY <1>1, <2>1, AtStep
  <2>4. RequestFits(s, req[s]) /\ PageWaits(s, req[s]) /\ CountIsTrue(s, req[s]) /\ LooksAhead(req[s])
    BY <1>1 DEF RequestKnows
  <2>5. RequestFits(s, r) /\ PageWaits(s, r)
    BY <1>1, <1>3, <2>3, <2>4 DEF RequestFits, PageWaits, Like
  <2>6. CountIsTrue(s, r)
    BY <1>1, <2>3, <2>4 DEF CountIsTrue, Like
  <2>7. LooksAhead(r)
    <3>1. NeedsOverlapCheck(r) <=> NeedsOverlapCheck(req[s])
      BY <2>3 DEF NeedsOverlapCheck, Like
    <3>2. Overlaps(r) <=> Overlaps(req[s])
      BY <2>3 DEF Overlaps, Like
    <3> QED BY <1>1, <1>3, <2>3, <2>4, <3>1, <3>2 DEF LooksAhead, Like
  <2> QED BY <1>1, <2>2, <2>3, <2>5, <2>6, <2>7, LettingsGoesOn DEF RequestKnows, Like
<1> QED BY <1>1, <1>2, <1>3 DEF Check

LEMMA HavingIsFinite ==
    ASSUME OccupancyConstants, NEW kind, NEW company
    PROVE  IsFiniteSet(Having(kind, company)) /\ Cardinality(Having(kind, company)) \in Nat
<1>1. IsFiniteSet(Id) /\ Having(kind, company) \subseteq Id
  BY ConstantsHold DEF Having, There
<1> QED BY <1>1, FS_Subset, FS_CardinalityType

LEMMA LettingsWrite ==
    ASSUME LettingsInv, OccupancyConstants, NEW s \in Staff, Write(s)
    PROVE  LettingsInv'
<1>1. req[s].at = "write" /\ UNCHANGED <<rows, page, warnings, recent, sent, was, raced, unkept>>
      /\ req[s] \in Request /\ RequestKnows(s, req[s])
  BY RequestTyped DEF Write
<1>2. CASE Ends(s, "failed")
  BY <1>1, <1>2, LettingsFails
<1>3. CASE req' = [req EXCEPT ![s].at = "commit",
                              ![s].count = IF req[s].create THEN Counted(s) ELSE 0]
  <2>1. PICK n : n = IF req[s].create THEN Counted(s) ELSE 0
    OBVIOUS
  <2>2. PICK r : r = [req[s] EXCEPT !.at = "commit", !.count = n]
    OBVIOUS
  <2>3. req' = [req EXCEPT ![s] = r]
    BY <1>3, <2>1, <2>2
  <2>4. PICK m \in Nat : m = Cardinality(Having(KindOf[req[s].id], CompanyOf[s]))
    BY HavingIsFinite
  <2>5. Counted(s) = m + 1
    BY <2>4 DEF Counted, Having
  <2>6. n \in Nat /\ n <= m + 1 /\ (n # 0 => req[s].create)
    BY <2>1, <2>5
  <2>7. r \in Request
    BY <1>1, <2>2, <2>6 DEF Request
  <2>8. /\ r.at = "commit" /\ r.id = req[s].id /\ r.create = req[s].create /\ r.refs = req[s].refs
        /\ r.start = req[s].start /\ r.end = req[s].end /\ r.status = req[s].status
        /\ r.seen = req[s].seen /\ r.count = n /\ r.warn = req[s].warn
        /\ r.crossed = req[s].crossed /\ r.paged = req[s].paged
    BY <1>1, <2>2 DEF Request
  <2>9. RequestFits(s, req[s]) /\ PageWaits(s, req[s]) /\ CountIsTrue(s, req[s]) /\ LooksAhead(req[s])
    BY <1>1 DEF RequestKnows
  <2>10. RequestFits(s, r) /\ PageWaits(s, r)
    BY <1>1, <2>8, <2>9 DEF RequestFits, PageWaits
  <2>11. ~r.warn
    BY <1>1, <2>8, <2>9, ConstantsHold DEF CountIsTrue, Request
  <2>12. CountIsTrue(s, r)
    BY <2>4, <2>6, <2>8, <2>11 DEF CountIsTrue
  <2>13. LooksAhead(r)
    <3>1. NeedsOverlapCheck(r) <=> NeedsOverlapCheck(req[s])
      BY <2>8 DEF NeedsOverlapCheck
    <3>2. Overlaps(r) <=> Overlaps(req[s])
      BY <2>8 DEF Overlaps
    <3> QED BY <1>1, <2>8, <2>9, <3>1, <3>2 DEF LooksAhead
  <2> QED BY <1>1, <2>3, <2>7, <2>8, <2>10, <2>12, <2>13, LettingsGoesOn DEF RequestKnows
<1> QED BY <1>1, <1>2, <1>3 DEF Write

LEMMA LettingsWarn ==
    ASSUME LettingsInv, OccupancyConstants, NEW s \in Staff, Warn(s)
    PROVE  LettingsInv'
<1>1. /\ req[s].at = "commit" /\ UNCHANGED <<rows, page, warnings, recent, sent, was, raced, unkept>>
      /\ req[s] \in Request /\ RequestKnows(s, req[s])
      /\ req[s].count > Limit /\ req' = [req EXCEPT ![s].warn = TRUE]
  BY RequestTyped DEF Warn
<1>2. PICK r : r = [req[s] EXCEPT !.warn = TRUE]
  OBVIOUS
<1>3. req' = [req EXCEPT ![s] = r]
  BY <1>1, <1>2
<1>4. r \in Request
  BY <1>1, <1>2 DEF Request
<1>5. /\ r.at = "commit" /\ r.id = req[s].id /\ r.create = req[s].create /\ r.refs = req[s].refs
      /\ r.start = req[s].start /\ r.end = req[s].end /\ r.status = req[s].status
      /\ r.seen = req[s].seen /\ r.count = req[s].count
      /\ r.crossed = req[s].crossed /\ r.paged = req[s].paged
  BY <1>1, <1>2 DEF Request
<1>6. RequestFits(s, req[s]) /\ PageWaits(s, req[s]) /\ CountIsTrue(s, req[s]) /\ LooksAhead(req[s])
  BY <1>1 DEF RequestKnows
<1>7. RequestFits(s, r) /\ PageWaits(s, r)
  BY <1>1, <1>5, <1>6 DEF RequestFits, PageWaits
<1>8. CountIsTrue(s, r)
  BY <1>1, <1>5, <1>6 DEF CountIsTrue
<1>9. LooksAhead(r)
  <2>1. NeedsOverlapCheck(r) <=> NeedsOverlapCheck(req[s])
    BY <1>5 DEF NeedsOverlapCheck
  <2>2. Overlaps(r) <=> Overlaps(req[s])
    BY <1>5 DEF Overlaps
  <2> QED BY <1>1, <1>5, <1>6, <2>1, <2>2 DEF LooksAhead
<1> QED BY <1>1, <1>3, <1>4, <1>5, <1>7, <1>8, <1>9, LettingsGoesOn DEF RequestKnows

LEMMA LettingsRollback ==
    ASSUME LettingsInv, OccupancyConstants, NEW s \in Staff, Rollback(s)
    PROVE  LettingsInv'
BY LettingsFails DEF Rollback

(* An answer that was not kept: what the page asked for is noted.          *)
LEMMA LettingsAborted ==
    ASSUME LettingsInv, OccupancyConstants, NEW s \in Staff, CommitAborted(s)
    PROVE  LettingsInv'
<1>1. /\ req[s].at = "commit" /\ UNCHANGED <<rows, page, warnings, recent, sent, was, raced>>
      /\ req[s] \in Request /\ RequestKnows(s, req[s]) /\ Limit \in Nat
      /\ unkept \in [Viewer -> SUBSET Status]
  BY RequestTyped, ConstantsHold DEF CommitAborted, LettingsInv, TypeOK
<1>2. RequestFits(s, req[s]) /\ PageWaits(s, req[s]) /\ CountIsTrue(s, req[s])
  BY <1>1 DEF RequestKnows
<1>3. PICK r : r = IF req[s].paged THEN [req[s] EXCEPT !.at = "ok"] ELSE Idle
  OBVIOUS
<1>4. req' = [req EXCEPT ![s] = r]
  BY <1>3 DEF CommitAborted
<1>5. CASE ~req[s].paged
  <2>1. r = Idle /\ UNCHANGED unkept
    BY <1>3, <1>5 DEF CommitAborted
  <2>2. RequestKnows(s, r)'
    BY <2>1, IdleRequest DEF RequestKnows
  <2>3. s \in Viewer /\ page'[s].id # None => page'[s].shown \in was[page'[s].id] \cup unkept'[s]
    BY <1>1, <1>5, <2>1 DEF LettingsInv, ShownWasTrue
  <2> QED BY <1>1, <1>4, <2>1, <2>2, <2>3, IdleRequest, NoRowWritten DEF LettingsInv, TypeOK, Pages
<1>6. CASE req[s].paged
  <2>1. r \in Request /\ r.at = "ok" /\ Like(r, req[s])
    BY <1>1, <1>3, <1>6, AtStep
  <2>2. /\ s \in Viewer /\ page[s].id = r.id /\ page[s].before \in was[r.id] \cup unkept[s]
        /\ r.status = page[s].shown /\ r.status \in Status /\ r.paged /\ r.status # None
    BY <1>1, <1>2, <1>6, <2>1 DEF PageWaits, Like, Request
  <2>3. /\ unkept' \in [Viewer -> SUBSET Status] /\ unkept'[s] = unkept[s] \cup {r.status}
        /\ \A v \in Viewer \ {s} : page'[v] = page[v] /\ unkept'[v] = unkept[v]
    <3>1. unkept' = [unkept EXCEPT ![s] = unkept[s] \cup {r.status}]
      BY <1>6, <2>1 DEF CommitAborted, Like
    <3> QED BY <1>1, <2>2, <3>1
  <2>4. ~r.create /\ r.count = 0 /\ ~r.warn
    BY <1>1, <1>2, <1>6, <2>1 DEF Like, RequestFits, CountIsTrue, Request
  <2>5. RequestFits(s, r)'
    BY <1>1, <1>2, <2>1, <2>4 DEF RequestFits, Like
  <2>6. PageWaits(s, r)'
    BY <1>1, <2>1, <2>2, <2>3 DEF PageWaits
  <2>7. CountIsTrue(s, r)'
    <3>1. Having(KindOf[r.id], CompanyOf[s])' = Having(KindOf[r.id], CompanyOf[s])
      BY <1>1 DEF Having, There
    <3> QED BY <2>4, <3>1, HavingIsFinite DEF CountIsTrue
  <2>8. LooksAhead(r)'
    BY <2>1 DEF LooksAhead
  <2>9. r # Idle
    BY <2>1, IdleRequest
  <2>10. RequestKnows(s, r)'
    BY <2>5, <2>6, <2>7, <2>8 DEF RequestKnows
  <2>11. page' \in Pages /\ \A v \in Viewer : page'[v].id # None => rows[page'[v].id] # None
    BY <1>1 DEF LettingsInv, TypeOK, Pages
  <2>12. recent' \subseteq Company \X Kind /\ \E kind \in Kind : sent' \in 0 .. MaxOf[kind]
    BY <1>1 DEF LettingsInv, TypeOK
  <2> QED BY <1>1, <1>4, <2>1, <2>2, <2>3, <2>4, <2>9, <2>10, <2>11, <2>12, NoRowWritten
<1> QED BY <1>5, <1>6

(* A step of nobody: the day ends.                                         *)
LEMMA LettingsRests ==
    ASSUME LettingsInv, recent' \subseteq recent,
           UNCHANGED <<rows, req, page, warnings, sent, was, raced, unkept>>
    PROVE  LettingsInv'
<1>1. TypeOK'
  BY DEF LettingsInv, TypeOK, Request, Rows
<1>2. \A s \in Staff : RequestKnows(s, req[s])'
  <2> SUFFICES ASSUME NEW s \in Staff PROVE RequestKnows(s, req[s])'
    OBVIOUS
  <2>1. PICK q : q = req[s]
    OBVIOUS
  <2>2. RequestKnows(s, q)
    BY <2>1 DEF LettingsInv
  <2>3. RequestKnows(s, q)'
    BY <2>2, KnowsTheSame
  <2> QED BY <2>1, <2>3
<1>3. RowsAgree' /\ WarningIsTrue' /\ ShownWasTrue'
  BY DEF LettingsInv, RowsAgree, OverlapOnlyByRace, RefsStayHome,
         There, Clash, Refers, WarningIsTrue, ShownWasTrue
<1> QED BY <1>1, <1>2, <1>3 DEF LettingsInv, There

-----------------------------------------------------------------------------
(* What is sent.                                                           *)
LEMMA LettingsSends ==
    ASSUME LettingsInv, OccupancyConstants, NEW s \in Staff, NEW r \in Request,
           Sends(s, r), r.at \in {"find", "check"}, r.id \in Id,
           r.at = "check" => r.create, r.count = 0, ~r.warn,
           RequestFits(s, r), PageWaits(s, r)',
           \A t \in Staff \ {s} : r.create /\ req[t].create => r.id # req[t].id,
           page' \in Pages, \A v \in Viewer \ {s} : page'[v] = page[v],
           \A v \in Viewer : page'[v].id # None => rows[page'[v].id] # None,
           s \in Viewer /\ ~r.paged => page'[s] = page[s],
           UNCHANGED <<rows, warnings, recent, was, raced, unkept>>
    PROVE  LettingsInv'
<1>1. req[s] = Idle /\ req' = [req EXCEPT ![s] = r] /\ sent < MaxOf[KindOf[r.id]] /\ sent' = sent + 1
  BY DEF Sends
<1>2. KindOf[r.id] \in Kind /\ MaxOf[KindOf[r.id]] \in Nat /\ sent \in Nat
  BY DEF LettingsInv, TypeOK, OccupancyConstants
<1>3. \E kind \in Kind : sent' \in 0 .. MaxOf[kind]
  BY <1>1, <1>2
<1>4. RequestFits(s, r)'
  BY DEF RequestFits, Visible, There
<1>5. CountIsTrue(s, r)'
  <2>1. Having(KindOf[r.id], CompanyOf[s])' = Having(KindOf[r.id], CompanyOf[s])
    BY DEF Having, There
  <2> QED BY <2>1, HavingIsFinite DEF CountIsTrue
<1>6. LooksAhead(r)'
  BY DEF LooksAhead
<1>7. RequestKnows(s, r)'
  BY <1>4, <1>5, <1>6 DEF RequestKnows
<1>8. s \in Viewer /\ page'[s].id # None /\ ~r.paged => page'[s].shown \in was[page'[s].id] \cup unkept[s]
  BY <1>1, IdleRequest DEF LettingsInv, ShownWasTrue
<1>9. r.at # "idle" /\ r # Idle
  BY IdleRequest
<1> QED BY <1>1, <1>3, <1>7, <1>8, <1>9, NoRowWritten DEF LettingsInv, TypeOK

LEMMA LettingsPosts ==
    ASSUME LettingsInv, OccupancyConstants, NEW s \in Staff, NEW kind \in Kind,
           NEW q \in Request, q.count = 0, ~q.warn, ~q.paged,
           Kinds(q.refs) = RefersTo(kind), Posts(s, kind, q)
    PROVE  LettingsInv'
<1>1. PICK id : id = CHOOSE i \in Of(kind) \ Taken : TRUE
  OBVIOUS
<1>2. id \in Of(kind) \ Taken
  BY <1>1 DEF Posts
<1>3. id \in Id /\ KindOf[id] = kind /\ rows[id] = None /\ \A t \in Staff : req[t].id # id
  BY <1>2 DEF Of, Taken, There
<1>4. PICK r : r = [q EXCEPT !.at = "check", !.create = TRUE, !.id = id]
  OBVIOUS
<1>5. Sends(s, r) /\ UNCHANGED <<rows, page, warnings, recent, was, raced, unkept>>
  BY <1>1, <1>4 DEF Posts
<1>6. r \in Request
  BY <1>3, <1>4 DEF Request
<1>7. r.at = "check" /\ r.id = id /\ r.create /\ r.refs = q.refs /\ r.count = 0 /\ ~r.warn /\ ~r.paged
  BY <1>4 DEF Request
<1>8. RequestFits(s, r) /\ PageWaits(s, r)'
  BY <1>3, <1>7 DEF RequestFits, PageWaits
<1> QED BY <1>3, <1>5, <1>6, <1>7, <1>8, LettingsSends DEF LettingsInv, TypeOK, Pages

LEMMA LettingsPatches ==
    ASSUME LettingsInv, OccupancyConstants, NEW s \in Staff, NEW id \in There,
           NEW q \in Request, q.count = 0, ~q.warn, ~q.create,
           q.refs # {} => KindOf[id] = "unit" /\ Kinds(q.refs) = {"property"},
           q.paged => /\ s \in Viewer /\ page'[s].id = id /\ page'[s].before \in was[id] \cup unkept[s]
                      /\ q.status = page'[s].shown /\ q.status # None,
           page' \in Pages, \A v \in Viewer \ {s} : page'[v] = page[v],
           \A v \in Viewer : page'[v].id # None => rows[page'[v].id] # None,
           s \in Viewer /\ ~q.paged => page'[s] = page[s],
           Patches(s, id, q)
    PROVE  LettingsInv'
<1>1. PICK r : r = [q EXCEPT !.at = "find", !.id = id]
  OBVIOUS
<1>2. id \in Id /\ rows[id] # None
  BY DEF There
<1>3. Sends(s, r) /\ UNCHANGED <<rows, warnings, recent, was, raced, unkept>>
  BY <1>1 DEF Patches
<1>4. r \in Request
  BY <1>1, <1>2 DEF Request
<1>5. r.at = "find" /\ r.id = id /\ ~r.create /\ r.refs = q.refs /\ r.count = 0 /\ ~r.warn
      /\ r.paged = q.paged /\ r.status = q.status
  BY <1>1 DEF Request
<1>6. RequestFits(s, r)
  BY <1>2, <1>5 DEF RequestFits
<1>7. PageWaits(s, r)'
  BY <1>3, <1>5 DEF PageWaits
<1> QED BY <1>2, <1>3, <1>4, <1>5, <1>6, <1>7, LettingsSends

LEMMA LettingsNew ==
    ASSUME LettingsInv, OccupancyConstants, NEW s \in Staff,
           NewProperty(s) \/ NewTenant(s) \/ NewUnit(s) \/ NewContract(s)
    PROVE  LettingsInv'
<1>1. ASSUME NEW kind \in {"property", "tenant"}, NEW key \in Key \cup {None},
             Posts(s, kind, [Idle EXCEPT !.key = key])
      PROVE  LettingsInv'
  <2>1. PICK q : q = [Idle EXCEPT !.key = key]
    OBVIOUS
  <2>2. q \in Request /\ q.count = 0 /\ ~q.warn /\ ~q.paged /\ q.refs = {}
    BY <2>1, IdleRequest DEF Request, Idle
  <2>3. Kinds(q.refs) = RefersTo(kind) /\ kind \in Kind
    BY <2>2 DEF Kinds, RefersTo, Kind
  <2> QED BY <1>1, <2>1, <2>2, <2>3, LettingsPosts
<1>2. ASSUME NEW property \in Of("property"), NEW number \in Key,
             Posts(s, "unit", [Idle EXCEPT !.refs = {property}, !.key = number])
      PROVE  LettingsInv'
  <2>1. PICK q : q = [Idle EXCEPT !.refs = {property}, !.key = number]
    OBVIOUS
  <2>2. property \in Id /\ KindOf[property] = "property"
    BY DEF Of
  <2>3. q \in Request /\ q.count = 0 /\ ~q.warn /\ ~q.paged /\ q.refs = {property}
    BY <2>1, <2>2, IdleRequest DEF Request, Idle
  <2>4. Kinds(q.refs) = RefersTo("unit") /\ "unit" \in Kind
    BY <2>2, <2>3 DEF Kinds, RefersTo, Kind
  <2> QED BY <1>2, <2>1, <2>3, <2>4, LettingsPosts
<1>3. ASSUME NEW unit \in Of("unit"), NEW tenant \in Of("tenant"),
             NEW start \in Day, NEW end \in Day \cup {NoEnd},
             Posts(s, "contract",
                 [Idle EXCEPT !.refs = {unit, tenant}, !.start = start, !.end = end])
      PROVE  LettingsInv'
  <2>1. PICK q : q = [Idle EXCEPT !.refs = {unit, tenant}, !.start = start, !.end = end]
    OBVIOUS
  <2>2. unit \in Id /\ KindOf[unit] = "unit" /\ tenant \in Id /\ KindOf[tenant] = "tenant"
    BY DEF Of
  <2>3. q \in Request /\ q.count = 0 /\ ~q.warn /\ ~q.paged /\ q.refs = {unit, tenant}
    BY <2>1, <2>2, IdleRequest DEF Request, Idle
  <2>4. Kinds(q.refs) = RefersTo("contract") /\ "contract" \in Kind
    BY <2>2, <2>3 DEF Kinds, RefersTo, Kind
  <2> QED BY <1>3, <2>1, <2>3, <2>4, LettingsPosts
<1> QED BY <1>1, <1>2, <1>3 DEF NewProperty, NewTenant, NewUnit, NewContract,
        PostProperty, PostTenant, PostUnit, PostContract

LEMMA LettingsEdit ==
    ASSUME LettingsInv, OccupancyConstants, NEW s \in Staff, Edit(s)
    PROVE  LettingsInv'
<1>0. \A kind \in Kind : StatusOf[kind] \subseteq Status
  BY DEF OccupancyConstants
<1>1. ASSUME NEW id \in There, NEW status \in Status \cup {None}, NEW end \in Day \cup {None},
             Patches(s, id, [Idle EXCEPT !.status = status, !.end = end]), UNCHANGED page
      PROVE  LettingsInv'
  <2>1. PICK q : q = [Idle EXCEPT !.status = status, !.end = end]
    OBVIOUS
  <2>2. q \in Request /\ q.count = 0 /\ ~q.warn /\ ~q.create /\ ~q.paged /\ q.refs = {}
    BY <2>1, IdleRequest DEF Request, Idle
  <2> QED BY <1>1, <2>1, <2>2, LettingsPatches DEF LettingsInv, TypeOK, Pages
<1>2. ASSUME NEW id \in There, KindOf[id] = "unit", NEW property \in Of("property") \cup {None},
             NEW number \in Key \cup {None}, NEW status \in Status \cup {None},
             Patches(s, id, [Idle EXCEPT !.refs = {property} \ {None}, !.key = number,
                                                           !.status = status]), UNCHANGED page
      PROVE  LettingsInv'
  <2>1. PICK q : q = [Idle EXCEPT !.refs = {property} \ {None}, !.key = number, !.status = status]
    OBVIOUS
  <2>2. PICK refs : refs = {property} \ {None}
    OBVIOUS
  <2>3. refs \in SUBSET Id /\ (refs # {} => Kinds(refs) = {"property"})
    BY <2>2, ConstantsHold DEF Of, Kinds
  <2>4. q \in Request /\ q.count = 0 /\ ~q.warn /\ ~q.create /\ ~q.paged /\ q.refs = refs
    BY <2>1, <2>2, <2>3, IdleRequest DEF Request, Idle
  <2> QED BY <1>2, <2>1, <2>3, <2>4, LettingsPatches DEF LettingsInv, TypeOK, Pages
<1>3. ASSUME NEW id \in There, NEW key \in Key \cup {None}, NEW status \in Status \cup {None},
             Patches(s, id, [Idle EXCEPT !.key = key, !.status = status]), UNCHANGED page
      PROVE  LettingsInv'
  <2>1. PICK q : q = [Idle EXCEPT !.key = key, !.status = status]
    OBVIOUS
  <2>2. q \in Request /\ q.count = 0 /\ ~q.warn /\ ~q.create /\ ~q.paged /\ q.refs = {}
    BY <2>1, IdleRequest DEF Request, Idle
  <2> QED BY <1>3, <2>1, <2>2, LettingsPatches DEF LettingsInv, TypeOK, Pages
<1>4. CASE \E id \in Of("contract"), status \in StatusOf["contract"] \cup {None}, end \in Day \cup {None} :
              PatchContract(s, id, status, end)
  BY <1>0, <1>1, <1>4 DEF PatchContract, Kind
<1>5. CASE \E id \in Of("unit"), property \in Of("property") \cup {None},
              number \in Key \cup {None}, status \in StatusOf["unit"] \cup {None} :
              PatchUnit(s, id, property, number, status)
  BY <1>0, <1>2, <1>5 DEF PatchUnit, Kind, Of
<1>6. CASE \E id \in Of("property") \cup Of("tenant"), key \in Key \cup {None},
              status \in StatusOf["tenant"] \cup {None} : PatchOther(s, id, key, status)
  BY <1>0, <1>3, <1>6 DEF PatchOther, Kind
<1> QED BY <1>4, <1>5, <1>6 DEF Edit

LEMMA LettingsClick ==
    ASSUME LettingsInv, OccupancyConstants, NEW s \in Viewer, NEW status, Click(s, status)
    PROVE  LettingsInv'
<1>1. PICK q : q = [Idle EXCEPT !.status = status, !.paged = TRUE]
  OBVIOUS
<1>2. /\ page[s].id \in Id /\ rows[page[s].id] # None /\ s \in Staff
      /\ page' = [page EXCEPT ![s].shown = status, ![s].before = page[s].shown]
      /\ Patches(s, page[s].id, q) /\ page \in Pages
  BY <1>1, ConstantsHold DEF Click, LettingsInv, TypeOK, Pages
<1>3. status \in Status /\ status # None
  BY DEF Click, Offered, OccupancyConstants, Status, Kind
<1>4. req[s] = Idle
  BY <1>2 DEF Patches, Sends
<1>5. page[s].shown \in was[page[s].id] \cup unkept[s]
  BY <1>2, <1>4, IdleRequest, ConstantsHold DEF LettingsInv, ShownWasTrue
<1>6. /\ page' \in Pages /\ page'[s].id = page[s].id /\ page'[s].shown = status
      /\ page'[s].before = page[s].shown /\ \A v \in Viewer \ {s} : page'[v] = page[v]
  BY <1>2, <1>3 DEF Pages
<1>7. \A v \in Viewer : page'[v].id # None => rows[page'[v].id] # None
  BY <1>2, <1>6 DEF LettingsInv, TypeOK
<1>8. q \in Request /\ q.count = 0 /\ ~q.warn /\ ~q.create /\ q.paged /\ q.refs = {} /\ q.status = status
  BY <1>1, <1>3, IdleRequest DEF Request, Idle
<1>9. page[s].id \in There
  BY <1>2 DEF There
<1> QED BY <1>2, <1>3, <1>5, <1>6, <1>7, <1>8, <1>9, LettingsPatches

LEMMA LettingsOpen ==
    ASSUME LettingsInv, OccupancyConstants, NEW s \in Viewer, NEW id \in Id, Open(s, id)
    PROVE  LettingsInv'
<1>1. /\ s \in Staff /\ req[s] = Idle /\ id \in There /\ rows[id] # None
      /\ UNCHANGED <<rows, req, warnings, recent, sent, was, raced>>
      /\ page' = [page EXCEPT ![s] = [NoPage EXCEPT !.id = id, !.shown = rows[id].status]]
      /\ unkept' = [unkept EXCEPT ![s] = {}] /\ unkept \in [Viewer -> SUBSET Status]
      /\ page \in Pages
  BY ConstantsHold DEF Open, Visible, There, LettingsInv, TypeOK, Pages
<1>2. rows[id].status \in Status /\ rows[id].status \in was[id]
  BY <1>1 DEF LettingsInv, TypeOK, Rows, Row
<1>3. /\ page' \in Pages /\ page'[s].id = id /\ page'[s].shown = rows[id].status
      /\ \A v \in Viewer \ {s} : page'[v] = page[v] /\ unkept'[v] = unkept[v]
      /\ unkept' \in [Viewer -> SUBSET Status]
  BY <1>1, <1>2 DEF Pages, NoPage
<1>4. \A v \in Viewer : page'[v].id # None => rows[page'[v].id] # None
  BY <1>1, <1>3 DEF LettingsInv, TypeOK
<1>5. req' = [req EXCEPT ![s] = Idle]
  BY <1>1 DEF LettingsInv, TypeOK
<1>6. RequestKnows(s, Idle)'
  BY IdleRequest DEF RequestKnows
<1> QED BY <1>1, <1>2, <1>3, <1>4, <1>5, <1>6, IdleRequest, NoRowWritten DEF LettingsInv, TypeOK

LEMMA LettingsAnswer ==
    ASSUME LettingsInv, OccupancyConstants, NEW s \in Viewer, Answer(s)
    PROVE  LettingsInv'
<1>1. /\ s \in Staff /\ req[s].at \in {"ok", "failed"} /\ page \in Pages
      /\ req' = [req EXCEPT ![s] = Idle]
      /\ UNCHANGED <<rows, warnings, recent, sent, was, raced, unkept>>
  BY ConstantsHold DEF Answer, LettingsInv, TypeOK, Pages
<1>2. /\ req[s].paged /\ page[s].id = req[s].id /\ page[s].before \in was[page[s].id] \cup unkept[s]
      /\ req[s].at = "ok" => page[s].shown \in was[page[s].id] \cup unkept[s]
  BY <1>1, RequestTyped DEF RequestKnows, PageWaits
<1>3. /\ page' \in Pages /\ page'[s].id = page[s].id
      /\ page'[s].shown \in was[page[s].id] \cup unkept[s]
      /\ \A v \in Viewer \ {s} : page'[v] = page[v]
  <2>1. CASE page' = [page EXCEPT ![s].shown = page[s].before, ![s].before = None]
    BY <1>1, <1>2, <2>1 DEF Pages
  <2>2. CASE req[s].at = "ok" /\ page' = [page EXCEPT ![s].before = None]
    BY <1>1, <1>2, <2>2 DEF Pages
  <2> QED BY <2>1, <2>2 DEF Answer
<1>4. \A v \in Viewer : page'[v].id # None => rows[page'[v].id] # None
  BY <1>3 DEF LettingsInv, TypeOK
<1>5. RequestKnows(s, Idle)'
  BY IdleRequest DEF RequestKnows
<1> QED BY <1>1, <1>3, <1>4, <1>5, IdleRequest, NoRowWritten DEF LettingsInv, TypeOK

-----------------------------------------------------------------------------
UnitAsked(r) == UnitOf(IF r.create THEN r.refs ELSE rows[r.id].refs)

(* The row a transaction commits.                                          *)
LEMMA CommittedRow ==
    ASSUME LettingsInv, OccupancyConstants, NEW s \in Staff, req[s].at = "commit",
           NEW r, r = req[s], NEW row, row = Written(s)
    PROVE  /\ row \in Row /\ row.company = CompanyOf[s]
           /\ Kinds(row.refs) = RefersTo(KindOf[r.id])
           /\ \A ref \in row.refs : Visible(s, ref)
           /\ r.create => row.refs = r.refs /\ row.start = r.start /\ row.end = r.end
           /\ ~r.create => /\ row.start = rows[r.id].start /\ row.end = Or(r.end, rows[r.id].end)
                           /\ row.status = Or(r.status, rows[r.id].status)
                           /\ KindOf[r.id] = "contract" => row.refs = rows[r.id].refs
                           /\ rows[r.id] \in Row /\ row.company = rows[r.id].company
<1>1. r \in Request /\ RequestFits(s, r) /\ r.id \in Id /\ KindOf[r.id] \in Kind
      /\ CompanyOf[s] \in Company
  BY RequestTyped, ConstantsHold DEF RequestKnows, RequestFits
<1>2. CASE r.create
  <2>1. row = [company |-> CompanyOf[s], refs |-> r.refs, key |-> r.key,
               start |-> r.start, end |-> r.end, status |-> FirstStatus(KindOf[r.id])]
    BY <1>2 DEF Written
  <2>2. FirstStatus(KindOf[r.id]) \in Status
    BY DEF FirstStatus, Status
  <2>3. row \in Row
    BY <1>1, <2>1, <2>2 DEF Request, Row
  <2> QED BY <1>1, <1>2, <2>1, <2>3 DEF RequestFits
<1>3. CASE ~r.create
  <2>1. PICK old : old = rows[r.id]
    OBVIOUS
  <2>2. old \in Row /\ old # None /\ old.company = CompanyOf[s]
        /\ Kinds(old.refs) = RefersTo(KindOf[r.id])
        /\ \A ref \in old.refs : Visible(s, ref)
    <3>1. old \in Row /\ old # None /\ old.company = CompanyOf[s] /\ r.id \in There
      BY <1>1, <1>3, <2>1 DEF RequestFits, LettingsInv, TypeOK, Rows, There
    <3>2. Refers(rows, r.id)
      BY <3>1 DEF LettingsInv, RowsAgree, RefsStayHome
    <3> QED BY <2>1, <3>1, <3>2 DEF Refers, Visible, There, Row
  <2>3. PICK refs : refs = IF r.refs = {} THEN old.refs ELSE r.refs
    OBVIOUS
  <2>4. row = [old EXCEPT !.refs = refs, !.key = Or(r.key, old.key),
                          !.end = Or(r.end, old.end), !.status = Or(r.status, old.status)]
    BY <1>3, <2>1, <2>2, <2>3 DEF Written, Row
  <2>5. /\ refs \in SUBSET Id /\ Or(r.key, old.key) \in Key \cup {None}
        /\ Or(r.end, old.end) \in Day \cup {NoEnd, None}
        /\ Or(r.status, old.status) \in Status
    BY <1>1, <2>2, <2>3 DEF Or, Request, Row
  <2>6. row \in Row
    BY <2>2, <2>4, <2>5 DEF Row
  <2>7. /\ row.company = old.company /\ row.refs = refs /\ row.start = old.start
        /\ row.end = Or(r.end, old.end) /\ row.status = Or(r.status, old.status)
    BY <2>2, <2>4 DEF Row
  <2>8. Kinds(refs) = RefersTo(KindOf[r.id])
    BY <1>1, <1>3, <2>2, <2>3 DEF RequestFits, RefersTo
  <2>9. \A ref \in refs : Visible(s, ref)
    BY <1>1, <2>2, <2>3 DEF RequestFits
  <2>10. KindOf[r.id] = "contract" => refs = old.refs
    BY <1>1, <1>3, <2>3 DEF RequestFits
  <2> QED BY <1>3, <2>1, <2>2, <2>6, <2>7, <2>8, <2>9, <2>10
<1> QED BY <1>2, <1>3

(* What a commit is to the others: a row that is new, or the old one with   *)
(* its company and, of a contract, its unit.                               *)
Commits(s, id, row) ==
    /\ id = req[s].id /\ id \in Id /\ row \in Row /\ row # None
    /\ rows' = [rows EXCEPT ![id] = row]
    /\ rows[id] # None => row.company = rows[id].company
    /\ rows[id] = None <=> req[s].create
    /\ KindOf[id] = "contract" => UnitOf(row.refs) = UnitAsked(req[s])
    /\ was' = [was EXCEPT ![id] = was[id] \cup {row.status}]
    /\ page' = page /\ unkept' = unkept

LEMMA RowCommitted ==
    ASSUME LettingsInv, NEW s, NEW id, NEW row, Commits(s, id, row)
    PROVE  /\ rows'[id] = row /\ \A i \in Id \ {id} : rows'[i] = rows[i]
           /\ There' = There \cup {id}
           /\ rows' \in Rows
           /\ \A t, i : Visible(t, i) => Visible(t, i)'
           /\ \A i \in Id : was[i] \subseteq was'[i]
<1>1. rows \in Rows /\ was \in [Id -> SUBSET Status]
  BY DEF LettingsInv, TypeOK
<1>2. rows'[id] = row /\ \A i \in Id \ {id} : rows'[i] = rows[i]
  BY <1>1 DEF Commits, Rows
<1>3. There' = There \cup {id}
  BY <1>2 DEF Commits, There
<1>4. rows' \in Rows
  BY <1>1 DEF Commits, Rows
<1>5. \A t, i : Visible(t, i) => Visible(t, i)'
  BY <1>2, <1>3 DEF Visible, There, Commits
<1>6. \A i \in Id : was[i] \subseteq was'[i]
  BY <1>1 DEF Commits
<1> QED BY <1>2, <1>3, <1>4, <1>5, <1>6

LEMMA HavingGrows ==
    ASSUME LettingsInv, OccupancyConstants, NEW s, NEW id, NEW row, Commits(s, id, row),
           NEW kind, NEW company
    PROVE  /\ Cardinality(Having(kind, company)) <= Cardinality(Having(kind, company)')
           /\ rows[id] = None /\ KindOf[id] = kind /\ row.company = company =>
                 Cardinality(Having(kind, company)') = Cardinality(Having(kind, company)) + 1
           /\ Cardinality(Having(kind, company)) \in Nat /\ Cardinality(Having(kind, company)') \in Nat
<1>0. id \in Id /\ row # None
  BY DEF Commits
<1>1. /\ rows'[id] = row /\ \A i \in Id \ {id} : rows'[i] = rows[i]
      /\ There' = There \cup {id}
  BY RowCommitted
<1>2. Having(kind, company) \subseteq Having(kind, company)'
  BY <1>0, <1>1 DEF Having, Commits, There
<1>3. Having(kind, company)' \subseteq Id
  BY <1>0, <1>1 DEF Having, There
<1>4. IsFiniteSet(Having(kind, company)) /\ IsFiniteSet(Having(kind, company)')
  BY <1>2, <1>3, ConstantsHold, FS_Subset
<1>5. Cardinality(Having(kind, company)) <= Cardinality(Having(kind, company)')
      /\ Cardinality(Having(kind, company)) \in Nat /\ Cardinality(Having(kind, company)') \in Nat
  BY <1>2, <1>4, FS_Subset, FS_CardinalityType
<1>6. ASSUME rows[id] = None, KindOf[id] = kind, row.company = company
      PROVE  Cardinality(Having(kind, company)') = Cardinality(Having(kind, company)) + 1
  <2>1. Having(kind, company)' = Having(kind, company) \cup {id} /\ id \notin Having(kind, company)
    BY <1>0, <1>1, <1>6 DEF Having, There
  <2> QED BY <1>4, <2>1, FS_AddElement
<1> QED BY <1>5, <1>6

(* What another request knows survives a commit, unless it is crossed.      *)
LEMMA OthersKnow ==
    ASSUME LettingsInv, OccupancyConstants, NEW s \in Staff, NEW t \in Staff, s # t,
           req[s].at = "commit", NEW id, NEW row, Commits(s, id, row),
           NEW q, q \in Request, Like(q, [req[t] EXCEPT !.crossed = q.crossed]), q.at = req[t].at,
           IF SameUnit(s, t) THEN q.crossed ELSE q.crossed = req[t].crossed
    PROVE  RequestKnows(t, q)'
<1>0. PICK r : r = req[t]
  OBVIOUS
<1>1. r \in Request /\ (r.at # "idle" => RequestKnows(t, r))
  BY <1>0, RequestTyped
<1>2. /\ q.at = r.at /\ q.id = r.id /\ q.create = r.create /\ q.refs = r.refs /\ q.start = r.start /\ q.end = r.end
      /\ q.status = r.status /\ q.seen = r.seen /\ q.count = r.count /\ q.warn = r.warn /\ q.paged = r.paged
  BY <1>0, <1>1 DEF Like, Request
<1>3. CASE q.at = "idle"
  BY <1>3 DEF RequestKnows
<1>4. CASE q.at # "idle"
  <2>1. RequestFits(t, r) /\ PageWaits(t, r) /\ CountIsTrue(t, r) /\ LooksAhead(r) /\ r.id \in Id
    BY <1>1, <1>2, <1>4 DEF RequestKnows, RequestFits
  <2>2. /\ rows'[id] = row /\ \A i \in Id \ {id} : rows'[i] = rows[i]
        /\ There' = There \cup {id}
        /\ \A u, i : Visible(u, i) => Visible(u, i)'
        /\ \A i \in Id : was[i] \subseteq was'[i]
    BY RowCommitted
  <2>8. id \in Id /\ row # None
    BY DEF Commits
  <2>3. r.create => r.id # id
    BY <1>0, <2>1 DEF LettingsInv, Commits, RequestFits
  <2>4. RequestFits(t, q)'
    <3>1. r.create => rows'[r.id] = None
      BY <2>1, <2>2, <2>3, <2>8 DEF RequestFits
    <3>2. ~r.create => rows'[r.id] # None /\ rows'[r.id].company = rows[r.id].company
      BY <1>2, <1>4, <2>1, <2>2, <2>8 DEF RequestFits, Commits
    <3>3. r.at \in {"write", "commit"} => \A ref \in r.refs : Visible(t, ref)'
      BY <2>1, <2>2 DEF RequestFits
    <3> QED BY <1>2, <1>4, <2>1, <3>1, <3>2, <3>3 DEF RequestFits
  <2>5. PageWaits(t, q)'
    BY <1>2, <2>1, <2>2 DEF PageWaits, Commits
  <2>6. CountIsTrue(t, q)'
    <3>1. PICK m \in Nat, n \in Nat : /\ m = Cardinality(Having(KindOf[r.id], CompanyOf[t]))
                                      /\ n = Cardinality(Having(KindOf[r.id], CompanyOf[t])') /\ m <= n
      BY HavingGrows
    <3>2. r.count \in Nat /\ r.count <= n + 1
      BY <1>1, <2>1, <3>1 DEF CountIsTrue, Request
    <3>3. Cardinality(Having(KindOf[q.id], CompanyOf[t])') = n
      BY <1>2, <3>1
    <3> QED BY <1>2, <2>1, <3>2, <3>3 DEF CountIsTrue
  <2>7. LooksAhead(q)'
    <3> SUFFICES ASSUME KindOf[r.id] = "contract", ~q.crossed
                 PROVE  /\ r.at \in {"check", "write", "commit"} /\ ~r.create => r.seen = rows'[r.id]
                        /\ r.at \in {"write", "commit"} /\ NeedsOverlapCheck(q) => ~Overlaps(q)'
      BY <1>2 DEF LooksAhead, NeedsOverlapCheck
    <3>1. ~SameUnit(s, t) /\ ~r.crossed
      BY <1>0
    <3>2. KindOf[id] = "contract" /\ r.at \in {"find", "check", "write", "commit"} =>
             UnitOf(row.refs) # UnitAsked(r)
      BY <1>0, <3>1 DEF SameUnit, UnitAsked, Commits
    <3>3. r.at \in {"check", "write", "commit"} /\ ~r.create => r.seen = rows[r.id] /\ r.id # id
      <4> SUFFICES ASSUME r.at \in {"check", "write", "commit"}, ~r.create
                   PROVE  r.seen = rows[r.id] /\ r.id # id
        OBVIOUS
      <4>1. r.seen = rows[r.id] /\ rows[r.id] # None
        BY <2>1, <3>1 DEF LooksAhead, RequestFits
      <4>2. ASSUME r.id = id PROVE FALSE
        <5>1. ~req[s].create
          BY <4>1, <4>2 DEF Commits
        <5>2. UnitAsked(req[s]) = UnitAsked(r) /\ UnitOf(row.refs) = UnitAsked(req[s])
          BY <4>2, <5>1 DEF UnitAsked, Commits
        <5> QED BY <3>2, <4>2, <5>2
      <4> QED BY <4>1, <4>2
    <3>4. ASSUME r.at \in {"write", "commit"}, NeedsOverlapCheck(q), Overlaps(q)' PROVE FALSE
      <4>1. ~Overlaps(r)
        BY <1>2, <2>1, <3>1, <3>4 DEF LooksAhead, NeedsOverlapCheck
      <4>2. PICK unit : unit = UnitOf(IF r.create THEN r.refs ELSE r.seen.refs)
        OBVIOUS
      <4>3. unit = UnitAsked(r)
        BY <3>3, <3>4, <4>2 DEF UnitAsked
      <4>4. PICK i \in There' \ {r.id} :
               /\ KindOf[i] = "contract" /\ UnitOf(rows'[i].refs) = unit /\ Live(rows'[i].status)
               /\ Overlap(rows'[i].start, rows'[i].end,
                       IF r.create THEN r.start ELSE r.seen.start,
                       IF r.create THEN r.end ELSE Or(r.end, r.seen.end))
        BY <1>2, <3>4, <4>2 DEF Overlaps
      <4>5. i # id
        BY <2>2, <3>2, <3>4, <4>3, <4>4
      <4>6. i \in There \ {r.id} /\ rows'[i] = rows[i]
        BY <2>2, <4>4, <4>5 DEF There
      <4> QED BY <4>1, <4>2, <4>4, <4>6 DEF Overlaps
    <3> QED BY <2>2, <2>1, <3>3, <3>4
  <2> QED BY <2>4, <2>5, <2>6, <2>7 DEF RequestKnows
<1> QED BY <1>3, <1>4

(* Two live contracts of a unit come to overlap only when one was crossed. *)
LEMMA ClashIsRaced ==
    ASSUME LettingsInv, OccupancyConstants, NEW s \in Staff, req[s].at = "commit",
           NEW id, NEW row, row = Written(s), Commits(s, id, row),
           NEW other \in There \ {id},
           KindOf[id] = "contract", KindOf[other] = "contract",
           Live(row.status), Live(rows[other].status),
           UnitOf(row.refs) = UnitOf(rows[other].refs),
           Overlap(rows[other].start, rows[other].end, row.start, row.end)
    PROVE  req[s].crossed \/ UnitOf(row.refs) \in raced
<1>1. PICK r : r = req[s]
  OBVIOUS
<1>2. r \in Request /\ RequestFits(s, r) /\ LooksAhead(r) /\ id = r.id /\ id \in Id /\ r.at = "commit"
      /\ (rows[id] = None <=> r.create)
      /\ UnitOf(row.refs) = UnitAsked(r)
  BY <1>1, RequestTyped DEF RequestKnows, Commits
<1>3. SUFFICES ASSUME ~r.crossed PROVE UnitOf(row.refs) \in raced
  BY <1>1
<1>4. /\ ~r.create => r.seen = rows[r.id]
      /\ NeedsOverlapCheck(r) => ~Overlaps(r)
  BY <1>1, <1>2, <1>3 DEF LooksAhead
<1>5. /\ r.create => row.start = r.start /\ row.end = r.end
      /\ ~r.create => /\ row.start = rows[r.id].start /\ row.end = Or(r.end, rows[r.id].end)
                      /\ row.status = Or(r.status, rows[r.id].status)
                      /\ row.refs = rows[r.id].refs
  BY <1>1, <1>2, CommittedRow
<1>6. Overlaps(r)
  <2>1. UnitOf(row.refs) = UnitOf(IF r.create THEN r.refs ELSE r.seen.refs)
    BY <1>2, <1>4 DEF UnitAsked
  <2>2. /\ row.start = IF r.create THEN r.start ELSE r.seen.start
        /\ row.end = IF r.create THEN r.end ELSE Or(r.end, r.seen.end)
    BY <1>4, <1>5
  <2> QED BY <1>2, <2>1, <2>2 DEF Overlaps
<1>7. ~NeedsOverlapCheck(r)
  BY <1>4, <1>6
<1>8. ~r.create /\ r.end = None /\ Live(r.seen.status)
  BY <1>2, <1>4, <1>5, <1>7 DEF NeedsOverlapCheck
<1>9. row.end = rows[id].end /\ row.start = rows[id].start /\ row.refs = rows[id].refs
      /\ Live(rows[id].status) /\ id \in There
  BY <1>2, <1>4, <1>5, <1>8 DEF Or, There, RequestFits
<1>10. Clash(rows, other, id)
  BY <1>9 DEF Clash
<1> QED BY <1>9, <1>10 DEF LettingsInv, RowsAgree, OverlapOnlyByRace

LEMMA LettingsCommit ==
    ASSUME LettingsInv, OccupancyConstants, NEW s \in Staff, Commit(s)
    PROVE  LettingsInv'
<1>1. PICK r, id, row : r = req[s] /\ id = req[s].id /\ row = Written(s)
  OBVIOUS
<1>2. /\ req[s].at = "commit" /\ page' = page /\ sent' = sent /\ unkept' = unkept
      /\ rows' = [rows EXCEPT ![id] = row]
      /\ was' = [was EXCEPT ![id] = was[id] \cup {row.status}]
      /\ warnings' = IF ~r.warn THEN warnings ELSE
              warnings \cup {[company |-> CompanyOf[s], kind |-> KindOf[id], count |-> r.count]}
      /\ recent' = IF r.warn THEN recent \cup {<<CompanyOf[s], KindOf[id]>>} ELSE recent
      /\ raced' = IF r.crossed THEN raced \cup {UnitOf(row.refs)} ELSE raced
      /\ req' = [t \in Staff |->
                IF t = s THEN IF r.paged THEN [r EXCEPT !.at = "ok"] ELSE Idle
                ELSE IF SameUnit(s, t) THEN [req[t] EXCEPT !.crossed = TRUE] ELSE req[t]]
  BY <1>1 DEF Commit, Limited, LettingsInv, TypeOK
<1>3. /\ r \in Request /\ RequestFits(s, r) /\ PageWaits(s, r) /\ CountIsTrue(s, r)
      /\ id \in Id /\ r.at = "commit" /\ r.id = id
  BY <1>1, <1>2, RequestTyped DEF RequestKnows, RequestFits
<1>4. /\ row \in Row /\ row.company = CompanyOf[s]
      /\ Kinds(row.refs) = RefersTo(KindOf[id])
      /\ \A ref \in row.refs : Visible(s, ref)
      /\ r.create => row.refs = r.refs
      /\ ~r.create => /\ row.status = Or(r.status, rows[id].status)
                      /\ KindOf[id] = "contract" => row.refs = rows[id].refs
                      /\ row.company = rows[id].company
  BY <1>1, <1>2, <1>3, CommittedRow
<1>5. Commits(s, id, row)
  <2>1. rows[id] = None <=> r.create
    BY <1>3 DEF RequestFits
  <2>2. row # None
    BY <1>4, ConstantsHold
  <2>3. KindOf[id] = "contract" => UnitOf(row.refs) = UnitAsked(r)
    BY <1>3, <1>4 DEF UnitAsked
  <2> QED BY <1>1, <1>2, <1>3, <1>4, <2>1, <2>2, <2>3 DEF Commits
<1>6. /\ rows'[id] = row /\ \A i \in Id \ {id} : rows'[i] = rows[i]
      /\ There' = There \cup {id} /\ rows' \in Rows
      /\ \A t, i : Visible(t, i) => Visible(t, i)'
      /\ \A i \in Id : was[i] \subseteq was'[i]
  BY <1>5, RowCommitted
<1>7. row # None /\ (rows[id] = None <=> r.create)
  BY <1>1, <1>5 DEF Commits
<1>8. ASSUME NEW t \in Staff
      PROVE  /\ req'[t] \in Request /\ (req'[t].at = "idle" <=> req'[t] = Idle)
             /\ req'[t].create => req[t].create /\ req'[t].id = req[t].id
             /\ (req'[t].paged <=> req[t].paged)
             /\ RequestKnows(t, req[t])'
  <2>0. req[t] \in Request /\ (req[t].at = "idle" <=> req[t] = Idle)
    BY RequestTyped
  <2>1. CASE t = s /\ ~r.paged
    <3>1. req'[t] = Idle
      BY <1>2, <2>1
    <3> QED BY <1>1, <2>1, <3>1, IdleRequest DEF RequestKnows
  <2>2. CASE t = s /\ r.paged
    <3>1. PICK q : q = [r EXCEPT !.at = "ok"]
      OBVIOUS
    <3>2. q \in Request /\ q.at = "ok" /\ Like(q, r) /\ req'[t] = q
      BY <1>2, <1>3, <2>2, <3>1, AtStep
    <3>3. ~r.create /\ r.count = 0 /\ ~r.warn
      BY <1>3, <2>2, ConstantsHold DEF RequestFits, CountIsTrue, Request
    <3>4. RequestFits(s, q)'
      BY <1>3, <1>6, <1>7, <3>2, <3>3 DEF RequestFits, Like
    <3>5. PageWaits(s, q)'
      <4>1. row.status = r.status
        BY <1>3, <1>4, <2>2, <3>3 DEF PageWaits, Or
      <4>2. row.status \in was'[id]
        BY <1>2, <1>3 DEF LettingsInv, TypeOK
      <4> QED BY <1>2, <1>3, <1>6, <2>2, <3>2, <4>1, <4>2 DEF PageWaits, Like
    <3>6. CountIsTrue(s, q)' /\ LooksAhead(q)'
      <4>1. Cardinality(Having(KindOf[q.id], CompanyOf[s])') \in Nat
        BY <1>5, HavingGrows
      <4> QED BY <3>2, <3>3, <4>1 DEF CountIsTrue, LooksAhead, Like
    <3>7. q # Idle
      BY <3>2, IdleRequest
    <3> QED BY <1>1, <2>2, <3>2, <3>3, <3>4, <3>5, <3>6, <3>7 DEF RequestKnows, Like
  <2>3. CASE t # s
    <3>1. PICK q : q = IF SameUnit(s, t) THEN [req[t] EXCEPT !.crossed = TRUE] ELSE req[t]
      OBVIOUS
    <3>2. req'[t] = q
      BY <1>2, <2>3, <3>1
    <3>3. /\ q \in Request /\ q.at = req[t].at /\ q.create = req[t].create /\ q.id = req[t].id
          /\ q.paged = req[t].paged
          /\ Like(q, [req[t] EXCEPT !.crossed = q.crossed])
          /\ IF SameUnit(s, t) THEN q.crossed ELSE q.crossed = req[t].crossed
      BY <2>0, <3>1 DEF Request, Like
    <3>4. RequestKnows(t, q)'
      BY <1>2, <1>5, <2>3, <3>3, OthersKnow
    <3>5. q.at = "idle" <=> q = Idle
      BY <2>0, <3>1, <3>3, IdleRequest DEF SameUnit
    <3> QED BY <3>2, <3>3, <3>4, <3>5
  <2> QED BY <2>1, <2>2, <2>3
<1>9. TypeOK'
  <2>1. \A i \in Id : rows'[i] # None => Kinds(rows'[i].refs) = RefersTo(KindOf[i])
    BY <1>4, <1>6 DEF LettingsInv, TypeOK
  <2>2. \A v \in Viewer : page'[v].id # None => rows'[page'[v].id] # None
    BY <1>2, <1>6, <1>7 DEF LettingsInv, TypeOK
  <2>3. CompanyOf[s] \in Company /\ KindOf[id] \in Kind /\ r.count \in Nat
    BY <1>3, ConstantsHold DEF Request
  <2>4. warnings' \subseteq [company : Company, kind : Kind, count : Nat]
        /\ recent' \subseteq Company \X Kind
    BY <1>2, <2>3 DEF LettingsInv, TypeOK
  <2>5. was' \in [Id -> SUBSET Status]
    BY <1>2, <1>4 DEF LettingsInv, TypeOK, Row
  <2>6. req' \in [Staff -> Request]
    BY <1>2, <1>8
  <2> QED BY <1>2, <1>6, <1>8, <2>1, <2>2, <2>4, <2>5, <2>6
          DEF LettingsInv, TypeOK, Request
<1>10. (\A i \in There : rows[i].status \in was[i])'
  BY <1>2, <1>3, <1>6 DEF LettingsInv, TypeOK, There
<1>11. (\A t, u \in Staff : t # u /\ req[t].create /\ req[u].create => req[t].id # req[u].id)'
  BY <1>8 DEF LettingsInv
<1>12. OverlapOnlyByRace'
  <2> SUFFICES ASSUME NEW id1 \in There', NEW id2 \in There', Clash(rows, id1, id2)'
               PROVE  UnitOf(rows'[id1].refs) \in raced'
    BY DEF OverlapOnlyByRace
  <2>1. raced \subseteq raced' /\ (r.crossed => UnitOf(row.refs) \in raced')
    BY <1>2
  <2>2. CASE id1 # id /\ id2 # id
    <3>1. id1 \in There /\ id2 \in There /\ rows'[id1] = rows[id1] /\ rows'[id2] = rows[id2]
      BY <1>6, <2>2 DEF There
    <3>2. Clash(rows, id1, id2)
      BY <3>1 DEF Clash
    <3> QED BY <2>1, <3>1, <3>2 DEF LettingsInv, RowsAgree, OverlapOnlyByRace
  <2>3. ASSUME NEW other \in There \ {id}, Clash(rows, id, other)' \/ Clash(rows, other, id)'
        PROVE  UnitOf(row.refs) \in raced' /\ UnitOf(rows[other].refs) \in raced'
    <3>1. rows'[other] = rows[other] /\ rows'[id] = row
      BY <1>6, <2>3 DEF There
    <3>2. /\ KindOf[id] = "contract" /\ KindOf[other] = "contract"
          /\ Live(row.status) /\ Live(rows[other].status)
          /\ UnitOf(row.refs) = UnitOf(rows[other].refs)
          /\ Overlap(rows[other].start, rows[other].end, row.start, row.end)
      BY <2>3, <3>1 DEF Clash, Overlap
    <3>3. r.crossed \/ UnitOf(row.refs) \in raced
      BY <1>1, <1>2, <1>5, <3>2, ClashIsRaced
    <3> QED BY <2>1, <3>2, <3>3
  <2>4. CASE id1 = id
    BY <1>6, <2>3, <2>4 DEF Clash
  <2>5. CASE id2 = id
    <3>1. id1 \in There \ {id}
      BY <1>6, <2>5 DEF Clash
    <3> QED BY <1>6, <2>3, <2>5, <3>1 DEF There
  <2> QED BY <2>2, <2>4, <2>5
<1>13. RefsStayHome'
  <2> SUFFICES ASSUME NEW i \in There' PROVE Refers(rows, i)'
    BY DEF RefsStayHome
  <2>1. \A j \in There : rows'[j] # None /\ rows'[j].company = rows[j].company
    BY <1>1, <1>4, <1>6, <1>7 DEF There
  <2>2. CASE i = id
    BY <1>4, <1>6, <2>1, <2>2 DEF Refers, Visible, Kinds
  <2>3. CASE i # id
    <3>1. i \in There /\ rows'[i] = rows[i] /\ Refers(rows, i) /\ rows[i] \in Row
      BY <1>6, <2>3 DEF LettingsInv, RowsAgree, RefsStayHome, There,
                        TypeOK, Rows
    <3> QED BY <2>1, <3>1 DEF Refers, There, Row
  <2> QED BY <2>2, <2>3
<1>14. WarningIsTrue'
  <2> SUFFICES ASSUME NEW w \in warnings'
               PROVE  w.count > Limit /\ w.count <= Cardinality(Having(w.kind, w.company)')
    BY DEF WarningIsTrue, Having
  <2>1. PICK m \in Nat, n \in Nat : /\ m = Cardinality(Having(w.kind, w.company))
                                    /\ n = Cardinality(Having(w.kind, w.company)') /\ m <= n
                                    /\ rows[id] = None /\ KindOf[id] = w.kind /\ row.company = w.company => n = m + 1
    BY <1>5, HavingGrows
  <2>2. CASE w \in warnings
    <3>1. w.count > Limit /\ w.count <= m /\ w.count \in Nat
      BY <2>1, <2>2 DEF LettingsInv, WarningIsTrue, Having, TypeOK
    <3> QED BY <2>1, <3>1
  <2>3. CASE w \notin warnings
    <3>1. r.warn /\ w = [company |-> CompanyOf[s], kind |-> KindOf[id], count |-> r.count]
      BY <1>2, <2>3
    <3>2. w.company = CompanyOf[s] /\ w.kind = KindOf[id] /\ w.count = r.count
      BY <3>1
    <3>3. r.count > Limit /\ r.count <= m + 1 /\ r.count \in Nat
      BY <1>3, <2>1, <3>1, <3>2 DEF CountIsTrue, Request
    <3>4. r.create
      BY <1>3, <3>3, ConstantsHold DEF CountIsTrue
    <3>5. n = m + 1
      BY <1>4, <1>7, <2>1, <3>2, <3>4
    <3> QED BY <2>1, <3>2, <3>3, <3>5
  <2> QED BY <2>2, <2>3
<1>15. ShownWasTrue'
  <2> SUFFICES ASSUME NEW v \in Viewer, page[v].id # None, ~req'[v].paged
               PROVE  page[v].shown \in was'[page[v].id] \cup unkept[v]
    BY <1>2 DEF ShownWasTrue
  <2>1. v \in Staff /\ page[v].id \in Id
    BY ConstantsHold DEF LettingsInv, TypeOK
  <2>2. page[v].shown \in was[page[v].id] \cup unkept[v]
    BY <1>8, <2>1 DEF LettingsInv, ShownWasTrue
  <2> QED BY <1>6, <2>1, <2>2
<1> QED BY <1>8, <1>9, <1>10, <1>11, <1>12, <1>13, <1>14, <1>15 DEF LettingsInv, RowsAgree

LEMMA LettingsInit == ASSUME OccupancyConstants, Init PROVE LettingsInv
<1>1. /\ rows \in Rows /\ \A s \in Staff : req[s] = Idle
      /\ warnings = {} /\ \A v \in Viewer : page[v].id = None
  BY DEF Init, NoPage, OccupancyConstants
<1>2. TypeOK
  <2>1. req \in [Staff -> Request]
    BY IdleRequest DEF Init
  <2>2. page \in Pages
    BY DEF Init, NoPage, Pages
  <2>3. was \in [Id -> SUBSET Status]
    BY DEF Init, OccupancyConstants, Rows, Row
  <2>4. \A id \in Id : rows[id] # None => Kinds(rows[id].refs) = RefersTo(KindOf[id])
    BY DEF Init, OccupancyConstants, Refers
  <2>5. \E kind \in Kind : sent \in 0 .. MaxOf[kind]
    <3>1. "unit" \in Kind /\ MaxOf["unit"] \in Nat
      BY DEF OccupancyConstants, Kind
    <3> QED BY <3>1 DEF Init
  <2> QED BY <1>1, <2>1, <2>2, <2>3, <2>4, <2>5, IdleRequest DEF Init, TypeOK, Pages
<1>3. OverlapOnlyByRace
  BY DEF Init, OccupancyConstants, OverlapOnlyByRace, There
<1>4. RefsStayHome
  BY DEF Init, OccupancyConstants, RefsStayHome, There
<1>5. \A s \in Staff : RequestKnows(s, req[s])
  BY <1>1, IdleRequest DEF RequestKnows
<1>6. \A id \in There : rows[id].status \in was[id]
  BY DEF Init, There
<1> QED BY <1>1, <1>2, <1>3, <1>4, <1>5, <1>6, IdleRequest, ConstantsHold
        DEF LettingsInv, RowsAgree, WarningIsTrue, ShownWasTrue

LEMMA LettingsStep ==
    ASSUME LettingsInv, OccupancyConstants, [Next]_(vars)
    PROVE  LettingsInv'
<1>1. CASE UNCHANGED vars
  BY <1>1, LettingsRests DEF vars
<1>2. CASE Tomorrow
  BY <1>2, LettingsRests DEF Tomorrow
<1>3. ASSUME NEW s \in Staff, Send(s) PROVE LettingsInv'
  BY <1>3, LettingsNew, LettingsEdit DEF Send
<1>4. ASSUME NEW s \in Staff, Serve(s) PROVE LettingsInv'
  BY <1>4, LettingsFind, LettingsCheck, LettingsWrite, LettingsCommit, LettingsAborted, LettingsAnswer DEF Serve
<1>5. ASSUME NEW s \in Staff, Warn(s) \/ Rollback(s) PROVE LettingsInv'
  BY <1>5, LettingsWarn, LettingsRollback
<1>6. ASSUME NEW s \in Viewer,
             \/ \E id \in Of("contract") \cup Of("tenant") : Open(s, id)
             \/ \E status \in StatusOf["contract"] \cup StatusOf["tenant"] : Click(s, status)
      PROVE  LettingsInv'
  <2>1. \A id \in Of("contract") \cup Of("tenant") : id \in Id
    BY DEF Of
  <2> QED BY <1>6, <2>1, LettingsOpen, LettingsClick
<1> QED BY <1>1, <1>2, <1>3, <1>4, <1>5, <1>6 DEF Next

LEMMA LettingsAlways == ASSUME OccupancyConstants PROVE Spec => []LettingsInv
<1>1. Init => LettingsInv
  BY LettingsInit
<1>2. LettingsInv /\ [Next]_(vars) => LettingsInv'
  BY LettingsStep
<1> QED BY <1>1, <1>2, PTL DEF Spec

(* Rows, requests, open pages and warnings stay of their types.            *)
THEOREM LettingsTypeCorrect == Spec => []TypeOK
<1>1. LettingsInv => TypeOK
  BY DEF LettingsInv
<1> QED BY <1>1, OccupancyAssumption, LettingsAlways, PTL

(* Whoever writes beside them, the rows agree: two live contracts overlap   *)
(* in a unit only if transactions about it crossed, and nothing refers to  *)
(* a row of another company.                                               *)
THEOREM RowsKeepAgreeing == Spec => []RowsAgree
<1>1. LettingsInv => RowsAgree
  BY DEF LettingsInv
<1> QED BY <1>1, OccupancyAssumption, LettingsAlways, PTL

(* However many creates count at once, and whichever are rolled back, a    *)
(* plan-limit warning in the audit log tells of rows that are there.       *)
THEOREM WarningsTellTrue == Spec => []WarningIsTrue
<1>1. LettingsInv => WarningIsTrue
  BY DEF LettingsInv
<1> QED BY <1>1, OccupancyAssumption, LettingsAlways, PTL

(* A detail page that waits for nothing shows a status its row has had,    *)
(* whatever became of what it asked for; or one it asked for itself and    *)
(* was told is done by an answer whose transaction kept nothing.           *)
THEOREM DetailPagesTellTrue == Spec => []ShownWasTrue
<1>1. LettingsInv => ShownWasTrue
  BY DEF LettingsInv
<1> QED BY <1>1, OccupancyAssumption, LettingsAlways, PTL

-----------------------------------------------------------------------------
(* A set of naturals that is not empty has a least member.                *)
Smaller == {ss \in Nat \X Nat : ss[1] < ss[2]}

LEMMA SmallerIsWellFounded == IsWellFoundedOn(Smaller, Nat)
<1>1. Smaller = OpToRel(<, Nat)
  BY Zenon DEF OpToRel, Smaller
<1> QED BY <1>1, NatLessThanWellFounded, Zenon

LEMMA NatMin ==
    ASSUME NEW S \in SUBSET Nat, S # {}
    PROVE  \E x \in S : \A y \in S : x <= y
<1>2. PICK x \in S : \A y \in S : ~(<<y, x>> \in Smaller)
  BY SmallerIsWellFounded, WFMin
<1>3. ASSUME NEW y \in S PROVE x <= y
  <2>1. ~(y < x)
    BY <1>2 DEF Smaller
  <2> QED BY <2>1
<1> QED BY <1>3

-----------------------------------------------------------------------------
(***************************************************************************)
(* Meters and readings.                                                    *)
(***************************************************************************)
Before(m, p) == resolveValuePrevious(m, p)

AddsUp(r) == r.used = r.current - r.previous /\ r.previous <= r.current

(* A reading is one of those there have been, and follows the one before.   *)
ReadingKnows(m, p) ==
    /\ \A r \in had[<<m, p>>] : AddsUp(r)
    /\ reading[<<m, p>>] # Unset =>
          /\ rate[m] # Unset /\ reading[<<m, p>>] \in had[<<m, p>>]
          /\ m \notin disturbed => reading[<<m, p>>].previous = Before(m, p)

Saved(m, p, v) == reading[<<m, p>>] # Unset /\ \E r \in had[<<m, p>>] : r.current = v

(* What a client that saves a reading has looked up.                        *)
SavingKnows(r) ==
    r.at # "idle" =>
        /\ r.meter \in Meter /\ r.period \in Period /\ r.value \in Value /\ r.kind \in {"post", "patch"}
        /\ r.at = "write" => r.previous <= r.value /\ rate[r.meter] # Unset
        /\ r.at = "write" /\ r.kind = "patch" =>
              reading[<<r.meter, r.period>>] # Unset /\ r.previous = reading[<<r.meter, r.period>>].previous
        /\ r.at = "write" /\ r.kind = "post" /\ ~r.crossed /\ r.meter \notin disturbed =>
              r.previous = Before(r.meter, r.period)
        /\ r.at = "saved" => Saved(r.meter, r.period, r.value)

RowKnows(m) ==
    LET row == grid.rows[m]
    IN  row.status = "saved" /\ row.holds = "kept" => row.saved # Unset /\ Saved(m, row.saved, row.shown)

Complete(i) ==
    /\ \A m \in i.meters : \E line \in i.lines : {its \in i.lines : its.meter = m} = {line}
    /\ \A line \in i.lines : \E r \in had[<<line.meter, i.period>>] : line.quantity = r.used

(* What a batch has read, and made of it.                                   *)
BatchKnows(r) ==
    /\ r.todo \cap r.skipped = {}
    /\ r.at \in {"start", "meters", "each"} => r.period \in Period
    /\ r.at \in {"idle", "start", "meters"} => r.made = {}
    /\ r.made # {} \/ r.used # {} => r.period \in Period
    /\ \A x, y \in r.meters : x[1] = y[1] => x = y
    /\ \A x, y \in r.used : x[1] = y[1] => x = y
    /\ \A x \in r.used : \E row \in had[<<x[1], r.period>>] : x[2] = row.used
    /\ \A i \in r.made : Complete(i) /\ i.period = r.period /\ i.contract \notin r.todo \cup r.skipped
    /\ \A i, j \in r.made : i.contract = j.contract => i = j

MadeBy(b) == IF batch[b].at = "each" /\ ~batch[b].aborted THEN batch[b].made ELSE {}

Slot(i) == <<i.contract, i.period>>

MetersTyped ==
    /\ rate \in [Meter -> Price \cup {Unset}]
    /\ reading \in [Meter \X Period -> ReadingRow \cup {Unset}]
    /\ had \in [Meter \X Period -> SUBSET ReadingRow] /\ disturbed \subseteq Meter

ReadingsPart == MetersTyped /\ \A m \in Meter, p \in Period : ReadingKnows(m, p)

SavingsPart == saving \in [Client -> Saving] /\ \A c \in Client : SavingKnows(saving[c])

GridPart ==
    /\ grid \in [period : Period \cup {Unset}, rows : [Meter -> GridRow]]
    /\ \A m \in Meter : RowKnows(m)

BatchesPart ==
    /\ active \subseteq Contract /\ invoices \subseteq InvoiceRow
    /\ batch \in [Batcher -> Generating]
    /\ \A b \in Batcher : BatchKnows(batch[b])
    /\ \A i \in invoices : Complete(i)

(* A slot of the partial unique index is of one invoice, or one batch.      *)
SlotsPart ==
    /\ \A i, j \in invoices : Slot(i) = Slot(j) => i = j
    /\ \A b \in Batcher : \A i \in MadeBy(b), j \in invoices : Slot(i) # Slot(j)
    /\ \A b, c \in Batcher : b # c => \A i \in MadeBy(b), j \in MadeBy(c) : Slot(i) # Slot(j)

MetersInv == ReadingsPart /\ SavingsPart /\ GridPart /\ BatchesPart /\ SlotsPart /\ inputs \in 0 .. MaxInputs

(* A bounded set of numbers has a greatest.                                *)
LEMMA NatMax ==
    ASSUME NEW S \in SUBSET Nat, S # {}, NEW b \in Nat, \A x \in S : x < b
    PROVE  \E x \in S : \A y \in S : x >= y
<1> DEFINE Bounds == {n \in Nat : \A x \in S : x <= n}
<1>1. Bounds \in SUBSET Nat /\ Bounds # {}
  BY SMT
<1>2. PICK n \in Bounds : \A y \in Bounds : n <= y
  <2> HIDE DEF Bounds
  <2> QED BY <1>1, NatMin
<1>3. n \in S
  <2> SUFFICES ASSUME n \notin S PROVE FALSE
    OBVIOUS
  <2>1. \A x \in S : x < n
    BY <1>2
  <2>2. PICK x \in S : x < n
    BY <2>1
  <2>3. n - 1 \in Nat /\ \A y \in S : y <= n - 1
    BY <1>2, <2>1, <2>2
  <2> QED BY <1>2, <2>3
<1> QED BY <1>2, <1>3

(* The reading before a month depends on the earlier months alone.          *)
LEMMA BeforeIsEarlier ==
    ASSUME MeteringConstants, MetersTyped, NEW m \in Meter, NEW p \in Period,
           \A q \in Period : q < p => reading'[<<m, q>>] = reading[<<m, q>>]
    PROVE  Before(m, p)' = Before(m, p)
<1>1. Earlier(m, p)' = Earlier(m, p)
  BY DEF Earlier
<1>2. CASE Earlier(m, p) = {}
  BY <1>1, <1>2 DEF Before, resolveValuePrevious
<1>3. CASE Earlier(m, p) # {}
  <2>1. \E q \in Earlier(m, p) : \A r \in Earlier(m, p) : q >= r
    <3>1. /\ Earlier(m, p) \in SUBSET Nat /\ p \in Nat
          /\ \A q \in Earlier(m, p) : q < p
      BY DEF Earlier, MeteringConstants
    <3> QED BY <1>3, <3>1, NatMax
  <2>2. PICK l \in Earlier(m, p) : l = CHOOSE q \in Earlier(m, p) : \A r \in Earlier(m, p) : q >= r
    BY <2>1
  <2>3. Before(m, p) = reading[<<m, l>>].current /\ Before(m, p)' = reading'[<<m, l>>].current
    BY <1>1, <1>3, <2>2 DEF Before, resolveValuePrevious
  <2>4. l \in Period /\ l < p
    BY DEF Earlier
  <2> QED BY <2>3, <2>4
<1> QED BY <1>2, <1>3

LEMMA BeforeIsValue ==
    ASSUME MeteringConstants, MetersTyped, NEW m \in Meter, NEW p \in Period
    PROVE  Before(m, p) \in Value \cup {0}
<1>1. CASE Earlier(m, p) = {}
  BY <1>1 DEF Before, resolveValuePrevious
<1>2. CASE Earlier(m, p) # {}
  <2>1. \E q \in Earlier(m, p) : \A r \in Earlier(m, p) : q >= r
    <3>1. /\ Earlier(m, p) \in SUBSET Nat /\ p \in Nat
          /\ \A q \in Earlier(m, p) : q < p
      BY DEF Earlier, MeteringConstants
    <3> QED BY <1>2, <3>1, NatMax
  <2>2. PICK l \in Earlier(m, p) : l = CHOOSE q \in Earlier(m, p) : \A r \in Earlier(m, p) : q >= r
    BY <2>1
  <2>3. Before(m, p) = reading[<<m, l>>].current
    BY <1>2, <2>2 DEF Before, resolveValuePrevious
  <2>4. <<m, l>> \in Meter \X Period /\ reading[<<m, l>>] # Unset
    BY DEF Earlier
  <2>5. reading[<<m, l>>] \in ReadingRow
    BY <2>4 DEF MetersTyped
  <2> QED BY <2>3, <2>5 DEF ReadingRow
<1> QED BY <1>1, <1>2

-----------------------------------------------------------------------------
LEMMA MetersInit == ASSUME MeteringConstants, MeterInit PROVE MetersInv
<1> USE DEF MeterInit, MeteringConstants
<1>1. ReadingsPart
  BY DEF MetersTyped, Price, ReadingsPart, ReadingKnows
<1>2. \A b \in Batcher : batch[b] = NoBatch
  OBVIOUS
<1>3. BatchKnows(NoBatch)
  BY DEF BatchKnows, NoBatch
<1>4. BatchesPart
  BY <1>2, <1>3 DEF BatchesPart, NoBatch, Generating
<1>5. SavingsPart
  BY DEF NoReq, Saving, SavingKnows, SavingsPart
<1>6. GridPart
  BY DEF GridRow, EmptyRow, RowKnows, GridPart
<1>7. \A b \in Batcher : MadeBy(b) = {}
  BY <1>2 DEF MadeBy, NoBatch
<1>8. SlotsPart
  BY <1>7 DEF SlotsPart
<1> QED BY <1>1, <1>4, <1>5, <1>6, <1>8 DEF MetersInv

LEMMA MetersTypes == ASSUME MetersInv PROVE MeterTypeOK
<1>1. \A mp \in Meter \X Period : reading[mp] # Unset => rate[mp[1]] # Unset
  <2> SUFFICES ASSUME NEW m \in Meter, NEW p \in Period, reading[<<m, p>>] # Unset PROVE rate[m] # Unset
    OBVIOUS
  <2> QED BY DEF MetersInv, ReadingsPart, ReadingKnows
<1>2. \A b \in Batcher : \A i \in batch[b].made : i.contract \notin batch[b].todo \cup batch[b].skipped
  BY DEF MetersInv, BatchesPart, BatchKnows
<1>3. \A c \in Client : saving[c].at # "idle" => saving[c].meter \in Meter /\ saving[c].period \in Period
  BY DEF MetersInv, SavingsPart, SavingKnows
<1>4. \A i, j \in invoices : i.contract = j.contract /\ i.period = j.period => i = j
  BY DEF MetersInv, SlotsPart, Slot
<1> QED BY <1>1, <1>2, <1>3, <1>4 DEF MetersInv, MetersTyped, ReadingsPart, SavingsPart, GridPart, BatchesPart, MeterTypeOK

LEMMA InvoicesComplete == ASSUME MetersInv PROVE InvoiceIsComplete
<1> SUFFICES ASSUME NEW i \in invoices
             PROVE  /\ \A m \in i.meters : Cardinality({line \in i.lines : line.meter = m}) = 1
                    /\ \A line \in i.lines : line.quantity \in {r.current - r.previous : r \in had[<<line.meter, i.period>>]}
  BY DEF InvoiceIsComplete
<1>1. Complete(i)
  BY DEF MetersInv, BatchesPart
<1>2. ASSUME NEW m \in i.meters PROVE Cardinality({line \in i.lines : line.meter = m}) = 1
  BY <1>1, FS_Singleton DEF Complete
<1>3. ASSUME NEW line \in i.lines
      PROVE  line.quantity \in {r.current - r.previous : r \in had[<<line.meter, i.period>>]}
  <2>1. line.meter \in Meter /\ i.period \in Period
    BY DEF MetersInv, BatchesPart, InvoiceRow, Line
  <2>2. PICK r \in had[<<line.meter, i.period>>] : line.quantity = r.used
    BY <1>1 DEF Complete
  <2>3. AddsUp(r)
    BY <2>1, <2>2 DEF MetersInv, ReadingsPart, ReadingKnows
  <2> QED BY <2>2, <2>3 DEF AddsUp
<1> QED BY <1>2, <1>3

LEMMA ReadingsAdding == ASSUME MetersInv PROVE ReadingsAddUp
<1>1. ConsumptionAddsUp
  <2> SUFFICES ASSUME NEW m \in Meter, NEW p \in Period, reading[<<m, p>>] # Unset
               PROVE  reading[<<m, p>>].used = reading[<<m, p>>].current - reading[<<m, p>>].previous
                      /\ reading[<<m, p>>].previous <= reading[<<m, p>>].current
    BY DEF ConsumptionAddsUp
  <2> QED BY DEF MetersInv, ReadingsPart, ReadingKnows, AddsUp
<1>2. ContinuousUnlessDisturbed
  BY DEF MetersInv, ReadingsPart, ReadingKnows, Before, resolveValuePrevious, ContinuousUnlessDisturbed
<1> QED BY <1>1, <1>2 DEF ReadingsAddUp

LEMMA SavedRecorded == ASSUME MetersInv PROVE SavedWasRecorded
BY DEF MetersInv, GridPart, RowKnows, Saved, SavedWasRecorded

-----------------------------------------------------------------------------
(* What stays when its variables do.                                       *)
LEMMA ReadingsStay ==
    ASSUME ReadingsPart, UNCHANGED <<rate, reading, had, disturbed>>
    PROVE  ReadingsPart'
<1>1. \A m \in Meter, p \in Period : Before(m, p)' = Before(m, p)
  BY DEF Before, resolveValuePrevious, Earlier
<1> QED BY <1>1 DEF ReadingsPart, MetersTyped, ReadingKnows

LEMMA SavingStays ==
    ASSUME UNCHANGED <<rate, reading, had, disturbed>>, NEW r, SavingKnows(r)
    PROVE  SavingKnows(r)'
<1>1. Before(r.meter, r.period)' = Before(r.meter, r.period)
  BY DEF Before, resolveValuePrevious, Earlier
<1> QED BY <1>1 DEF SavingKnows, Saved

LEMMA SavingsStep ==
    ASSUME SavingsPart, UNCHANGED <<rate, reading, had, disturbed>>, NEW c \in Client, NEW r \in Saving,
           saving' = [saving EXCEPT ![c] = r], SavingKnows(r)
    PROVE  SavingsPart'
<1>1. saving' \in [Client -> Saving] /\ \A d \in Client : SavingKnows(saving'[d])
  BY DEF SavingsPart
<1>2. \A d \in Client : SavingKnows(saving[d])'
  <2> SUFFICES ASSUME NEW d \in Client PROVE SavingKnows(saving[d])'
    OBVIOUS
  <2>1. PICK x : x = saving'[d]
    OBVIOUS
  <2>2. SavingKnows(x)'
    BY <1>1, <2>1, SavingStays
  <2> QED BY <2>1, <2>2
<1> QED BY <1>1, <1>2 DEF SavingsPart

LEMMA SavingsStay ==
    ASSUME SavingsPart, UNCHANGED <<rate, reading, had, disturbed, saving>>
    PROVE  SavingsPart'
BY SavingStays DEF SavingsPart

LEMMA SavedStays ==
    ASSUME NEW m, NEW p, NEW v, Saved(m, p, v),
           reading[<<m, p>>] # Unset => reading'[<<m, p>>] # Unset, had[<<m, p>>] \subseteq had'[<<m, p>>]
    PROVE  Saved(m, p, v)'
BY DEF Saved

LEMMA GridStays ==
    ASSUME GridPart, UNCHANGED grid,
           \A m \in Meter, p \in Period : /\ reading[<<m, p>>] # Unset => reading'[<<m, p>>] # Unset
                                          /\ had[<<m, p>>] \subseteq had'[<<m, p>>]
    PROVE  GridPart'
<1> SUFFICES ASSUME NEW m \in Meter PROVE RowKnows(m)'
  BY DEF GridPart
<1>1. RowKnows(m) /\ grid.rows[m].saved \in Period \cup {Unset}
  BY DEF GridPart, GridRow
<1>2. CASE ~(grid.rows[m].status = "saved" /\ grid.rows[m].holds = "kept")
  BY <1>2 DEF RowKnows
<1>3. CASE grid.rows[m].status = "saved" /\ grid.rows[m].holds = "kept"
  BY <1>1, <1>3, SavedStays DEF RowKnows
<1> QED BY <1>2, <1>3

LEMMA CompleteStays ==
    ASSUME NEW i \in InvoiceRow, Complete(i),
           \A m \in Meter, p \in Period : had[<<m, p>>] \subseteq had'[<<m, p>>]
    PROVE  Complete(i)'
BY DEF Complete, InvoiceRow, Line

LEMMA BatchStays ==
    ASSUME NEW r \in Generating, BatchKnows(r),
           \A m \in Meter, p \in Period : had[<<m, p>>] \subseteq had'[<<m, p>>]
    PROVE  BatchKnows(r)'
<1>1. \A i \in r.made : Complete(i)'
  BY CompleteStays DEF BatchKnows, Generating
<1>2. \A x \in r.used : \E row \in had'[<<x[1], r.period>>] : x[2] = row.used
  <2> SUFFICES ASSUME NEW x \in r.used PROVE \E row \in had'[<<x[1], r.period>>] : x[2] = row.used
    OBVIOUS
  <2>1. x[1] \in Meter /\ r.period \in Period
    BY DEF BatchKnows, Generating
  <2> QED BY <2>1 DEF BatchKnows
<1> QED BY <1>1, <1>2 DEF BatchKnows

LEMMA BatchesStay ==
    ASSUME BatchesPart, UNCHANGED <<invoices, batch>>, active' \subseteq Contract,
           \A m \in Meter, p \in Period : had[<<m, p>>] \subseteq had'[<<m, p>>]
    PROVE  BatchesPart'
<1>1. \A b \in Batcher : BatchKnows(batch[b])'
  BY BatchStays DEF BatchesPart
<1>2. \A i \in invoices : Complete(i)'
  BY CompleteStays DEF BatchesPart
<1> QED BY <1>1, <1>2 DEF BatchesPart

LEMMA SlotsStay == ASSUME SlotsPart, UNCHANGED <<invoices, batch>> PROVE SlotsPart'
BY DEF SlotsPart, MadeBy

LEMMA InputsStay ==
    ASSUME MeteringConstants, inputs \in 0 .. MaxInputs, Input \/ inputs' = inputs
    PROVE  inputs' \in 0 .. MaxInputs
BY DEF Input, MeteringConstants

(* A client moves on, and perhaps its grid: what is stored stays.           *)
LEMMA ClientStep ==
    ASSUME MeteringConstants, MetersInv, UNCHANGED <<rate, reading, active, invoices, batch, had, disturbed>>,
           NEW c \in Client, NEW r \in Saving, saving' = [saving EXCEPT ![c] = r], SavingKnows(r),
           GridPart' \/ grid' = grid, Input \/ inputs' = inputs
    PROVE  MetersInv'
<1>1. ReadingsPart' /\ SavingsPart'
  BY ReadingsStay, SavingsStep DEF MetersInv
<1>2. GridPart'
  BY GridStays DEF MetersInv
<1>3. BatchesPart'
  BY BatchesStay DEF MetersInv, BatchesPart
<1>4. SlotsPart' /\ inputs' \in 0 .. MaxInputs
  BY SlotsStay, InputsStay DEF MetersInv
<1> QED BY <1>1, <1>2, <1>3, <1>4 DEF MetersInv

-----------------------------------------------------------------------------
(* The actions.                                                            *)
LEMMA MetersSend ==
    ASSUME MeteringConstants, MetersInv, NEW c \in Client, NEW kind \in {"post", "patch"}, NEW m \in Meter,
           NEW p \in Period, NEW v \in Value, NEW screen \in Period \cup {Unset}, SendReading(c, kind, m, p, v, screen),
           GridPart' \/ grid' = grid
    PROVE  MetersInv'
<1>1. PICK r : r = [NoReq EXCEPT !.at = "read", !.kind = kind, !.meter = m, !.period = p,
                                        !.value = v, !.screen = screen]
  OBVIOUS
<1>2. r \in Saving /\ r.at = "read" /\ r.kind = kind /\ r.meter = m /\ r.period = p /\ r.value = v
  BY <1>1 DEF NoReq, Saving
<1>3. SavingKnows(r)
  BY <1>2 DEF SavingKnows
<1> QED BY <1>1, <1>2, <1>3, ClientStep DEF SendReading

LEMMA MetersPost ==
    ASSUME MeteringConstants, MetersInv, NEW c \in Client, NEW m \in Meter, NEW p \in Period, NEW v \in Value,
           Post(c, m, p, v) \/ Patch(c, m, p, v)
    PROVE  MetersInv'
BY MetersSend DEF Post, Patch

LEMMA SavingOf ==
    ASSUME MetersInv, NEW c \in Client, saving[c].at # "idle"
    PROVE  /\ saving[c] \in Saving /\ SavingKnows(saving[c]) /\ saving[c].meter \in Meter /\ saving[c].period \in Period
           /\ saving[c].value \in Value /\ saving[c].kind \in {"post", "patch"}
BY DEF MetersInv, SavingsPart, SavingKnows

LEMMA MetersAnswer ==
    ASSUME MeteringConstants, MetersInv, NEW c \in Client, saving[c].at # "idle",
           NEW at \in {"unkept", "refused"}, Answers(c, at),
           UNCHANGED <<rate, reading, active, invoices, grid, batch, inputs, had, disturbed>>
    PROVE  MetersInv'
<1>1. PICK r : r = [saving[c] EXCEPT !.at = at]
  OBVIOUS
<1>2. r \in Saving /\ r.at = at /\ r.kind = saving[c].kind /\ r.meter = saving[c].meter
      /\ r.period = saving[c].period /\ r.value = saving[c].value
  BY <1>1, SavingOf DEF Saving
<1>3. SavingKnows(r)
  BY <1>2, SavingOf DEF SavingKnows
<1> QED BY <1>1, <1>2, <1>3, ClientStep DEF Answers

(* The request has looked, and goes on to write.                           *)
LEMMA MetersLooked ==
    ASSUME MeteringConstants, MetersInv, NEW c \in Client, saving[c].at = "read", NEW previous \in Value \cup {0},
           saving' = [saving EXCEPT ![c].at = "write", ![c].previous = previous],
           previous <= saving[c].value, rate[saving[c].meter] # Unset,
           saving[c].kind = "patch" => /\ reading[<<saving[c].meter, saving[c].period>>] # Unset
                                       /\ previous = reading[<<saving[c].meter, saving[c].period>>].previous,
           saving[c].kind = "post" => previous = Before(saving[c].meter, saving[c].period),
           UNCHANGED <<rate, reading, active, invoices, grid, batch, inputs, had, disturbed>>
    PROVE  MetersInv'
<1>1. PICK r : r = [saving[c] EXCEPT !.at = "write", !.previous = previous]
  OBVIOUS
<1>2. r \in Saving /\ r.at = "write" /\ r.kind = saving[c].kind /\ r.meter = saving[c].meter
      /\ r.period = saving[c].period /\ r.value = saving[c].value /\ r.previous = previous
  BY <1>1, SavingOf DEF Saving
<1>3. SavingKnows(r)
  BY <1>2, SavingOf DEF SavingKnows
<1>4. saving' = [saving EXCEPT ![c] = r]
  BY <1>1
<1> QED BY <1>2, <1>3, <1>4, ClientStep

LEMMA MetersResolve ==
    ASSUME MeteringConstants, MetersInv, NEW c \in Client, Resolve(c)
    PROVE  MetersInv'
<1>1. Before(saving[c].meter, saving[c].period) \in Value \cup {0} /\ saving[c].at = "read" /\ saving[c].kind = "post"
  BY SavingOf, BeforeIsValue DEF Resolve, MetersInv, ReadingsPart
<1>2. CASE Answers(c, "refused")
  BY <1>1, <1>2, MetersAnswer DEF Resolve
<1>3. CASE ~Answers(c, "refused")
  <2>1. /\ saving[c].meter \in Metered /\ Before(saving[c].meter, saving[c].period) <= saving[c].value
        /\ saving' = [saving EXCEPT ![c].at = "write", ![c].previous = Before(saving[c].meter, saving[c].period)]
        /\ UNCHANGED <<rate, reading, active, invoices, grid, batch, inputs, had, disturbed>>
    BY <1>3 DEF Resolve, Before
  <2>2. rate[saving[c].meter] # Unset
    BY <2>1 DEF Metered
  <2> QED BY <1>1, <2>1, <2>2, MetersLooked
<1> QED BY <1>2, <1>3

LEMMA MetersLook ==
    ASSUME MeteringConstants, MetersInv, NEW c \in Client, Look(c)
    PROVE  MetersInv'
<1>1. saving[c].at = "read" /\ saving[c].kind = "patch" /\ saving[c].meter \in Meter /\ saving[c].period \in Period
  BY SavingOf DEF Look
<1>2. CASE Answers(c, "refused")
  BY <1>1, <1>2, MetersAnswer DEF Look
<1>3. CASE ~Answers(c, "refused")
  <2>1. PICK previous : previous = reading[<<saving[c].meter, saving[c].period>>].previous
    OBVIOUS
  <2>2. /\ previous <= saving[c].value /\ reading[<<saving[c].meter, saving[c].period>>] # Unset
        /\ saving' = [saving EXCEPT ![c].at = "write", ![c].previous = previous]
        /\ UNCHANGED <<rate, reading, active, invoices, grid, batch, inputs, had, disturbed>>
    BY <1>3, <2>1 DEF Look
  <2>3. previous \in Value \cup {0} /\ rate[saving[c].meter] # Unset
    BY <1>1, <2>1, <2>2 DEF MetersInv, ReadingsPart, ReadingKnows, MetersTyped, ReadingRow
  <2> QED BY <1>1, <2>1, <2>2, <2>3, MetersLooked
<1> QED BY <1>2, <1>3

LEMMA MetersFail ==
    ASSUME MeteringConstants, MetersInv, NEW c \in Client, Fail(c)
    PROVE  MetersInv'
BY MetersAnswer DEF Fail

LEMMA MetersSaveAborted ==
    ASSUME MeteringConstants, MetersInv, NEW c \in Client, SaveAborted(c)
    PROVE  MetersInv'
BY MetersAnswer DEF SaveAborted

(* One row of the grid changes.                                            *)
LEMMA GridStep ==
    ASSUME GridPart, UNCHANGED <<reading, had>>, NEW m \in Meter, NEW row \in GridRow,
           grid' = [grid EXCEPT !.rows[m] = row],
           row.status = "saved" /\ row.holds = "kept" => row.saved # Unset /\ Saved(m, row.saved, row.shown)
    PROVE  GridPart'
<1>1. grid' \in [period : Period \cup {Unset}, rows : [Meter -> GridRow]]
  BY DEF GridPart
<1>2. \A n \in Meter : grid'.rows[n] = IF n = m THEN row ELSE grid.rows[n]
  BY DEF GridPart
<1>3. \A n \in Meter : RowKnows(n)'
  <2> SUFFICES ASSUME NEW n \in Meter PROVE RowKnows(n)'
    OBVIOUS
  <2>1. CASE n = m
    BY <1>2, <2>1 DEF RowKnows, Saved
  <2>2. CASE n # m
    BY <1>2, <2>2 DEF GridPart, RowKnows, Saved
  <2> QED BY <2>1, <2>2
<1> QED BY <1>1, <1>3 DEF GridPart

LEMMA RowOfGrid ==
    ASSUME MetersInv, NEW m \in Meter
    PROVE  /\ grid.rows[m] \in GridRow /\ RowKnows(m) /\ grid.period \in Period \cup {Unset}
           /\ DOMAIN grid = {"period", "rows"} /\ DOMAIN grid.rows = Meter
BY DEF MetersInv, GridPart

LEMMA MetersSave ==
    ASSUME MeteringConstants, MetersInv, NEW m \in Meter, NEW v \in Value, Save(m, v)
    PROVE  MetersInv'
<1>1. grid.period \in Period /\ grid' = [grid EXCEPT !.rows[m].shown = v, !.rows[m].status = "saving"]
  BY RowOfGrid DEF Save
<1>2. PICK row : row = [grid.rows[m] EXCEPT !.shown = v, !.status = "saving"]
  OBVIOUS
<1>3. row \in GridRow /\ row.status = "saving"
  BY <1>2, RowOfGrid DEF GridRow
<1>4. grid' = [grid EXCEPT !.rows[m] = row]
  BY <1>1, <1>2, RowOfGrid
<1>5. UNCHANGED <<reading, had>>
  BY DEF Save, SendReading
<1>6. grid.rows[m].saved # Unset => grid.rows[m].saved \in Period
  BY RowOfGrid DEF GridRow
<1>7. GridPart'
  BY <1>3, <1>4, <1>5, GridStep DEF MetersInv
<1> QED BY <1>1, <1>6, <1>7, MetersSend DEF Save, MeteringConstants

LEMMA MetersTell ==
    ASSUME MeteringConstants, MetersInv, NEW c \in Client, Tell(c)
    PROVE  MetersInv'
<1>0. saving[c].at \in {"saved", "unkept", "refused"} /\ saving' = [saving EXCEPT ![c] = NoReq]
      /\ UNCHANGED <<rate, reading, active, invoices, batch, inputs, had, disturbed>>
  BY DEF Tell
<1>1. NoReq \in Saving /\ SavingKnows(NoReq)
  BY DEF NoReq, Saving, SavingKnows
<1>2. PICK m \in Meter, p \in Period, v \in Value : m = saving[c].meter /\ p = saving[c].period /\ v = saving[c].value
  BY <1>0, SavingOf
<1>3. GridPart' \/ grid' = grid
  <2>1. CASE grid' = [grid EXCEPT !.rows[m].status = "error"]
    <3>1. PICK row : row = [grid.rows[m] EXCEPT !.status = "error"]
      OBVIOUS
    <3>2. row \in GridRow /\ row.saved = grid.rows[m].saved /\ row.status = "error"
      BY <3>1, RowOfGrid DEF GridRow
    <3>3. grid' = [grid EXCEPT !.rows[m] = row]
      BY <2>1, <3>1, RowOfGrid
    <3> QED BY <1>0, <3>2, <3>3, RowOfGrid, GridStep DEF RowKnows, MetersInv
  <2>2. CASE saving[c].at # "refused" /\ grid' = [grid EXCEPT !.rows[m] = Marked(saving[c])]
    <3>1. PICK row : row = Marked(saving[c])
      OBVIOUS
    <3>2. row \in GridRow /\ row.saved = p /\ row.shown = v /\ (row.holds = "kept" => saving[c].at = "saved")
      BY <1>0, <1>2, <2>2, <3>1 DEF Marked, GridRow
    <3>3. saving[c].at = "saved" => Saved(m, p, v) /\ p # Unset
      BY <1>2, SavingOf DEF SavingKnows, MeteringConstants
    <3> QED BY <1>0, <2>2, <3>1, <3>2, <3>3, GridStep DEF MetersInv
  <2> QED BY <1>2, <2>1, <2>2 DEF Tell
<1> QED BY <1>0, <1>1, <1>3, ClientStep

LEMMA MetersGrid ==
    ASSUME MeteringConstants, MetersInv, NEW p \in Period, Load(p) \/ ChangePeriod(p)
    PROVE  MetersInv'
<1>0. UNCHANGED <<rate, reading, active, invoices, saving, batch, had, disturbed>> /\ Input
  BY DEF Load, ChangePeriod
<1>1. ASSUME Load(p) PROVE GridPart'
  <2>1. grid' = [period |-> p, rows |-> [m \in Meter |-> IF m \in Metered THEN RowOf(m, p) ELSE EmptyRow]]
    BY <1>1 DEF Load
  <2>2. ASSUME NEW m \in Meter
        PROVE  LET row == IF m \in Metered THEN RowOf(m, p) ELSE EmptyRow
               IN  /\ row \in GridRow
                   /\ row.status = "saved" /\ row.holds = "kept" => row.saved # Unset /\ Saved(m, row.saved, row.shown)
    <3>1. reading[<<m, p>>] \in ReadingRow \cup {Unset} /\ ReadingKnows(m, p)
      BY DEF MetersInv, ReadingsPart, MetersTyped
    <3>2. CASE reading[<<m, p>>] = Unset \/ m \notin Metered
      BY <3>2 DEF RowOf, EmptyRow, GridRow
    <3>3. CASE reading[<<m, p>>] # Unset /\ m \in Metered
      <4>1. PICK row : row = [saved |-> p, shown |-> reading[<<m, p>>].current, status |-> "saved", holds |-> "kept"]
        OBVIOUS
      <4>2. row \in GridRow
        BY <3>1, <3>3, <4>1 DEF GridRow, ReadingRow
      <4>3. Saved(m, p, reading[<<m, p>>].current) /\ p # Unset
        BY <3>1, <3>3 DEF Saved, ReadingKnows, MeteringConstants
      <4>4. row = IF m \in Metered THEN RowOf(m, p) ELSE EmptyRow
        BY <3>3, <4>1 DEF RowOf
      <4> QED BY <4>1, <4>2, <4>3, <4>4 DEF Saved
    <3> QED BY <3>2, <3>3
  <2>3. grid'.period = p /\ \A m \in Meter : grid'.rows[m] = IF m \in Metered THEN RowOf(m, p) ELSE EmptyRow
    BY <2>1
  <2>4. grid' \in [period : Period \cup {Unset}, rows : [Meter -> GridRow]]
    BY <2>1, <2>2
  <2>5. \A m \in Meter : RowKnows(m)'
    BY <1>0, <2>2, <2>3 DEF RowKnows, Saved
  <2> QED BY <2>4, <2>5 DEF GridPart
<1>2. ASSUME ChangePeriod(p) PROVE GridPart'
  BY <1>0, <1>2 DEF ChangePeriod, MetersInv, GridPart, RowKnows, Saved
<1>3. ReadingsPart' /\ SavingsPart'
  BY <1>0, ReadingsStay, SavingsStay DEF MetersInv
<1>4. BatchesPart' /\ SlotsPart' /\ inputs' \in 0 .. MaxInputs
  BY <1>0, BatchesStay, SlotsStay, InputsStay DEF MetersInv, BatchesPart
<1> QED BY <1>1, <1>2, <1>3, <1>4 DEF MetersInv

(* The price of a meter: a new one, or a change.                           *)
LEMMA MetersPriced ==
    ASSUME MeteringConstants, MetersInv, NEW m \in Meter, CreateMeter(m) \/ UpdateMeter(m)
    PROVE  MetersInv'
<1>1. UNCHANGED <<reading, active, invoices, saving, grid, batch, had, disturbed>> /\ Input
  BY DEF CreateMeter, UpdateMeter
<1>2. PICK price \in Price : rate' = [rate EXCEPT ![m] = price]
  <2>1. rate[m] \in Price \cup {Unset}
    BY DEF MetersInv, ReadingsPart, MetersTyped
  <2>2. rate[m] # Unset => 3 - rate[m] \in Price
    BY <2>1 DEF Price
  <2> QED BY <2>1, <2>2 DEF CreateMeter, UpdateMeter, Metered, Price
<1>3. rate' \in [Meter -> Price \cup {Unset}] /\ \A n \in Meter : rate[n] # Unset => rate'[n] # Unset
  BY <1>2 DEF MetersInv, ReadingsPart, MetersTyped, MeteringConstants
<1>4. \A n \in Meter, p \in Period : Before(n, p)' = Before(n, p)
  BY <1>1 DEF Before, resolveValuePrevious, Earlier
<1>5. ReadingsPart'
  BY <1>1, <1>3, <1>4 DEF MetersInv, ReadingsPart, MetersTyped, ReadingKnows
<1>6. \A c \in Client : SavingKnows(saving[c])'
  BY <1>1, <1>3, <1>4 DEF MetersInv, SavingsPart, SavingKnows, Saved
<1>7. SavingsPart'
  BY <1>1, <1>6 DEF MetersInv, SavingsPart
<1>8. GridPart' /\ BatchesPart' /\ SlotsPart' /\ inputs' \in 0 .. MaxInputs
  BY <1>1, GridStays, BatchesStay, SlotsStay, InputsStay DEF MetersInv, BatchesPart
<1> QED BY <1>5, <1>7, <1>8 DEF MetersInv

(* A step of what is billed: meters and readings stay.                     *)
LEMMA MetersBilling ==
    ASSUME MeteringConstants, MetersInv, UNCHANGED <<rate, reading, saving, grid, had, disturbed>>,
           BatchesPart', SlotsPart', Input \/ inputs' = inputs
    PROVE  MetersInv'
<1>1. ReadingsPart' /\ SavingsPart' /\ GridPart'
  BY ReadingsStay, SavingsStay, GridStays DEF MetersInv
<1>2. inputs' \in 0 .. MaxInputs
  BY InputsStay DEF MetersInv
<1> QED BY <1>1, <1>2 DEF MetersInv

LEMMA MetersEndContract ==
    ASSUME MeteringConstants, MetersInv, NEW k \in Contract, EndContract(k)
    PROVE  MetersInv'
<1>1. active' \subseteq Contract /\ UNCHANGED <<rate, reading, saving, grid, had, disturbed, invoices, batch>>
  BY DEF EndContract, MetersInv, BatchesPart
<1>2. BatchesPart' /\ SlotsPart'
  BY <1>1, BatchesStay, SlotsStay DEF MetersInv
<1> QED BY <1>1, <1>2, MetersBilling DEF EndContract

LEMMA MetersCreateInvoice ==
    ASSUME MeteringConstants, MetersInv, NEW k \in Contract, NEW p \in Billed, CreateInvoice(k, p)
    PROVE  MetersInv'
<1>1. PICK i : i = [contract |-> k, period |-> p, lines |-> {}, meters |-> {}]
  OBVIOUS
<1>2. invoices' = invoices \cup {i} /\ UNCHANGED <<rate, reading, active, saving, grid, batch, had, disturbed>>
  BY <1>1 DEF CreateInvoice
<1>3. i \in InvoiceRow /\ Complete(i) /\ Slot(i) = <<k, p>>
  BY <1>1 DEF InvoiceRow, Complete, Slot, MeteringConstants
<1>4. Complete(i)'
  BY <1>2, <1>3, CompleteStays
<1>5. \A b \in Batcher : BatchKnows(batch[b])'
  BY <1>2, BatchStays DEF MetersInv, BatchesPart
<1>6. \A j \in invoices : Complete(j)'
  BY <1>2, CompleteStays DEF MetersInv, BatchesPart
<1>7. BatchesPart'
  BY <1>2, <1>3, <1>4, <1>5, <1>6 DEF MetersInv, BatchesPart
<1>8. \A j \in invoices : Slot(j) # Slot(i)
  BY <1>3 DEF CreateInvoice, Invoiced, Slot
<1>9. \A b \in Batcher : \A j \in MadeBy(b) : Slot(j) # Slot(i)
  BY <1>3 DEF CreateInvoice, Held, Slot, MadeBy
<1>10. \A b \in Batcher : MadeBy(b)' = MadeBy(b)
  BY <1>2 DEF MadeBy
<1>11. SlotsPart'
  BY <1>2, <1>8, <1>9, <1>10 DEF MetersInv, SlotsPart, Slot
<1> QED BY <1>2, <1>7, <1>11, MetersBilling DEF CreateInvoice

LEMMA MetersVoid ==
    ASSUME MeteringConstants, MetersInv, NEW i \in invoices, VoidInvoice(i)
    PROVE  MetersInv'
<1>1. invoices' \subseteq invoices /\ UNCHANGED <<rate, reading, active, saving, grid, batch, had, disturbed>>
  BY DEF VoidInvoice
<1>2. \A b \in Batcher : BatchKnows(batch[b])'
  BY <1>1, BatchStays DEF MetersInv, BatchesPart
<1>3. \A j \in invoices : Complete(j)'
  BY <1>1, CompleteStays DEF MetersInv, BatchesPart
<1>4. BatchesPart'
  BY <1>1, <1>2, <1>3 DEF MetersInv, BatchesPart
<1>5. SlotsPart'
  BY <1>1 DEF MetersInv, SlotsPart, Slot, MadeBy
<1> QED BY <1>1, <1>4, <1>5, MetersBilling DEF VoidInvoice

-----------------------------------------------------------------------------
(* A reading is written.  Those of other meters, and of this one unless it  *)
(* was disturbed, still follow the ones before them.                       *)
LEMMA ReadingWritten ==
    ASSUME MeteringConstants, MetersInv, NEW m \in Meter, NEW p \in Period, NEW row \in ReadingRow,
           Record(m, p, row), AddsUp(row), rate' = rate, rate[m] # Unset,
           disturbed \subseteq disturbed', disturbed' \subseteq Meter,
           m \notin disturbed' => /\ row.previous = Before(m, p)
                                  /\ \A q \in Period : q > p => reading[<<m, q>>] = Unset
    PROVE  /\ ReadingsPart'
           /\ \A n \in Meter, q \in Period : n # m \/ q <= p => Before(n, q)' = Before(n, q)
           /\ \A n \in Meter, q \in Period : /\ reading[<<n, q>>] # Unset => reading'[<<n, q>>] # Unset
                                             /\ had[<<n, q>>] \subseteq had'[<<n, q>>]
<1>1. /\ reading' = [reading EXCEPT ![<<m, p>>] = row]
      /\ had' = [had EXCEPT ![<<m, p>>] = @ \cup {row}]
  BY DEF Record
<1>2. MetersTyped /\ Unset \notin ReadingRow /\ Period \subseteq Nat
  BY DEF MetersInv, ReadingsPart, MeteringConstants
<1>3. MetersTyped'
  BY <1>1, <1>2 DEF MetersTyped
<1>4. /\ reading'[<<m, p>>] = row /\ row \in had'[<<m, p>>]
      /\ \A n \in Meter, q \in Period : n # m \/ q # p =>
            reading'[<<n, q>>] = reading[<<n, q>>] /\ had'[<<n, q>>] = had[<<n, q>>]
      /\ had'[<<m, p>>] = had[<<m, p>>] \cup {row}
  BY <1>1, <1>2 DEF MetersTyped
<1>5. ASSUME NEW n \in Meter, NEW q \in Period, n # m \/ q <= p
      PROVE  Before(n, q)' = Before(n, q)
  <2>1. \A r \in Period : r < q => reading'[<<n, r>>] = reading[<<n, r>>]
    <3> SUFFICES ASSUME NEW r \in Period, r < q PROVE reading'[<<n, r>>] = reading[<<n, r>>]
      OBVIOUS
    <3>0. r \in Nat /\ q \in Nat /\ p \in Nat
      BY <1>2
    <3>1. n # m \/ r # p
      BY <1>5, <3>0
    <3> QED BY <1>4, <3>1
  <2> QED BY <1>2, <2>1, BeforeIsEarlier
<1>6. ASSUME NEW n \in Meter, NEW q \in Period PROVE ReadingKnows(n, q)'
  <2>1. ReadingKnows(n, q)
    BY DEF MetersInv, ReadingsPart
  <2>2. CASE n = m /\ q = p
    <3>1. \A r \in had'[<<n, q>>] : AddsUp(r)
      BY <1>4, <2>1, <2>2 DEF ReadingKnows
    <3>2. m \notin disturbed' => row.previous = Before(n, q)'
      BY <1>2, <1>5, <2>2
    <3> QED BY <1>4, <2>2, <3>1, <3>2 DEF ReadingKnows
  <2>3. CASE ~(n = m /\ q = p)
    <3>1. reading'[<<n, q>>] = reading[<<n, q>>] /\ had'[<<n, q>>] = had[<<n, q>>]
      BY <1>4, <2>3
    <3>2. n \notin disturbed' /\ reading[<<n, q>>] # Unset => n \notin disturbed /\ (n # m \/ q <= p)
      BY <1>2, <2>3
    <3>3. n \notin disturbed' /\ reading[<<n, q>>] # Unset => Before(n, q)' = Before(n, q)
      BY <1>5, <3>2
    <3> QED BY <2>1, <3>1, <3>2, <3>3 DEF ReadingKnows
  <2> QED BY <2>2, <2>3
<1>7. \A n \in Meter, q \in Period : /\ reading[<<n, q>>] # Unset => reading'[<<n, q>>] # Unset
                                     /\ had[<<n, q>>] \subseteq had'[<<n, q>>]
  <2> SUFFICES ASSUME NEW n \in Meter, NEW q \in Period
               PROVE  /\ reading[<<n, q>>] # Unset => reading'[<<n, q>>] # Unset
                      /\ had[<<n, q>>] \subseteq had'[<<n, q>>]
    OBVIOUS
  <2>1. CASE n = m /\ q = p
    BY <1>2, <1>4, <2>1
  <2>2. CASE ~(n = m /\ q = p)
    BY <1>4, <2>2
  <2> QED BY <2>1, <2>2
<1> QED BY <1>3, <1>5, <1>6, <1>7 DEF ReadingsPart

(* What another client has looked up is still so.                          *)
LEMMA SavingGoesOn ==
    ASSUME NEW r \in Saving, SavingKnows(r), rate' = rate, NEW m \in Meter, NEW p \in Period,
           \A n \in Meter, q \in Period : n # m \/ q <= p => Before(n, q)' = Before(n, q),
           \A n \in Meter, q \in Period : /\ reading[<<n, q>>] # Unset => reading'[<<n, q>>] # Unset
                                          /\ had[<<n, q>>] \subseteq had'[<<n, q>>],
           \A n \in Meter, q \in Period : reading[<<n, q>>] # Unset =>
               reading'[<<n, q>>].previous = reading[<<n, q>>].previous,
           disturbed \subseteq disturbed',
           m \in disturbed' \/ r.meter # m \/ r.at # "write" \/ r.period <= p \/ r.crossed
    PROVE  SavingKnows(r)'
<1> SUFFICES ASSUME r.at # "idle" PROVE SavingKnows(r)'
  BY DEF SavingKnows
<1>1. r.meter \in Meter /\ r.period \in Period
  BY DEF SavingKnows
<1>2. r.at = "saved" => Saved(r.meter, r.period, r.value)'
  BY <1>1, SavedStays DEF SavingKnows
<1>3. r.at = "write" /\ r.kind = "post" /\ ~r.crossed /\ r.meter \notin disturbed' => Before(r.meter, r.period)' = Before(r.meter, r.period)
  BY <1>1
<1> QED BY <1>1, <1>2, <1>3 DEF SavingKnows

LEMMA MetersWritten ==
    ASSUME MetersInv, UNCHANGED <<active, invoices, grid, batch, inputs>>, ReadingsPart', SavingsPart',
           \A n \in Meter, q \in Period : /\ reading[<<n, q>>] # Unset => reading'[<<n, q>>] # Unset
                                          /\ had[<<n, q>>] \subseteq had'[<<n, q>>]
    PROVE  MetersInv'
<1>1. GridPart' /\ SlotsPart'
  BY GridStays, SlotsStay DEF MetersInv
<1>2. BatchesPart'
  BY BatchesStay DEF MetersInv, BatchesPart
<1> QED BY <1>1, <1>2 DEF MetersInv

LEMMA MetersInsert ==
    ASSUME MeteringConstants, MetersInv, NEW c \in Client, Insert(c)
    PROVE  MetersInv'
<1>0. saving[c].at = "write" /\ saving[c].kind = "post" /\ UNCHANGED <<rate, active, invoices, grid, batch, inputs>>
  BY DEF Insert
<1>1. PICK m \in Meter, p \in Period, v \in Value : m = saving[c].meter /\ p = saving[c].period /\ v = saving[c].value
  BY <1>0, SavingOf
<1>2. CASE reading[<<m, p>>] # Unset
  <2>1. Answers(c, "refused") /\ UNCHANGED <<reading, had, disturbed>>
    BY <1>1, <1>2 DEF Insert
  <2> QED BY <1>0, <2>1, MetersAnswer
<1>3. CASE reading[<<m, p>>] = Unset
  <2> DEFINE late == \E q \in Period : q > p /\ reading[<<m, q>>] # Unset
  <2>1. PICK row : row = [current |-> v, previous |-> saving[c].previous, used |-> v - saving[c].previous]
    OBVIOUS
  <2>2. /\ Record(m, p, row)
        /\ disturbed' = IF late \/ saving[c].crossed THEN disturbed \cup {m} ELSE disturbed
        /\ saving' = [d \in Client |->
                IF d = c THEN [saving[c] EXCEPT !.at = "saved"]
                ELSE [saving[d] EXCEPT !.crossed = @ \/ (saving[d].at = "write" /\ saving[d].meter = m /\ saving[d].period > p)]]
    BY <1>1, <1>3, <2>1 DEF Insert
  <2>3. /\ saving[c].previous <= v /\ rate[m] # Unset /\ saving[c].previous \in Value \cup {0}
        /\ ~saving[c].crossed /\ m \notin disturbed => saving[c].previous = Before(m, p)
    BY <1>0, <1>1, SavingOf DEF SavingKnows, Saving
  <2>4. row \in ReadingRow /\ AddsUp(row) /\ row.previous = saving[c].previous /\ row.current = v
    BY <2>1, <2>3 DEF ReadingRow, AddsUp, MeteringConstants
  <2>5. /\ disturbed \subseteq disturbed' /\ disturbed' \subseteq Meter
        /\ m \notin disturbed' => /\ row.previous = Before(m, p)
                                  /\ \A q \in Period : q > p => reading[<<m, q>>] = Unset
    BY <2>2, <2>3, <2>4 DEF MetersInv, ReadingsPart, MetersTyped
  <2>6. /\ ReadingsPart'
        /\ \A n \in Meter, q \in Period : n # m \/ q <= p => Before(n, q)' = Before(n, q)
        /\ \A n \in Meter, q \in Period : /\ reading[<<n, q>>] # Unset => reading'[<<n, q>>] # Unset
                                          /\ had[<<n, q>>] \subseteq had'[<<n, q>>]
    BY <1>0, <2>2, <2>3, <2>4, <2>5, ReadingWritten
  <2>7. \A n \in Meter, q \in Period : reading[<<n, q>>] # Unset =>
               reading'[<<n, q>>].previous = reading[<<n, q>>].previous
    BY <1>3, <2>2 DEF Record, MetersInv, ReadingsPart, MetersTyped
  <2>8. Saved(m, p, v)'
    <3>1. reading'[<<m, p>>] = row /\ row \in had'[<<m, p>>] /\ row # Unset
      BY <2>2, <2>4 DEF Record, MetersInv, ReadingsPart, MetersTyped, MeteringConstants
    <3> QED BY <2>4, <3>1 DEF Saved
  <2>9. ASSUME NEW d \in Client PROVE saving'[d] \in Saving /\ SavingKnows(saving[d])'
    <3>1. PICK x : x = saving'[d]
      OBVIOUS
    <3>2. CASE d = c
      <4>1. x = [saving[c] EXCEPT !.at = "saved"] /\ saving[c] \in Saving
        BY <1>0, <2>2, <3>1, <3>2, SavingOf
      <4>2. x \in Saving /\ x.at = "saved" /\ x.meter = m /\ x.period = p /\ x.value = v /\ x.kind = "post"
        BY <1>0, <1>1, <4>1 DEF Saving
      <4>3. SavingKnows(x)'
        BY <2>8, <4>2 DEF SavingKnows
      <4> QED BY <3>1, <4>2, <4>3
    <3>3. CASE d # c
      <4>1. saving[d] \in Saving /\ SavingKnows(saving[d])
        BY DEF MetersInv, SavingsPart
      <4>2. PICK crossed \in BOOLEAN : crossed <=> (saving[d].crossed \/ (saving[d].at = "write" /\ saving[d].meter = m /\ saving[d].period > p))
        BY ZenonT(10)
      <4>3. x = [saving[d] EXCEPT !.crossed = crossed]
        BY <2>2, <3>1, <3>3, <4>1, <4>2 DEF Saving
      <4>4. /\ x \in Saving /\ x.at = saving[d].at /\ x.kind = saving[d].kind /\ x.meter = saving[d].meter
            /\ x.period = saving[d].period /\ x.value = saving[d].value /\ x.previous = saving[d].previous
            /\ x.crossed <=> crossed
        BY <4>1, <4>3 DEF Saving
      <4>5. SavingKnows(x)
        BY <4>1, <4>2, <4>4 DEF SavingKnows
      <4>6. x.meter # m \/ x.at # "write" \/ x.period <= p \/ x.crossed
        <5>1. x.at = "write" => x.period \in Period
          BY <4>5 DEF SavingKnows
        <5> QED BY <4>2, <4>4, <5>1 DEF MeteringConstants
      <4>7. SavingKnows(x)'
        BY <1>0, <2>5, <2>6, <2>7, <4>4, <4>5, <4>6, SavingGoesOn
      <4> QED BY <3>1, <4>4, <4>7
    <3> QED BY <3>2, <3>3
  <2>10. SavingsPart'
    BY <2>2, <2>9 DEF SavingsPart
  <2> QED BY <1>0, <2>6, <2>10, MetersWritten
<1> QED BY <1>2, <1>3

LEMMA MetersRewrite ==
    ASSUME MeteringConstants, MetersInv, NEW c \in Client, Rewrite(c)
    PROVE  MetersInv'
<1>0. saving[c].at = "write" /\ saving[c].kind = "patch" /\ UNCHANGED <<rate, active, invoices, grid, batch, inputs>>
  BY DEF Rewrite
<1>1. PICK m \in Meter, p \in Period, v \in Value : m = saving[c].meter /\ p = saving[c].period /\ v = saving[c].value
  BY <1>0, SavingOf
<1>2. PICK old : old = reading[<<m, p>>]
  OBVIOUS
<1>3. /\ old # Unset /\ old \in ReadingRow /\ saving[c].previous = old.previous /\ old.previous <= v
      /\ rate[m] # Unset
  BY <1>0, <1>1, <1>2, SavingOf DEF SavingKnows, MetersInv, ReadingsPart, MetersTyped
<1>4. PICK row : row = [old EXCEPT !.current = v, !.used = v - old.previous]
  OBVIOUS
<1>5. /\ Record(m, p, row) /\ disturbed' = disturbed \cup {m} /\ saving' = [saving EXCEPT ![c].at = "saved"]
  BY <1>1, <1>2, <1>3, <1>4 DEF Rewrite, Answers
<1>6. row.current = v /\ row.previous = old.previous /\ row.used = v - old.previous /\ row \in ReadingRow
  <2>0. v \in Nat /\ old.previous \in Nat
    <3>1. old.previous \in Value \cup {0}
      BY <1>3 DEF ReadingRow
    <3>2. Value \subseteq Nat
      BY DEF MeteringConstants
    <3>3. 0 \in Nat
      OBVIOUS
    <3> QED BY <3>1, <3>2, <3>3, Zenon
  <2>1. v - old.previous \in Nat
    BY <1>3, <2>0
  <2> QED BY <1>3, <1>4, <2>1 DEF ReadingRow
<1>7. AddsUp(row)
  BY <1>3, <1>6 DEF AddsUp
<1>8. disturbed' \subseteq Meter /\ disturbed \subseteq disturbed' /\ m \in disturbed'
  BY <1>5 DEF MetersInv, ReadingsPart, MetersTyped
<1>9. /\ ReadingsPart'
      /\ \A n \in Meter, q \in Period : n # m \/ q <= p => Before(n, q)' = Before(n, q)
      /\ \A n \in Meter, q \in Period : /\ reading[<<n, q>>] # Unset => reading'[<<n, q>>] # Unset
                                        /\ had[<<n, q>>] \subseteq had'[<<n, q>>]
  BY <1>0, <1>3, <1>5, <1>6, <1>7, <1>8, ReadingWritten
<1>10. /\ reading' = [reading EXCEPT ![<<m, p>>] = row] /\ had' = [had EXCEPT ![<<m, p>>] = @ \cup {row}]
  BY <1>5 DEF Record
<1>11. \A n \in Meter, q \in Period : reading[<<n, q>>] # Unset =>
               reading'[<<n, q>>].previous = reading[<<n, q>>].previous
  <2>1. \A n \in Meter, q \in Period : reading'[<<n, q>>] = IF n = m /\ q = p THEN row ELSE reading[<<n, q>>]
    BY <1>10 DEF MetersInv, ReadingsPart, MetersTyped
  <2> QED BY <1>2, <1>6, <2>1
<1>12. Saved(m, p, v)'
  <2>1. reading'[<<m, p>>] = row /\ row \in had'[<<m, p>>] /\ row # Unset
    BY <1>6, <1>10 DEF MetersInv, ReadingsPart, MetersTyped, MeteringConstants
  <2> QED BY <1>6, <2>1 DEF Saved
<1>13. PICK r : r = [saving[c] EXCEPT !.at = "saved"]
  OBVIOUS
<1>14. r \in Saving /\ r.at = "saved" /\ r.meter = m /\ r.period = p /\ r.value = v /\ r.kind = "patch"
  BY <1>0, <1>1, <1>13, SavingOf DEF Saving
<1>15. SavingKnows(r)'
  BY <1>12, <1>14 DEF SavingKnows, Saved
<1>16. ASSUME NEW d \in Client PROVE saving'[d] \in Saving /\ SavingKnows(saving[d])'
  <2>1. PICK x : x = saving'[d]
    OBVIOUS
  <2>2. CASE d = c
    <3>1. x = r
      BY <1>5, <1>13, <2>1, <2>2 DEF MetersInv, SavingsPart
    <3> QED BY <1>14, <1>15, <2>1, <3>1
  <2>3. CASE d # c
    <3>1. x = saving[d] /\ x \in Saving /\ SavingKnows(x)
      BY <1>5, <2>1, <2>3 DEF MetersInv, SavingsPart
    <3>2. SavingKnows(x)'
      BY <1>0, <1>8, <1>9, <1>11, <3>1, SavingGoesOn
    <3> QED BY <2>1, <3>1, <3>2
  <2> QED BY <2>2, <2>3
<1>17. SavingsPart'
  BY <1>5, <1>16 DEF SavingsPart, MetersInv
<1> QED BY <1>0, <1>9, <1>17, MetersWritten

-----------------------------------------------------------------------------
(* A batch reads: what it has made, it still holds.                        *)
LEMMA BatchStep ==
    ASSUME MeteringConstants, MetersInv, NEW b \in Batcher, NEW r \in Generating, Becomes(b, r),
           BatchKnows(r), invoices' = invoices,
           r.at = "each" /\ ~r.aborted => \A i \in r.made :
               \/ i \in MadeBy(b)
               \/ /\ \A j \in invoices : Slot(i) # Slot(j)
                  /\ \A c \in Batcher : \A j \in MadeBy(c) : Slot(i) # Slot(j),
           Input \/ inputs' = inputs
    PROVE  MetersInv'
<1>1. /\ batch' = [batch EXCEPT ![b] = r] /\ UNCHANGED <<rate, reading, active, saving, grid, had, disturbed>>
  BY DEF Becomes
<1>2. batch' \in [Batcher -> Generating] /\ batch'[b] = r /\ \A c \in Batcher : c # b => batch'[c] = batch[c]
  BY <1>1 DEF MetersInv, BatchesPart
<1>3. BatchKnows(r)'
  BY <1>1, BatchStays
<1>4. \A c \in Batcher : BatchKnows(batch[c])'
  <2> SUFFICES ASSUME NEW c \in Batcher PROVE BatchKnows(batch[c])'
    OBVIOUS
  <2>1. CASE c = b
    BY <1>2, <1>3, <2>1
  <2>2. CASE c # b
    <3>1. BatchKnows(batch[c]) /\ batch[c] \in Generating
      BY DEF MetersInv, BatchesPart
    <3>2. PICK x : x = batch[c]
      OBVIOUS
    <3>3. BatchKnows(x)'
      BY <1>1, <3>1, <3>2, BatchStays
    <3> QED BY <1>2, <2>2, <3>2, <3>3
  <2> QED BY <2>1, <2>2
<1>5. \A i \in invoices : Complete(i)'
  BY <1>1, CompleteStays DEF MetersInv, BatchesPart
<1>6. BatchesPart'
  BY <1>1, <1>2, <1>4, <1>5 DEF MetersInv, BatchesPart
<1>7. MadeBy(b)' = IF r.at = "each" /\ ~r.aborted THEN r.made ELSE {}
  BY <1>2 DEF MadeBy
<1>8. \A c \in Batcher : c # b => MadeBy(c)' = MadeBy(c)
  BY <1>2 DEF MadeBy
<1>9. SlotsPart'
  <2>1. \A i, j \in invoices : Slot(i)' = Slot(j)' => i = j
    BY DEF MetersInv, SlotsPart, Slot
  <2>2. \A c \in Batcher : \A i \in MadeBy(c)', j \in invoices : Slot(i) # Slot(j)
    BY <1>7, <1>8 DEF MetersInv, SlotsPart
  <2>3. \A c \in Batcher : c # b => \A i \in MadeBy(b)', j \in MadeBy(c) : Slot(i) # Slot(j)
    BY <1>7 DEF MetersInv, SlotsPart
  <2>4. \A c, d \in Batcher : c # d => \A i \in MadeBy(c)', j \in MadeBy(d)' : Slot(i) # Slot(j)
    BY <1>8, <2>3 DEF MetersInv, SlotsPart
  <2> QED BY <2>1, <2>2, <2>4 DEF SlotsPart, Slot
<1> QED BY <1>1, <1>6, <1>9, MetersBilling

LEMMA BatchOf ==
    ASSUME MetersInv, NEW b \in Batcher
    PROVE  batch[b] \in Generating /\ BatchKnows(batch[b])
BY DEF MetersInv, BatchesPart

LEMMA MetersGenerate ==
    ASSUME MeteringConstants, MetersInv, NEW b \in Batcher, NEW p \in Billed, Generate(b, p)
    PROVE  MetersInv'
<1>1. PICK r : r = [NoBatch EXCEPT !.at = "start", !.period = p]
  OBVIOUS
<1>2. r \in Generating /\ r.at = "start" /\ r.period \in Period /\ r.meters = {} /\ r.used = {} /\ r.made = {} /\ r.todo = {}
  BY <1>1 DEF NoBatch, Generating, MeteringConstants
<1>3. BatchKnows(r)
  BY <1>2 DEF BatchKnows
<1>4. Becomes(b, r) /\ invoices' = invoices /\ Input
  BY <1>1 DEF Generate
<1> QED BY <1>2, <1>3, <1>4, BatchStep

LEMMA MetersReadInvoices ==
    ASSUME MeteringConstants, MetersInv, NEW b \in Batcher, ReadInvoices(b)
    PROVE  MetersInv'
<1>1. PICK r : r = [batch[b] EXCEPT !.at = "meters", !.todo = active, !.skipped = Contract \ active,
                                   !.there = {k \in active : Invoiced(k, batch[b].period)}]
  OBVIOUS
<1>2. active \subseteq Contract
  BY DEF MetersInv, BatchesPart
<1>3. /\ r \in Generating /\ r.at = "meters" /\ r.period = batch[b].period /\ r.meters = batch[b].meters
      /\ r.used = batch[b].used /\ r.made = batch[b].made /\ r.todo = active /\ r.skipped = Contract \ active
  BY <1>1, <1>2, BatchOf DEF Generating
<1>4. Becomes(b, r) /\ invoices' = invoices /\ inputs' = inputs /\ batch[b].at = "start"
  BY <1>1 DEF ReadInvoices
<1>5. batch[b].made = {}
  BY <1>4, BatchOf DEF BatchKnows
<1>6. BatchKnows(r)
  BY <1>3, <1>4, <1>5, BatchOf DEF BatchKnows
<1> QED BY <1>3, <1>4, <1>6, BatchStep

LEMMA Pairs ==
    ASSUME NEW S, NEW T, NEW f \in [S -> T]
    PROVE  /\ {<<m, f[m]>> : m \in S} \in SUBSET (S \X T)
           /\ \A x, y \in {<<m, f[m]>> : m \in S} : x[1] = y[1] => x = y
           /\ \A x \in {<<m, f[m]>> : m \in S} : x[1] \in S /\ x[2] = f[x[1]]
<1>1. {<<m, f[m]>> : m \in S} \in SUBSET (S \X T)
  OBVIOUS
<1>2. \A x, y \in {<<m, f[m]>> : m \in S} : x[1] = y[1] => x = y
  OBVIOUS
<1>3. \A x \in {<<m, f[m]>> : m \in S} : x[1] \in S /\ x[2] = f[x[1]]
  OBVIOUS
<1> QED BY <1>1, <1>2, <1>3

LEMMA MetersReadMeters ==
    ASSUME MeteringConstants, MetersInv, NEW b \in Batcher, ReadMeters(b)
    PROVE  MetersInv'
<1> DEFINE p == batch[b].period
           Have == {n \in Meter : reading[<<n, p>>] # Unset}
           used == {<<m, reading[<<m, p>>].used>> : m \in Have}
           priced == {<<m, rate[m]>> : m \in Metered}
<1>0. batch[b].at = "meters" /\ p \in Period /\ batch[b].made = {}
  BY BatchOf DEF ReadMeters, BatchKnows
<1>1. priced \in SUBSET (Meter \X Price)
  BY DEF MetersInv, ReadingsPart, MetersTyped, Metered
<1>2. \A m \in Have : /\ reading[<<m, p>>] \in had[<<m, p>>] /\ reading[<<m, p>>].used \in Nat
  BY <1>0 DEF MetersInv, ReadingsPart, ReadingKnows, MetersTyped, ReadingRow
<1>3. PICK f \in [Have -> Nat] : f = [m \in Have |-> reading[<<m, p>>].used]
  BY <1>2
<1>4. used = {<<m, f[m]>> : m \in Have}
  BY <1>3
<1>5. /\ used \in SUBSET (Have \X Nat)
      /\ \A x, y \in used : x[1] = y[1] => x = y
      /\ \A x \in used : x[1] \in Have /\ x[2] = f[x[1]]
  <2> HIDE DEF used, Have, priced
  <2>1. /\ {<<m, f[m]>> : m \in Have} \in SUBSET (Have \X Nat)
        /\ \A x, y \in {<<m, f[m]>> : m \in Have} : x[1] = y[1] => x = y
        /\ \A x \in {<<m, f[m]>> : m \in Have} : x[1] \in Have /\ x[2] = f[x[1]]
    BY Pairs
  <2> QED BY <1>4, <2>1, Zenon
<1>6. \A x, y \in priced : x[1] = y[1] => x = y
  OBVIOUS
<1> HIDE DEF used, priced
<1>30. used \in SUBSET (Meter \X Nat)
  BY <1>5
<1>60. \A x \in used : \E row \in had[<<x[1], p>>] : x[2] = row.used
  BY <1>2, <1>3, <1>5
<1>7. PICK r : r = [batch[b] EXCEPT !.at = "each", !.meters = priced, !.used = used]
  OBVIOUS
<1>8. Becomes(b, r) /\ invoices' = invoices /\ inputs' = inputs
  BY <1>7 DEF ReadMeters, used, priced
<1> HIDE DEF Have
<1>9. /\ r \in Generating /\ r.at = "each" /\ r.meters = priced /\ r.used = used /\ r.made = {}
      /\ r.period = p /\ r.todo = batch[b].todo /\ r.skipped = batch[b].skipped
  BY <1>0, <1>1, <1>30, <1>7, BatchOf DEF Generating
<1>10. BatchKnows(r)
  BY <1>0, <1>5, <1>6, <1>60, <1>9, BatchOf DEF BatchKnows
<1> QED BY <1>8, <1>9, <1>10, BatchStep

(* An invoice has a line for every meter, each with its own reading.        *)
LEMMA InvoiceOfBatch ==
    ASSUME NEW r \in Generating, BatchKnows(r), NEW k \in Contract, ~LacksReading(r, k),
           r.period \in Period
    PROVE  LET i == Invoice(r, k)
           IN  i \in InvoiceRow /\ Complete(i) /\ i.contract = k /\ i.period = r.period
<1> DEFINE mine == MetersOf(r, k)
           lines == Lines(r, k)
           own == {mr[1] : mr \in mine}
<1>1. mine \subseteq r.meters /\ r.meters \subseteq Meter \X Price /\ r.used \subseteq Meter \X Nat
  BY DEF MetersOf, Generating
<1>2. \A line \in lines : \E mr \in mine, mu \in r.used :
         mr[1] = mu[1] /\ line = [meter |-> mr[1], quantity |-> mu[2], price |-> mr[2]]
  BY DEF Lines
<1>3. \A mr \in mine, mu \in r.used :
         mr[1] = mu[1] => [meter |-> mr[1], quantity |-> mu[2], price |-> mr[2]] \in lines
  <2> SUFFICES ASSUME NEW mr \in mine, NEW mu \in r.used, mr[1] = mu[1]
               PROVE  [meter |-> mr[1], quantity |-> mu[2], price |-> mr[2]] \in lines
    OBVIOUS
  <2>1. PICK both \in mine \X r.used : both = <<mr, mu>>
    OBVIOUS
  <2> QED BY <2>1 DEF Lines
<1> HIDE DEF mine, lines
<1>4. own \subseteq Meter
  BY <1>1
<1>5. \A line \in lines : line \in Line
  BY <1>1, <1>2 DEF Line
<1>6. ASSUME NEW m \in own PROVE \E line \in lines : {its \in lines : its.meter = m} = {line}
  <2>1. PICK mr \in mine : mr[1] = m
    OBVIOUS
  <2>2. PICK mu \in r.used : mu[1] = mr[1]
    BY <2>1 DEF LacksReading, mine
  <2>3. PICK line : line = [meter |-> mr[1], quantity |-> mu[2], price |-> mr[2]]
    OBVIOUS
  <2>4. line \in lines /\ line.meter = m
    BY <1>3, <2>1, <2>2, <2>3
  <2>5. ASSUME NEW its \in lines, its.meter = m PROVE its = line
    <3>1. PICK mr2 \in mine, mu2 \in r.used : mr2[1] = mu2[1] /\ its = [meter |-> mr2[1], quantity |-> mu2[2], price |-> mr2[2]]
      BY <1>2
    <3>2. mr2[1] = mr[1] /\ mu2[1] = mu[1]
      BY <2>1, <2>2, <2>5, <3>1
    <3>3. mr2 = mr /\ mu2 = mu
      BY <1>1, <3>2 DEF BatchKnows
    <3> QED BY <2>3, <3>1, <3>3
  <2> QED BY <2>4, <2>5
<1>7. ASSUME NEW line \in lines PROVE \E row \in had[<<line.meter, r.period>>] : line.quantity = row.used
  <2>1. PICK mr \in mine, mu \in r.used : mr[1] = mu[1] /\ line = [meter |-> mr[1], quantity |-> mu[2], price |-> mr[2]]
    BY <1>2
  <2>2. line.meter = mu[1] /\ line.quantity = mu[2]
    BY <2>1
  <2> QED BY <2>1, <2>2 DEF BatchKnows
<1>8. PICK i : i = [contract |-> k, period |-> r.period, lines |-> lines, meters |-> own]
  OBVIOUS
<1>9. i = Invoice(r, k)
  BY <1>8 DEF Invoice, mine, lines
<1> HIDE DEF own
<1>10. /\ i.contract = k /\ i.period = r.period /\ i.lines = lines /\ i.meters = own /\ i \in InvoiceRow
  BY <1>4, <1>5, <1>8 DEF InvoiceRow
<1>11. Complete(i)
  BY <1>6, <1>7, <1>10 DEF Complete
<1> QED BY <1>9, <1>10, <1>11

LEMMA MetersEach ==
    ASSUME MeteringConstants, MetersInv, NEW b \in Batcher, NEW k \in Contract, Each(b, k)
    PROVE  MetersInv'
<1>0. /\ batch[b].at = "each" /\ k \in batch[b].todo /\ invoices' = invoices /\ inputs' = inputs
      /\ batch[b] \in Generating /\ BatchKnows(batch[b]) /\ batch[b].period \in Period
  BY BatchOf DEF Each, BatchKnows
<1>1. ASSUME NEW aborted \in BOOLEAN, batch[b].aborted => aborted,
             Becomes(b, [batch[b] EXCEPT !.todo = @ \ {k}, !.skipped = @ \cup {k}, !.aborted = aborted])
      PROVE  MetersInv'
  <2>1. PICK r : r = [batch[b] EXCEPT !.todo = @ \ {k}, !.skipped = @ \cup {k}, !.aborted = aborted]
    OBVIOUS
  <2>2. /\ r \in Generating /\ r.at = "each" /\ r.period = batch[b].period /\ r.meters = batch[b].meters
        /\ r.used = batch[b].used /\ r.made = batch[b].made /\ r.todo = batch[b].todo \ {k}
        /\ r.skipped = batch[b].skipped \cup {k} /\ (r.aborted <=> aborted)
    BY <1>0, <2>1 DEF Generating
  <2>3. BatchKnows(r)
    BY <1>0, <2>2 DEF BatchKnows
  <2>4. r.at = "each" /\ ~r.aborted => \A i \in r.made : i \in MadeBy(b)
    BY <1>0, <1>1, <2>2 DEF MadeBy
  <2> QED BY <1>0, <1>1, <2>1, <2>2, <2>3, <2>4, BatchStep
<1>2. CASE Becomes(b, [batch[b] EXCEPT !.at = "failed"])
  <2>1. PICK r : r = [batch[b] EXCEPT !.at = "failed"]
    OBVIOUS
  <2>2. /\ r \in Generating /\ r.at = "failed" /\ r.period = batch[b].period /\ r.meters = batch[b].meters
        /\ r.used = batch[b].used /\ r.made = batch[b].made /\ r.todo = batch[b].todo /\ r.skipped = batch[b].skipped
    BY <1>0, <2>1 DEF Generating
  <2>3. BatchKnows(r)
    BY <1>0, <2>2 DEF BatchKnows
  <2> QED BY <1>0, <1>2, <2>1, <2>2, <2>3, BatchStep
<1>3. ASSUME ~batch[b].aborted, ~LacksReading(batch[b], k), ~Held(k, batch[b].period),
             ~Invoiced(k, batch[b].period),
             Becomes(b, [batch[b] EXCEPT !.todo = @ \ {k}, !.made = @ \cup {Invoice(batch[b], k)}])
      PROVE  MetersInv'
  <2>1. PICK i : i = Invoice(batch[b], k)
    OBVIOUS
  <2>2. i \in InvoiceRow /\ Complete(i) /\ i.contract = k /\ i.period = batch[b].period
    BY <1>0, <1>3, <2>1, InvoiceOfBatch
  <2>3. PICK r : r = [batch[b] EXCEPT !.todo = @ \ {k}, !.made = @ \cup {i}]
    OBVIOUS
  <2>4. /\ r \in Generating /\ r.at = "each" /\ r.period = batch[b].period /\ r.meters = batch[b].meters
        /\ r.used = batch[b].used /\ r.made = batch[b].made \cup {i} /\ r.todo = batch[b].todo \ {k}
        /\ r.skipped = batch[b].skipped /\ ~r.aborted
    BY <1>0, <1>3, <2>2, <2>3 DEF Generating
  <2>5. k \notin batch[b].skipped
    BY <1>0 DEF BatchKnows
  <2>6. \A j \in batch[b].made : j.contract # k
    BY <1>0 DEF BatchKnows
  <2>7. BatchKnows(r)
    BY <1>0, <2>2, <2>4, <2>5, <2>6 DEF BatchKnows
  <2>8. /\ \A j \in invoices : Slot(i) # Slot(j)
        /\ \A c \in Batcher : \A j \in MadeBy(c) : Slot(i) # Slot(j)
    BY <1>3, <2>2 DEF Invoiced, Held, Slot, MadeBy
  <2>9. \A j \in batch[b].made : j \in MadeBy(b)
    BY <1>0, <1>3 DEF MadeBy
  <2>10. Becomes(b, r)
    BY <1>3, <2>1, <2>3
  <2> QED BY <1>0, <2>4, <2>7, <2>8, <2>9, <2>10, BatchStep
<1>4. CASE Becomes(b, [batch[b] EXCEPT !.todo = @ \ {k}, !.skipped = @ \cup {k}])
  <2>1. PICK aborted \in BOOLEAN : aborted <=> batch[b].aborted
    BY ZenonT(10)
  <2>2. [batch[b] EXCEPT !.todo = @ \ {k}, !.skipped = @ \cup {k}]
        = [batch[b] EXCEPT !.todo = @ \ {k}, !.skipped = @ \cup {k}, !.aborted = aborted]
    BY <1>0, <2>1 DEF Generating
  <2> QED BY <1>1, <1>4, <2>1, <2>2
<1>5. CASE Becomes(b, [batch[b] EXCEPT !.todo = @ \ {k}, !.skipped = @ \cup {k}, !.aborted = TRUE])
  BY <1>1, <1>5
<1> QED BY <1>2, <1>3, <1>4, <1>5 DEF Each

LEMMA MetersDeadlock ==
    ASSUME MeteringConstants, MetersInv, NEW b \in Batcher, Deadlock(b)
    PROVE  MetersInv'
<1>1. PICK r : r = [batch[b] EXCEPT !.at = "failed", !.aborted = TRUE]
  OBVIOUS
<1>2. /\ r \in Generating /\ r.at = "failed" /\ r.period = batch[b].period /\ r.meters = batch[b].meters
      /\ r.used = batch[b].used /\ r.made = batch[b].made /\ r.todo = batch[b].todo /\ r.skipped = batch[b].skipped
  BY <1>1, BatchOf DEF Generating
<1>3. BatchKnows(r)
  BY <1>2, BatchOf DEF BatchKnows
<1> QED BY <1>1, <1>2, <1>3, BatchStep DEF Deadlock

LEMMA MetersRead ==
    ASSUME MeteringConstants, MetersInv, NEW b \in Batcher, Read(b)
    PROVE  MetersInv'
<1>1. PICK r : r = [NoBatch EXCEPT !.at = "over"]
  OBVIOUS
<1>2. r \in Generating /\ r.at = "over" /\ r.made = {} /\ r.used = {} /\ r.meters = {} /\ r.todo = {}
  BY <1>1 DEF Generating, NoBatch
<1>3. BatchKnows(r)
  BY <1>2 DEF BatchKnows
<1> QED BY <1>1, <1>2, <1>3, BatchStep DEF Read

LEMMA MetersFinish ==
    ASSUME MeteringConstants, MetersInv, NEW b \in Batcher, Finish(b)
    PROVE  MetersInv'
<1>1. PICK kept \in {{}, IF batch[b].aborted THEN {} ELSE batch[b].made} :
         Becomes(b, [batch[b] EXCEPT !.at = "answered", !.kept = kept]) /\ invoices' = invoices \cup kept
  BY DEF Finish
<1>2. PICK r : r = [batch[b] EXCEPT !.at = "answered", !.kept = kept]
  OBVIOUS
<1>3. /\ batch' = [batch EXCEPT ![b] = r] /\ invoices' = invoices \cup kept /\ batch[b].at = "each" /\ inputs' = inputs
      /\ UNCHANGED <<rate, reading, active, saving, grid, had, disturbed>>
  BY <1>1, <1>2 DEF Finish, Becomes
<1>4. kept \subseteq MadeBy(b) /\ kept \subseteq batch[b].made
  BY <1>1, <1>3 DEF MadeBy
<1>5. /\ r \in Generating /\ r.at = "answered" /\ r.period = batch[b].period /\ r.meters = batch[b].meters
      /\ r.used = batch[b].used /\ r.made = batch[b].made /\ r.todo = batch[b].todo /\ r.skipped = batch[b].skipped
  BY <1>2, <1>4, BatchOf DEF Generating
<1>6. BatchKnows(r)
  BY <1>5, BatchOf DEF BatchKnows
<1>7. batch' \in [Batcher -> Generating] /\ batch'[b] = r /\ \A c \in Batcher : c # b => batch'[c] = batch[c]
  BY <1>3, <1>5 DEF MetersInv, BatchesPart
<1>8. \A c \in Batcher : BatchKnows(batch[c])'
  <2> SUFFICES ASSUME NEW c \in Batcher PROVE BatchKnows(batch[c])'
    OBVIOUS
  <2>1. PICK x : x = batch'[c]
    OBVIOUS
  <2>2. BatchKnows(x) /\ x \in Generating
    BY <1>5, <1>6, <1>7, <2>1, BatchOf
  <2>3. BatchKnows(x)'
    BY <1>3, <2>2, BatchStays
  <2> QED BY <2>1, <2>3
<1>9. \A i \in kept : i \in InvoiceRow /\ Complete(i) /\ i.period = batch[b].period
  BY <1>4, BatchOf DEF BatchKnows, Generating
<1>10. \A i \in invoices' : Complete(i)' /\ i \in InvoiceRow
  BY <1>3, <1>9, CompleteStays DEF MetersInv, BatchesPart
<1>11. BatchesPart'
  BY <1>3, <1>7, <1>8, <1>10 DEF MetersInv, BatchesPart
<1>12. MadeBy(b)' = {} /\ \A c \in Batcher : c # b => MadeBy(c)' = MadeBy(c)
  BY <1>5, <1>7 DEF MadeBy
<1>13. SlotsPart'
  <2>1. \A i, j \in kept : Slot(i) = Slot(j) => i = j
    BY <1>4, BatchOf DEF BatchKnows, Slot
  <2>2. \A i \in kept, j \in invoices : Slot(i) # Slot(j)
    BY <1>4 DEF MetersInv, SlotsPart
  <2>3. \A i, j \in invoices : Slot(i) = Slot(j) => i = j
    BY DEF MetersInv, SlotsPart
  <2>4. \A i, j \in invoices' : Slot(i) = Slot(j) => i = j
    BY <1>3, <2>1, <2>2, <2>3
  <2>5. \A c \in Batcher : c # b => \A i \in MadeBy(c), j \in kept : Slot(i) # Slot(j)
    BY <1>4 DEF MetersInv, SlotsPart
  <2>6. \A c \in Batcher : \A i \in MadeBy(c)', j \in invoices' : Slot(i) # Slot(j)
    BY <1>3, <1>12, <2>5 DEF MetersInv, SlotsPart
  <2>7. \A c, d \in Batcher : c # d => \A i \in MadeBy(c)', j \in MadeBy(d)' : Slot(i) # Slot(j)
    BY <1>12 DEF MetersInv, SlotsPart
  <2> QED BY <2>4, <2>6, <2>7 DEF SlotsPart, Slot
<1> QED BY <1>3, <1>11, <1>13, MetersBilling

LEMMA MetersStep == ASSUME MeteringConstants, MetersInv, [MeterNext]_(meterVars) PROVE MetersInv'
<1>1. CASE UNCHANGED meterVars
  BY <1>1, MetersBilling, BatchesStay, SlotsStay DEF meterVars, MetersInv, BatchesPart
<1>2. ASSUME NEW c \in Client, ServeReading(c) \/ SaveAborted(c) \/ Fail(c) PROVE MetersInv'
  BY <1>2, MetersResolve, MetersInsert, MetersLook, MetersRewrite, MetersTell, MetersSaveAborted, MetersFail
  DEF ServeReading
<1>3. ASSUME NEW c \in Client, NEW m \in Meter, NEW p \in Period, NEW v \in Value,
             Post(c, m, p, v) \/ Patch(c, m, p, v)
      PROVE  MetersInv'
  BY <1>3, MetersPost
<1>4. ASSUME NEW m \in Meter, NEW v \in Value, Save(m, v) PROVE MetersInv'
  BY <1>4, MetersSave
<1>5. ASSUME NEW p \in Period, Load(p) \/ ChangePeriod(p) PROVE MetersInv'
  BY <1>5, MetersGrid
<1>6. ASSUME NEW b \in Batcher, BillPeriod(b) PROVE MetersInv'
  BY <1>6, MetersReadInvoices, MetersReadMeters, MetersEach, MetersDeadlock, MetersFinish, MetersRead DEF BillPeriod
<1>7. ASSUME NEW b \in Batcher, NEW p \in Billed, Generate(b, p) PROVE MetersInv'
  BY <1>7, MetersGenerate
<1>8. ASSUME NEW m \in Meter, CreateMeter(m) \/ UpdateMeter(m) PROVE MetersInv'
  BY <1>8, MetersPriced
<1>9. ASSUME NEW k \in Contract, EndContract(k) \/ \E p \in Billed : CreateInvoice(k, p) PROVE MetersInv'
  BY <1>9, MetersEndContract, MetersCreateInvoice
<1>10. ASSUME NEW i \in invoices, VoidInvoice(i) PROVE MetersInv'
  BY <1>10, MetersVoid
<1> QED BY <1>1, <1>2, <1>3, <1>4, <1>5, <1>6, <1>7, <1>8, <1>9, <1>10 DEF MeterNext

LEMMA MetersAlways == ASSUME MeteringConstants PROVE MeterSpec => []MetersInv
BY MetersInit, MetersStep, PTL DEF MeterSpec

(* Every reading is of a meter that is there, no two live invoices share    *)
(* a contract and period, and no contract a batch has billed is also       *)
(* skipped by it or still to do (reading.service.ts, invoice.service.ts).   *)
THEOREM MetersTypeCorrect == MeterSpec => []MeterTypeOK
BY MeteringAssumption, MetersAlways, MetersTypes, PTL

(* What is billed of a meter is the difference of the two values stored     *)
(* with the reading, and no month is counted twice or never, unless the     *)
(* meter was corrected, entered late or raced (resolveValuePrevious).       *)
THEOREM ReadingsKeepAddingUp == MeterSpec => []ReadingsAddUp
BY MeteringAssumption, MetersAlways, ReadingsAdding, PTL

(* An invoice of a batch bills every meter its unit had, once, by a reading *)
(* of its period (findMissingReadingReason, buildBatchItems).              *)
THEOREM InvoicesStayComplete == MeterSpec => []InvoiceIsComplete
BY MeteringAssumption, MetersAlways, InvoicesComplete, PTL

(* What the grid marks as saved was saved, unless the save it was told of   *)
(* last was answered and not kept (readings-grid.tsx).                     *)
THEOREM SavedRowsWereRecorded == MeterSpec => []SavedWasRecorded
BY MeteringAssumption, MetersAlways, SavedRecorded, PTL
=============================================================================
