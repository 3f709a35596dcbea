---------------------------- MODULE LineWebhook ----------------------------
(***************************************************************************)
(* The LINE webhook: LineWebhookService.handleWebhook records each event   *)
(* of a delivery in a transaction of its own and queues a job for it;      *)
(* LineEventProcessor replies and records what became of it.  LINE sends a *)
(* delivery again, perhaps while it is still being handled, until it is    *)
(* answered 200.                                                           *)
(***************************************************************************)
EXTENDS Integers, Sequences, FiniteSets

CONSTANTS
    Event,       \* webhookEventId
    Delivery,    \* POSTs of LINE, redeliveries included
    Batch,       \* the events of a delivery
    Replyable,   \* message and follow events that carry a reply token
    MaxAttempts, \* attempts of a job: 5 in the code
    MaxStalls,   \* times BullMQ re-runs a job whose worker died
    MaxCrashes   \* bound: restarts of the API process

ASSUME BatchAssumption == Batch \in [Delivery -> Seq(Event)]
ASSUME ReplyableAssumption == Replyable \subseteq Event
ASSUME LimitsAssumption ==
    MaxAttempts \in Nat \ {0} /\ MaxStalls \in Nat /\ MaxCrashes \in Nat

VARIABLES
    channel,  \* the company has a LINE channel
    active,   \* the company is active
    post,     \* the next statement of the handler of a delivery
    nth,      \* the event of the batch it is at
    row,      \* committed webhook_event.status
    job,      \* what has become of the job of an event
    attempts, \* job.attemptsMade
    stalls,   \* job.stalledCounter
    late,     \* events whose onFailed listener has yet to mark the row
    adds,     \* history: times a job was handed to BullMQ, per event
    answered, \* history: events LINE took, or refused, a reply for
    given,    \* history: events whose job threw a PermanentJobError
    lost,     \* history: events that lost their job or their final mark
    crashes   \* history: restarts so far

handler == <<post, nth>>
queue == <<job, attempts, stalls, late>>
history == <<adds, answered, given, lost, crashes>>
company == <<channel, active>>
vars == <<company, handler, row, queue, history>>

(* The statements of a run of a job. *)
Running == {"hydrate", "reply", "mark", "complete"}

Handling == {"precheck", "insert", "commit", "enqueue"}

TypeOK ==
    /\ channel \in BOOLEAN /\ active \in BOOLEAN
    /\ post \in [Delivery -> Handling \cup {"none", "refused", "failed", "acked"}]
    /\ nth \in [Delivery -> Nat]
    /\ \A d \in Delivery : post[d] \in Handling => nth[d] \in 1..Len(Batch[d])
    /\ row \in [Event -> {"absent", "pending", "processed", "failed"}]
    /\ job \in [Event -> Running \cup {"none", "waiting", "orphan", "completed", "failed"}]
    /\ attempts \in [Event -> 0..MaxAttempts]
    /\ stalls \in [Event -> 0..MaxStalls]
    /\ late \subseteq Event
    /\ adds \in [Event -> Nat]
    /\ answered \subseteq Event /\ given \subseteq Event /\ lost \subseteq Event
    /\ crashes \in 0..MaxCrashes

Init ==
    /\ channel = TRUE /\ active = TRUE
    /\ post = [d \in Delivery |-> "none"]
    /\ nth = [d \in Delivery |-> 1]
    /\ row = [e \in Event |-> "absent"]
    /\ job = [e \in Event |-> "none"]
    /\ attempts = [e \in Event |-> 0]
    /\ stalls = [e \in Event |-> 0]
    /\ late = {}
    /\ adds = [e \in Event |-> 0]
    /\ answered = {} /\ given = {} /\ lost = {}
    /\ crashes = 0

-----------------------------------------------------------------------------
(* LineWebhookService.                                                     *)

At(d) == Batch[d][nth[d]]

PostGoes(d, to) == post' = [post EXCEPT ![d] = to] /\ UNCHANGED nth

(* The loop of handleWebhook goes on with the next event, or answers 200. *)
NextEvent(d) ==
    IF nth[d] < Len(Batch[d])
    THEN post' = [post EXCEPT ![d] = "precheck"] /\ nth' = [nth EXCEPT ![d] = @ + 1]
    ELSE PostGoes(d, "acked")

(* findByCompanySlugUnscoped: of an active company only; and, for the       *)
(* worker, findByCompanyIdUnscoped, which does not ask for the status.     *)
FoundBySlug == active /\ channel
FoundById == channel

(* 404 without an active channel, 401 or 400 for a body that is not LINE's *)
(* or not understood; an empty batch is the Verify button.                 *)
Receive(d) ==
    /\ post[d] = "none"
    /\ \/ PostGoes(d, "refused")
       \/ /\ FoundBySlug
          /\ PostGoes(d, IF Batch[d] = <<>> THEN "acked" ELSE "precheck")
    /\ UNCHANGED <<company, row, queue, history>>

Precheck(d) ==
    /\ post[d] = "precheck"
    /\ IF row[At(d)] # "absent" THEN NextEvent(d) ELSE PostGoes(d, "insert")
    /\ UNCHANGED <<company, row, queue, history>>

Holds(d, e) == post[d] = "commit" /\ At(d) = e

(* A mutant: no unique index on (company_id, event_id). *)
InsertUnchecked(d) ==
    /\ post[d] = "insert"
    /\ PostGoes(d, "commit")
    /\ UNCHANGED <<company, row, queue, history>>

(* A mutant: ON CONFLICT DO NOTHING against a snapshot, which does not     *)
(* wait for the transaction that holds the index entry.                    *)
InsertWithoutWaiting(d) ==
    /\ post[d] = "insert"
    /\ IF row[At(d)] # "absent" \/ \E c \in Delivery : Holds(c, At(d))
       THEN NextEvent(d) ELSE PostGoes(d, "commit")
    /\ UNCHANGED <<company, row, queue, history>>

(* The insert waits for a transaction that has inserted the same event id. *)
(* Losing to it aborts this transaction, but the violation is caught and   *)
(* nothing else is run in it: the event counts as a duplicate.             *)
Insert(d) ==
    /\ post[d] = "insert"
    /\ \A c \in Delivery : ~ Holds(c, At(d))
    /\ IF row[At(d)] # "absent" THEN NextEvent(d) ELSE PostGoes(d, "commit")
    /\ UNCHANGED <<company, row, queue, history>>

(* The transaction of the event commits; or it has, and the answer is lost, *)
(* which the handler reports as an error.                                  *)
Commit(d) ==
    /\ post[d] = "commit"
    /\ row' = [row EXCEPT ![At(d)] = "pending"]
    /\ \/ PostGoes(d, "enqueue") /\ UNCHANGED lost
       \/ PostGoes(d, "failed") /\ lost' = lost \cup {At(d)}
    /\ UNCHANGED <<company, queue, adds, answered, given, crashes>>

(* queue.add after the commit; an error of Redis is logged and swallowed.  *)
Enqueue(d) ==
    /\ post[d] = "enqueue"
    /\ \/ /\ adds' = [adds EXCEPT ![At(d)] = @ + 1]
          /\ job' = [job EXCEPT ![At(d)] = IF @ = "none" THEN "waiting" ELSE @]
          /\ UNCHANGED lost
       \/ /\ lost' = lost \cup {At(d)}
          /\ UNCHANGED <<adds, job>>
    /\ NextEvent(d)
    /\ UNCHANGED <<company, row, attempts, stalls, late, answered, given, crashes>>

(* A statement throws or the transaction is rolled back: 500, and LINE will *)
(* deliver the batch again.                                                *)
Fail(d) ==
    /\ post[d] \in {"precheck", "insert", "commit"}
    /\ PostGoes(d, "failed")
    /\ UNCHANGED <<company, row, queue, history>>

-----------------------------------------------------------------------------
(* LineEventProcessor; the worker takes one job at a time.                 *)

JobGoes(e, to) == job' = [job EXCEPT ![e] = to]

Take(e) ==
    /\ job[e] = "waiting"
    /\ \A f \in Event : job[f] \notin Running
    /\ JobGoes(e, "hydrate")
    /\ UNCHANGED <<company, handler, row, attempts, stalls, late, history>>

Retry(e, permanent, retries, marks) ==
    /\ attempts' = [attempts EXCEPT ![e] = @ + 1]
    /\ JobGoes(e, IF retries THEN "waiting" ELSE "failed")
    /\ late' = IF marks THEN late \cup {e} ELSE late
    /\ given' = IF permanent THEN given \cup {e} ELSE given

(* A mutant: the listener marks no row. *)
ThrowUnmarked(e, permanent) == Retry(e, permanent, attempts[e] + 1 < MaxAttempts, FALSE)

(* An error of process(): the job is queued again or has failed.  onFailed *)
(* marks the row of a permanent error at once, but only the number of      *)
(* attempts stops BullMQ; nobody waits for the mark.                       *)
Throw(e, permanent) ==
    LET more == attempts[e] + 1 < MaxAttempts
    IN  Retry(e, permanent, more, permanent \/ ~ more)

(* The row is read, then the channel: a processed row is skipped, a company *)
(* without a channel is a permanent error.                                 *)
Hydrate(e) ==
    /\ job[e] = "hydrate"
    /\ \/ /\ row[e] = "processed"
          /\ JobGoes(e, "complete")
          /\ UNCHANGED <<attempts, late, given>>
       \/ /\ row[e] # "processed" /\ FoundById
          /\ JobGoes(e, IF e \in Replyable THEN "reply" ELSE "mark")
          /\ UNCHANGED <<attempts, late, given>>
       \/ row[e] # "processed" /\ ~ FoundById /\ Throw(e, TRUE)
       \/ Throw(e, FALSE)
    /\ UNCHANGED <<company, handler, row, stalls, adds, answered, lost, crashes>>

(* A mutant: tryReply swallows every error of the messaging client. *)
ReplySwallowed(e) ==
    /\ job[e] = "reply"
    /\ JobGoes(e, "mark")
    /\ answered' \in {answered, answered \cup {e}}
    /\ UNCHANGED <<company, handler, row, attempts, stalls, late, adds, given, lost, crashes>>

(* What LineMessagingClient makes of a POST: LINE takes it, or refuses it  *)
(* with a 4xx, a permanent error; a 5xx, a time-out and no connection are  *)
(* transient, also when LINE took the message and only its answer is late. *)
Outcome == {"taken", "refused", "late", "down"}

(* tryReply swallows a permanent error; a transient one is an attempt.     *)
Reply(e) ==
    /\ job[e] = "reply"
    /\ \E outcome \in Outcome :
          /\ answered' = IF outcome = "down" THEN answered ELSE answered \cup {e}
          /\ IF outcome \in {"taken", "refused"}
             THEN JobGoes(e, "mark") /\ UNCHANGED <<attempts, late, given>>
             ELSE Throw(e, FALSE)
    /\ UNCHANGED <<company, handler, row, stalls, adds, lost, crashes>>

(* WebhookEventStateService.markProcessed: an update without a condition on *)
(* the status; its error, also one that follows the commit, is an attempt. *)
MarkProcessed(e) ==
    /\ job[e] = "mark"
    /\ \/ /\ row' = [row EXCEPT ![e] = "processed"]
          /\ JobGoes(e, "complete")
          /\ UNCHANGED <<attempts, late, given>>
       \/ /\ row' \in {row, [row EXCEPT ![e] = "processed"]}
          /\ Throw(e, FALSE)
    /\ UNCHANGED <<company, handler, stalls, adds, answered, lost, crashes>>

Complete(e) ==
    /\ job[e] = "complete"
    /\ JobGoes(e, "completed")
    /\ UNCHANGED <<company, handler, row, attempts, stalls, late, history>>

(* WebhookEventStateService.markFailed swallows its own error. *)
MarkFailed(e) ==
    /\ e \in late
    /\ late' = late \ {e}
    /\ \/ row' = [row EXCEPT ![e] = "failed"] /\ UNCHANGED lost
       \/ lost' = lost \cup {e} /\ UNCHANGED row
    /\ UNCHANGED <<company, handler, job, attempts, stalls, adds, answered, given, crashes>>

-----------------------------------------------------------------------------
(* An admin saves the channel (upsert); an operator removes it, suspends    *)
(* the company or lets it back in the database: the API has no call for it. *)
Upsert == ~ channel /\ channel' = TRUE /\ UNCHANGED <<active, handler, row, queue, history>>
Remove == channel /\ channel' = FALSE /\ UNCHANGED <<active, handler, row, queue, history>>
SetStatus == active' = ~ active /\ UNCHANGED <<channel, handler, row, queue, history>>

(* The API process restarts: handlers and marks under way are gone, the    *)
(* job in progress is left in Redis.                                       *)
Crash ==
    /\ crashes < MaxCrashes
    /\ crashes' = crashes + 1
    /\ post' = [d \in Delivery |-> IF post[d] \in Handling THEN "failed" ELSE post[d]]
    /\ job' = [e \in Event |-> IF job[e] \in Running THEN "orphan" ELSE job[e]]
    /\ late' = {}
    /\ lost' = lost \cup late \cup {At(d) : d \in {c \in Delivery : post[c] = "enqueue"}}
    /\ UNCHANGED <<company, nth, row, attempts, stalls, adds, answered, given>>

(* BullMQ finds the job stalled: it runs again, or is given up, and then   *)
(* onFailed sees attempts that are not used up.                            *)
Stalled(e) ==
    /\ job[e] = "orphan"
    /\ \/ /\ stalls[e] < MaxStalls
          /\ stalls' = [stalls EXCEPT ![e] = @ + 1]
          /\ JobGoes(e, "waiting")
          /\ UNCHANGED lost
       \/ /\ stalls[e] = MaxStalls
          /\ JobGoes(e, "failed")
          /\ lost' = lost \cup {e}
          /\ UNCHANGED stalls
    /\ UNCHANGED <<company, handler, row, attempts, late, adds, answered, given, crashes>>

-----------------------------------------------------------------------------
Posting(d) == Receive(d) \/ Precheck(d) \/ Insert(d) \/ Commit(d) \/ Enqueue(d)

Working(e) ==
    Take(e) \/ Hydrate(e) \/ Reply(e) \/ MarkProcessed(e) \/ Complete(e) \/ Stalled(e)

Next ==
    \/ \E d \in Delivery : Posting(d) \/ Fail(d)
    \/ \E e \in Event : Working(e) \/ MarkFailed(e)
    \/ Upsert \/ Remove \/ SetStatus
    \/ Crash

Spec == Init /\ [][Next]_vars

(* Handlers run on, the worker loop takes and runs what is queued, the     *)
(* listener's promise runs, BullMQ looks for stalled jobs.                 *)
Fairness ==
    /\ \A d \in Delivery : WF_vars(Precheck(d) \/ Insert(d) \/ Commit(d) \/ Enqueue(d))
    /\ \A e \in Event : WF_vars(Working(e)) /\ WF_vars(MarkFailed(e))

FairSpec == Spec /\ Fairness

-----------------------------------------------------------------------------
(* LINE stops delivering what it is told 200 for, so every event of a batch *)
(* that is acknowledged must be recorded, also when another delivery was   *)
(* recording it and might have rolled back.                                *)
AckedIsRecorded ==
    \A d \in Delivery : post[d] = "acked" =>
        \A i \in 1..Len(Batch[d]) : row[Batch[d][i]] # "absent"

(* However often LINE delivers an event, and however its deliveries race,  *)
(* one job at most is queued for it, and none before its row is committed. *)
QueuedOnce ==
    \A e \in Event : adds[e] <= 1 /\ (job[e] # "none" => row[e] # "absent")

(* A row that says processed had its reply taken or refused by LINE: only  *)
(* a permanent error of the client is swallowed.                           *)
ProcessedWasAnswered ==
    \A e \in Replyable : row[e] = "processed" => e \in answered

(* A row that says failed used up its attempts, or met a permanent error.  *)
FailedWasGivenUp ==
    \A e \in Event : row[e] = "failed" => attempts[e] = MaxAttempts \/ e \in given

(* A recorded event reaches a final status, unless its job or its mark was *)
(* lost: no sweep exists that would bring those out of pending.            *)
EveryEventEnds ==
    \A e \in Event : row[e] = "pending" ~> row[e] \in {"processed", "failed"} \/ e \in lost

(* webhook-event-state.service.ts:16-19: the transitions of the status are *)
(* pending to processed and pending to failed.                             *)
StatusMovesOnce ==
    [][\A e \in Event : row[e] \in {"processed", "failed"} => row'[e] = row[e]]_vars
=============================================================================
