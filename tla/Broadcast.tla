----------------------------- MODULE Broadcast -----------------------------
(***************************************************************************)
(* A LINE broadcast: AnnouncementService.createBroadcast, which inserts an *)
(* announcement and queues one job per recipient inside its transaction,   *)
(* and LineNotificationProcessor, which pushes and counts.  The worker     *)
(* runs in the API process and takes one job at a time.                    *)
(*                                                                         *)
(* An announcement id stands for the POST that would insert it, so its     *)
(* Idempotency-Key and the recipients that POST resolves are constants.    *)
(***************************************************************************)
EXTENDS Integers, FiniteSets

CONSTANTS
    Announcement, \* announcement rows that may come to exist
    KeyOf,        \* announcement.idempotencyKey
    Tenant,
    Recipients,   \* the active, bound tenants that createBroadcast found
    MaxAttempts,  \* attempts BullMQ gives a job that throws
    MaxStalls,    \* times BullMQ re-runs a job whose worker died
    MaxCrashes    \* bound: restarts of the API process

ASSUME RecipientsAssumption == Recipients \in [Announcement -> (SUBSET Tenant) \ {{}}]
ASSUME TenantsAssumption == IsFiniteSet(Tenant)
ASSUME LimitsAssumption ==
    MaxAttempts \in Nat \ {0} /\ MaxStalls \in Nat /\ MaxCrashes \in Nat

VARIABLES
    post,         \* where the POST of an announcement is
    status,       \* committed announcement.status
    delivered,    \* committed announcement.deliveredCount
    failed,       \* committed announcement.failedCount
    job,          \* what has become of the job of each recipient
    attempts,     \* job.attemptsMade
    stalls,       \* job.stalledCounter
    late,         \* jobs whose onFailed listener has yet to count
    pushes,       \* history: messages LINE accepted, per job
    missed,       \* history: announcements that lost a job or a count
    crashes       \* history: restarts so far

announcement == <<status, delivered, failed>>
queue == <<job, attempts, stalls, late>>
history == <<pushes, missed, crashes>>
vars == <<post, announcement, queue, history>>

Job == {j \in Announcement \X Tenant : j[2] \in Recipients[j[1]]}

JobsOf(a) == {j \in Job : j[1] = a}

(* A run of a job: at LINE, or to count what came of it, or to be completed. *)
Running == {"push", "countDelivered", "countFailed", "complete"}

TypeOK ==
    /\ post \in [Announcement -> {"none", "insert", "enqueue", "timedOut",
                                  "created", "replayed", "failed"}]
    /\ status \in [Announcement -> {"absent", "sending", "sent", "failed"}]
    /\ delivered \in [Announcement -> Nat]
    /\ failed \in [Announcement -> Nat]
    /\ job \in [Job -> Running \cup {"none", "lost", "waiting", "orphan", "completed", "failed"}]
    /\ attempts \in [Job -> 0..MaxAttempts]
    /\ stalls \in [Job -> 0..MaxStalls]
    /\ late \subseteq Job
    /\ pushes \in [Job -> Nat]
    /\ missed \subseteq Announcement
    /\ crashes \in 0..MaxCrashes

Init ==
    /\ post = [a \in Announcement |-> "none"]
    /\ status = [a \in Announcement |-> "absent"]
    /\ delivered = [a \in Announcement |-> 0]
    /\ failed = [a \in Announcement |-> 0]
    /\ job = [j \in Job |-> "none"]
    /\ attempts = [j \in Job |-> 0]
    /\ stalls = [j \in Job |-> 0]
    /\ late = {}
    /\ pushes = [j \in Job |-> 0]
    /\ missed = {}
    /\ crashes = 0

-----------------------------------------------------------------------------
(* AnnouncementService.createBroadcast.                                    *)

Twins(a) == {b \in Announcement \ {a} : KeyOf[b] = KeyOf[a]}

HasTwin(a) == \E b \in Twins(a) : status[b] # "absent"

(* The insert waits for the uncommitted row of the same key. *)
KeyUnlocked(a) == \A b \in Twins(a) : post[b] # "enqueue"

PostGoes(a, to) == post' = [post EXCEPT ![a] = to]

(* The pre-check finds the announcement of the key, or nothing. *)
Precheck(a) ==
    /\ post[a] = "none"
    /\ PostGoes(a, IF HasTwin(a) THEN "replayed" ELSE "insert")
    /\ UNCHANGED <<announcement, queue, history>>

(* A mutant: no unique index on (company_id, idempotency_key). *)
InsertUnchecked(a) ==
    /\ post[a] = "insert"
    /\ PostGoes(a, "enqueue")
    /\ UNCHANGED <<announcement, queue, history>>

(* The insert; a duplicate key aborts the transaction, and the look-up of  *)
(* the winner that follows fails in it.                                    *)
Insert(a) ==
    /\ post[a] = "insert"
    /\ KeyUnlocked(a)
    /\ PostGoes(a, IF HasTwin(a) THEN "failed" ELSE "enqueue")
    /\ UNCHANGED <<announcement, queue, history>>

(* NotificationService.enqueueAnnouncementBroadcast: the jobs are added in *)
(* any order, a worker may take one at once, an error of Redis is swallowed. *)
Enqueue(j) ==
    /\ post[j[1]] \in {"enqueue", "timedOut"}
    /\ job[j] = "none"
    /\ \/ job' = [job EXCEPT ![j] = "waiting"] /\ UNCHANGED missed
       \/ job' = [job EXCEPT ![j] = "lost"] /\ missed' = missed \cup {j[1]}
    /\ UNCHANGED <<post, announcement, attempts, stalls, late, pushes, crashes>>

(* The interceptor commits: only now do other transactions see the row. *)
Commit(a) ==
    /\ post[a] = "enqueue"
    /\ \A j \in JobsOf(a) : job[j] # "none"
    /\ PostGoes(a, "created")
    /\ status' = [status EXCEPT ![a] = "sending"]
    /\ UNCHANGED <<delivered, failed, queue, history>>

(* The request fails, or its transaction times out, which does not stop    *)
(* the additions to the queue that are under way.                          *)
Rollback(a) ==
    /\ post[a] \in {"insert", "enqueue"}
    /\ PostGoes(a, IF post[a] = "enqueue" THEN "timedOut" ELSE "failed")
    /\ UNCHANGED <<announcement, queue, history>>

-----------------------------------------------------------------------------
(* LineNotificationProcessor.                                              *)

JobGoes(j, to) == job' = [job EXCEPT ![j] = to]

Idle == \A j \in Job : job[j] \notin Running

Take(j) ==
    /\ Idle
    /\ job[j] = "waiting"
    /\ JobGoes(j, "push")
    /\ UNCHANGED <<post, announcement, attempts, stalls, late, history>>

(* A mutant: an absorbed error of LINE falls through to the success path. *)
SkipAsDelivered(j) ==
    /\ job[j] = "push"
    /\ JobGoes(j, "countDelivered")
    /\ UNCHANGED <<post, announcement, attempts, stalls, late, history>>

(* The recipient is gone, not bound or not active, or the company has no   *)
(* channel: nothing is sent.  LINE's 4xx counts the same.                  *)
Skip(j) ==
    /\ job[j] = "push"
    /\ JobGoes(j, "countFailed")
    /\ UNCHANGED <<post, announcement, attempts, stalls, late, history>>

Accepted(j) == pushes' = [pushes EXCEPT ![j] = @ + 1]

Push(j) ==
    /\ job[j] = "push"
    /\ JobGoes(j, "countDelivered")
    /\ Accepted(j)
    /\ UNCHANGED <<post, announcement, attempts, stalls, late, missed, crashes>>

(* Mutants: onFailed counts every attempt; onFailed does not count.        *)
RetryWhile(j, retries, counts) ==
    /\ job[j] = "push"
    /\ Accepted(j) \/ UNCHANGED pushes
    /\ attempts' = [attempts EXCEPT ![j] = @ + 1]
    /\ JobGoes(j, IF retries THEN "waiting" ELSE "failed")
    /\ late' = IF counts THEN late \cup {j} ELSE late
    /\ UNCHANGED <<post, announcement, stalls, missed, crashes>>

ThrowCountedEachTime(j) == RetryWhile(j, attempts[j] + 1 < MaxAttempts, TRUE)
ThrowUncounted(j) == RetryWhile(j, attempts[j] + 1 < MaxAttempts, FALSE)

(* A look-up throws, LINE answers 5xx, or its answer does not come in time *)
(* although it took the message.  BullMQ retries, or fails the job and     *)
(* calls onFailed, which counts without anybody waiting for it.            *)
Throw(j) ==
    /\ job[j] = "push"
    /\ Accepted(j) \/ UNCHANGED pushes
    /\ attempts' = [attempts EXCEPT ![j] = @ + 1]
    /\ \/ /\ attempts'[j] < MaxAttempts
          /\ JobGoes(j, "waiting")
          /\ UNCHANGED late
       \/ /\ attempts'[j] = MaxAttempts
          /\ JobGoes(j, "failed")
          /\ late' = late \cup {j}
    /\ UNCHANGED <<post, announcement, stalls, missed, crashes>>

(* What the counters, as an increment has left them, make of the status.   *)
StatusAfter(a, d, f) ==
    IF d + f < Cardinality(Recipients[a]) \/ status[a] # "sending" THEN status[a]
    ELSE IF d > 0 THEN "sent" ELSE "failed"

(* recordAnnouncementOutcome, one transaction: the increment locks the row *)
(* until it commits, so the flip belongs to it.  It throws when the row is *)
(* not committed yet or the database fails, and then nothing is counted.   *)
Count(a, d, f) ==
    \/ /\ status[a] # "absent"
       /\ delivered' = [delivered EXCEPT ![a] = @ + d]
       /\ failed' = [failed EXCEPT ![a] = @ + f]
       /\ status' = [status EXCEPT ![a] = StatusAfter(a, delivered[a] + d, failed[a] + f)]
       /\ UNCHANGED missed
    \/ /\ missed' = missed \cup {a}
       /\ UNCHANGED announcement

CountOutcome(j) ==
    /\ \/ job[j] = "countDelivered" /\ Count(j[1], 1, 0)
       \/ job[j] = "countFailed" /\ Count(j[1], 0, 1)
    /\ JobGoes(j, "complete")
    /\ UNCHANGED <<post, attempts, stalls, late, pushes, crashes>>

CountLate(j) ==
    /\ j \in late
    /\ Count(j[1], 0, 1)
    /\ late' = late \ {j}
    /\ UNCHANGED <<post, job, attempts, stalls, pushes, crashes>>

Complete(j) ==
    /\ job[j] = "complete"
    /\ JobGoes(j, "completed")
    /\ UNCHANGED <<post, announcement, attempts, stalls, late, history>>

-----------------------------------------------------------------------------
(* The API process dies and comes back: requests are rolled back, the job  *)
(* in progress is left in Redis, and what onFailed had to count is lost.   *)
Crash ==
    /\ crashes < MaxCrashes
    /\ crashes' = crashes + 1
    /\ post' = [a \in Announcement |->
                  IF post[a] \in {"insert", "enqueue", "timedOut"}
                  THEN "failed" ELSE post[a]]
    /\ job' = [j \in Job |-> IF job[j] \in Running THEN "orphan" ELSE job[j]]
    /\ late' = {}
    /\ missed' = missed \cup {j[1] : j \in late}
    /\ UNCHANGED <<announcement, attempts, stalls, pushes>>

(* BullMQ finds the job stalled and queues it again, or gives it up: its   *)
(* attempts are not used up then, so onFailed does not count it.           *)
Stalled(j) ==
    /\ job[j] = "orphan"
    /\ \/ /\ stalls[j] < MaxStalls
          /\ stalls' = [stalls EXCEPT ![j] = @ + 1]
          /\ JobGoes(j, "waiting")
          /\ UNCHANGED missed
       \/ /\ stalls[j] = MaxStalls
          /\ JobGoes(j, "failed")
          /\ missed' = missed \cup {j[1]}
          /\ UNCHANGED stalls
    /\ UNCHANGED <<post, announcement, attempts, late, pushes, crashes>>

-----------------------------------------------------------------------------
Posting(a) == Precheck(a) \/ Insert(a) \/ Commit(a)

Working(j) ==
    \/ Take(j) \/ Skip(j) \/ Push(j) \/ Throw(j) \/ CountOutcome(j) \/ Complete(j)
    \/ Stalled(j)

Next ==
    \/ \E a \in Announcement : Posting(a) \/ Rollback(a)
    \/ \E j \in Job : Enqueue(j) \/ Working(j) \/ CountLate(j)
    \/ Crash

Spec == Init /\ [][Next]_vars

(* The worker loop takes what is queued and runs it, promises that nobody  *)
(* awaits run too, and BullMQ looks for stalled jobs.  Nothing is assumed  *)
(* of clients or of the choice between answers of LINE.                    *)
Fairness == \A j \in Job : WF_vars(Working(j)) /\ WF_vars(CountLate(j))

FairSpec == Spec /\ Fairness

-----------------------------------------------------------------------------
(* Without a restart of the API, an announcement that has left sending has *)
(* each recipient counted exactly once, and is sent if anybody got it.  A  *)
(* job that is retried, skipped or failed by its listener counts once.     *)
TerminalMeansEveryone ==
    \A a \in Announcement : crashes = 0 /\ status[a] \in {"sent", "failed"} =>
        /\ \A j \in JobsOf(a) : job[j] \in {"complete", "completed", "failed"} /\ j \notin late
        /\ delivered[a] + failed[a] = Cardinality(Recipients[a])
        /\ status[a] = "sent" <=> delivered[a] > 0

(* The messages LINE accepted for an announcement, each by its job and how *)
(* many the job had sent.                                                  *)
Messages(a) == UNION {{j} \X (1 .. pushes[j]) : j \in JobsOf(a)}

(* Whatever is run again after a restart, what is counted as delivered was *)
(* accepted by LINE as often, and sent means that somebody got it.         *)
DeliveredWasPushed ==
    \A a \in Announcement :
        /\ delivered[a] <= Cardinality(Messages(a))
        /\ status[a] = "sent" => delivered[a] > 0

(* line-notification.processor.ts:172-174: the worker that crosses the     *)
(* threshold second, or again after a restart, leaves the status alone.    *)
TerminalIsFinal ==
    [][\A a \in Announcement :
        status[a] \in {"sent", "failed"} => status'[a] = status[a]]_vars

(* announcement.service.ts:112: one key, one broadcast.  Of two POSTs with *)
(* a key that both queued jobs, one was rolled back after it had.          *)
OneBroadcastPerKey ==
    \A a \in Announcement : \A b \in Twins(a) :
        /\ status[a] # "absent" => status[b] = "absent"
        /\ (\E j \in JobsOf(a) : job[j] # "none") /\ (\E j \in JobsOf(b) : job[j] # "none")
               => \E c \in {a, b} : post[c] \in {"failed", "timedOut"}

(* An announcement leaves sending, unless a job or a count was lost on the *)
(* way, or a job was run twice: retries end, and their last failure counts. *)
EveryBroadcastEnds ==
    \A a \in Announcement :
        status[a] = "sending" ~> status[a] \in {"sent", "failed"} \/ a \in missed

(* line-notification.processor.ts:59-60: the job id prevents the worker    *)
(* from ever pushing twice for one recipient and announcement.             *)
PushedAtMostOnce == \A j \in Job : pushes[j] <= 1
=============================================================================
