------------------------- MODULE LineWebhookProofs -------------------------
(***************************************************************************)
(* What the webhook guarantees for any number of events, deliveries,       *)
(* attempts and restarts: what LINE is told 200 for is recorded, an event  *)
(* is queued once, and a final status says what happened.                  *)
(***************************************************************************)
EXTENDS LineWebhook, TLAPS

(* Behind a handler every event is recorded; the event it has committed is *)
(* in the table and has never been queued; nobody else is at that event.   *)
HandlerInv ==
    /\ \A d \in Delivery : post[d] = "none" => nth[d] = 1
    /\ \A d \in Delivery : post[d] \in Handling =>
          \A k \in 1..Len(Batch[d]) : k < nth[d] => row[Batch[d][k]] # "absent"
    /\ \A d \in Delivery : post[d] = "commit" => row[At(d)] = "absent"
    /\ \A d \in Delivery : post[d] = "enqueue" => row[At(d)] # "absent" /\ adds[At(d)] = 0
    /\ \A c, d \in Delivery :
          post[c] = post[d] /\ post[d] \in {"commit", "enqueue"} /\ At(c) = At(d) => c = d
    /\ \A e \in Event : row[e] = "absent" => adds[e] = 0

(* A job that may still run has an attempt left; a job about to mark its   *)
(* row has its reply; a mark that is due was earned.                       *)
JobInv ==
    /\ \A e \in Event : job[e] \notin {"completed", "failed"} => attempts[e] < MaxAttempts
    /\ \A e \in Replyable : job[e] = "mark" => e \in answered
    /\ \A e \in late : attempts[e] = MaxAttempts \/ e \in given
    /\ \A e \in late : job[e] # "none"

WebhookInv ==
    /\ TypeOK /\ HandlerInv /\ JobInv
    /\ AckedIsRecorded /\ QueuedOnce /\ ProcessedWasAnswered /\ FailedWasGivenUp

-----------------------------------------------------------------------------
(* What the steps do to the handlers.                                      *)

LEMMA EventOfHandler ==
  ASSUME TypeOK, NEW d \in Delivery, post[d] \in Handling
  PROVE  At(d) \in Event
BY BatchAssumption DEF TypeOK, At

LEMMA PostEffect ==
  ASSUME TypeOK, NEW d \in Delivery, NEW to, PostGoes(d, to)
  PROVE  /\ post'[d] = to /\ nth' = nth
         /\ \A c \in Delivery \ {d} : post'[c] = post[c]
         /\ DOMAIN post' = Delivery
BY DEF PostGoes, TypeOK

LEMMA NextEffect ==
  ASSUME TypeOK, NEW d \in Delivery, post[d] \in Handling, NextEvent(d)
  PROVE  /\ \A c \in Delivery \ {d} : post'[c] = post[c] /\ nth'[c] = nth[c]
         /\ \/ post'[d] = "precheck" /\ nth'[d] = nth[d] + 1 /\ nth'[d] \in 1..Len(Batch[d])
            \/ post'[d] = "acked" /\ nth'[d] = nth[d] /\ nth[d] = Len(Batch[d])
         /\ post' \in [Delivery -> Handling \cup {"none", "refused", "failed", "acked"}]
         /\ nth' \in [Delivery -> Nat]
         /\ \A c \in Delivery : post'[c] \in Handling => nth'[c] \in 1..Len(Batch[c])
<1>1. nth[d] \in 1..Len(Batch[d]) /\ Len(Batch[d]) \in Nat
  BY BatchAssumption DEF TypeOK
<1> DEFINE Posts == Handling \cup {"none", "refused", "failed", "acked"}
<1>2. post \in [Delivery -> Posts] /\ nth \in [Delivery -> Nat]
  BY DEF TypeOK
<1>3. \A c \in Delivery : post[c] \in Handling => nth[c] \in 1..Len(Batch[c])
  BY DEF TypeOK
<1>4. CASE nth[d] < Len(Batch[d])
  <2>1. post' = [post EXCEPT ![d] = "precheck"] /\ nth' = [nth EXCEPT ![d] = nth[d] + 1]
    BY <1>4, <1>2 DEF NextEvent
  <2>2. nth[d] + 1 \in 1..Len(Batch[d]) /\ nth[d] + 1 \in Nat /\ "precheck" \in Posts
    BY <1>1, <1>4 DEF Handling
  <2> QED BY <2>1, <2>2, <1>2, <1>3
<1>5. CASE ~ nth[d] < Len(Batch[d])
  <2>1. post' = [post EXCEPT ![d] = "acked"] /\ nth' = nth
    BY <1>5 DEF NextEvent, PostGoes
  <2>2. nth[d] = Len(Batch[d]) /\ "acked" \in Posts
    BY <1>1, <1>5
  <2> QED BY <2>1, <2>2, <1>2, <1>3 DEF Handling
<1> QED BY <1>4, <1>5

-----------------------------------------------------------------------------
(* What the steps of the worker do.                                        *)

JobState == Running \cup {"none", "waiting", "orphan", "completed", "failed"}

(* What every step of a job keeps: only its own row, job and attempts      *)
(* change, and a mark that becomes due was earned.                         *)
Works(e) ==
    /\ job' \in [Event -> JobState] /\ attempts' \in [Event -> 0..MaxAttempts]
    /\ stalls' \in [Event -> 0..MaxStalls] /\ lost' \subseteq Event
    /\ answered \subseteq answered' /\ answered' \subseteq Event
    /\ given \subseteq given' /\ given' \subseteq Event /\ late' \subseteq Event
    /\ \A f \in Event \ {e} : job'[f] = job[f] /\ attempts'[f] = attempts[f]
    /\ job[e] # "none" /\ job'[e] # "none"
    /\ job'[e] \notin {"completed", "failed"} => attempts'[e] < MaxAttempts
    /\ attempts'[e] = attempts[e] \/ attempts[e] < MaxAttempts
    /\ job'[e] = "mark" /\ e \in Replyable => e \in answered'
    /\ \A f \in late' : f \in late \/ (f = e /\ (attempts'[e] = MaxAttempts \/ e \in given'))
    /\ row' = row \/ (job[e] = "mark" /\ row' = [row EXCEPT ![e] = "processed"])
    /\ UNCHANGED <<company, handler, adds, crashes>>

(* A job moves on without an error. *)
LEMMA GoesEffect ==
  ASSUME TypeOK, NEW e \in Event, NEW to \in JobState, JobGoes(e, to)
  PROVE  /\ job' \in [Event -> JobState] /\ job'[e] = to
         /\ \A f \in Event \ {e} : job'[f] = job[f]
BY DEF TypeOK, JobState, JobGoes

(* An error costs an attempt; without one left, or if it is permanent, the *)
(* row is to be marked.                                                    *)
LEMMA ThrowEffect ==
  ASSUME TypeOK, NEW e \in Event, attempts[e] < MaxAttempts,
         NEW permanent \in BOOLEAN, Throw(e, permanent)
  PROVE  /\ job' \in [Event -> JobState] /\ job'[e] \in {"waiting", "failed"}
         /\ \A f \in Event \ {e} : job'[f] = job[f] /\ attempts'[f] = attempts[f]
         /\ attempts' \in [Event -> 0..MaxAttempts]
         /\ job'[e] = "waiting" => attempts'[e] < MaxAttempts
         /\ given \subseteq given' /\ given' \subseteq Event /\ late' \subseteq Event
         /\ \A f \in late' : f \in late \/ (f = e /\ (attempts'[e] = MaxAttempts \/ e \in given'))
<1> DEFINE more == attempts[e] + 1 < MaxAttempts
<1>1. /\ attempts' = [attempts EXCEPT ![e] = attempts[e] + 1]
      /\ JobGoes(e, IF more THEN "waiting" ELSE "failed")
      /\ late' = IF permanent \/ ~ more THEN late \cup {e} ELSE late
      /\ given' = IF permanent THEN given \cup {e} ELSE given
  BY DEF Throw, Retry
<1>2. attempts \in [Event -> 0..MaxAttempts] /\ attempts[e] + 1 \in 0..MaxAttempts
  BY LimitsAssumption DEF TypeOK
<1>3. /\ attempts' \in [Event -> 0..MaxAttempts] /\ attempts'[e] = attempts[e] + 1
      /\ \A f \in Event \ {e} : attempts'[f] = attempts[f]
  BY <1>1, <1>2
<1>4. ~ more => attempts'[e] = MaxAttempts
  BY <1>2, <1>3, LimitsAssumption
<1>5. /\ job' \in [Event -> JobState]
      /\ job'[e] = IF more THEN "waiting" ELSE "failed"
      /\ \A f \in Event \ {e} : job'[f] = job[f]
  <2>1. (IF more THEN "waiting" ELSE "failed") \in JobState
    BY DEF JobState
  <2> HIDE DEF more
  <2> QED BY <1>1, <2>1, GoesEffect
<1>6. /\ given \subseteq given' /\ given' \subseteq Event /\ late' \subseteq Event
      /\ \A f \in late' : f \in late \/ (f = e /\ (~ more \/ e \in given'))
  <2> HIDE DEF more
  <2> QED BY <1>1 DEF TypeOK
<1> QED BY <1>3, <1>4, <1>5, <1>6

LEMMA WorkEffect ==
  ASSUME TypeOK, JobInv, NEW e \in Event, Working(e)
  PROVE  Works(e)
<1> USE DEF company, handler, queue, history
<1>1. CASE Take(e)
  <2>1. "hydrate" \in JobState /\ attempts[e] < MaxAttempts /\ JobGoes(e, "hydrate")
    BY <1>1 DEF Take, JobState, Running, JobInv
  <2> QED BY <1>1, <2>1, GoesEffect DEF Take, Works, TypeOK
<1>2. CASE Hydrate(e)
  <2>1. job[e] = "hydrate" /\ attempts[e] < MaxAttempts
    BY <1>2 DEF Hydrate, JobInv
  <2>2. CASE \E permanent \in BOOLEAN : Throw(e, permanent)
    BY <1>2, <2>1, <2>2, ThrowEffect DEF Hydrate, Works, TypeOK
  <2>3. CASE ~ \E permanent \in BOOLEAN : Throw(e, permanent)
    <3>1. PICK to \in {"complete", "reply", "mark"} :
             /\ JobGoes(e, to) /\ (to = "mark" => e \notin Replyable)
             /\ UNCHANGED <<attempts, late, given>>
      BY <1>2, <2>3 DEF Hydrate
    <3>2. to \in JobState
      BY DEF JobState, Running
    <3> QED BY <1>2, <2>1, <3>1, <3>2, GoesEffect DEF Hydrate, Works, TypeOK
  <2> QED BY <2>2, <2>3
<1>3. CASE Reply(e)
  <2>1. job[e] = "reply" /\ attempts[e] < MaxAttempts
    BY <1>3 DEF Reply, JobInv
  <2>2. /\ answered \subseteq answered' /\ answered' \subseteq Event
        /\ UNCHANGED <<company, handler, row, stalls, adds, lost, crashes>>
        /\ \/ Throw(e, FALSE)
           \/ JobGoes(e, "mark") /\ e \in answered' /\ UNCHANGED <<attempts, late, given>>
    BY <1>3 DEF Reply, TypeOK
  <2>3. CASE Throw(e, FALSE)
    BY <2>1, <2>2, <2>3, ThrowEffect DEF Works, TypeOK
  <2>4. CASE JobGoes(e, "mark") /\ e \in answered' /\ UNCHANGED <<attempts, late, given>>
    <3>1. "mark" \in JobState
      BY DEF JobState, Running
    <3> QED BY <2>1, <2>2, <2>4, <3>1, GoesEffect DEF Works, TypeOK
  <2> QED BY <2>2, <2>3, <2>4
<1>4. CASE MarkProcessed(e)
  <2>1. job[e] = "mark" /\ attempts[e] < MaxAttempts
    BY <1>4 DEF MarkProcessed, JobInv
  <2>2. /\ row' = row \/ row' = [row EXCEPT ![e] = "processed"]
        /\ UNCHANGED <<company, handler, stalls, adds, answered, lost, crashes>>
        /\ \/ Throw(e, FALSE)
           \/ JobGoes(e, "complete") /\ UNCHANGED <<attempts, late, given>>
    BY <1>4 DEF MarkProcessed
  <2>3. CASE Throw(e, FALSE)
    BY <2>1, <2>2, <2>3, ThrowEffect DEF Works, TypeOK
  <2>4. CASE JobGoes(e, "complete") /\ UNCHANGED <<attempts, late, given>>
    <3>1. "complete" \in JobState
      BY DEF JobState, Running
    <3> QED BY <2>1, <2>2, <2>4, <3>1, GoesEffect DEF Works, TypeOK
  <2> QED BY <2>2, <2>3, <2>4
<1>5. CASE Complete(e)
  BY <1>5, GoesEffect DEF Complete, Works, JobState, Running, JobInv, TypeOK
<1>6. CASE Stalled(e)
  <2>1. job[e] = "orphan" /\ attempts[e] < MaxAttempts
    BY <1>6 DEF Stalled, JobInv
  <2>2. PICK to \in {"waiting", "failed"} : JobGoes(e, to)
    BY <1>6 DEF Stalled
  <2>3. to \in JobState
    BY DEF JobState
  <2>4. stalls' = stalls \/ (stalls[e] < MaxStalls /\ stalls' = [stalls EXCEPT ![e] = @ + 1])
    BY <1>6 DEF Stalled
  <2>5. stalls \in [Event -> 0..MaxStalls] /\ (stalls[e] < MaxStalls => stalls[e] + 1 \in 0..MaxStalls)
    BY LimitsAssumption DEF TypeOK
  <2>6. stalls' \in [Event -> 0..MaxStalls]
    BY <2>4, <2>5
  <2>7. lost' \subseteq Event
    BY <1>6 DEF Stalled, TypeOK
  <2>8. UNCHANGED <<company, handler, row, attempts, late, adds, answered, given, crashes>>
    BY <1>6 DEF Stalled
  <2> QED BY <2>1, <2>2, <2>3, <2>6, <2>7, <2>8, GoesEffect DEF Works, TypeOK
<1> QED BY <1>1, <1>2, <1>3, <1>4, <1>5, <1>6 DEF Working

-----------------------------------------------------------------------------
(* Types.                                                                  *)

LEMMA TypeStep == TypeOK /\ HandlerInv /\ JobInv /\ [Next]_vars => TypeOK'
<1> SUFFICES ASSUME TypeOK, HandlerInv, JobInv, [Next]_vars PROVE TypeOK'
  OBVIOUS
<1> USE BatchAssumption, ReplyableAssumption, LimitsAssumption
        DEF company, handler, queue, history
<1>1. CASE UNCHANGED vars
  BY <1>1 DEF vars, TypeOK
<1>2. ASSUME NEW d \in Delivery, Receive(d) PROVE TypeOK'
  <2>1. post[d] = "none" /\ nth[d] = 1
    BY <1>2 DEF Receive, HandlerInv
  <2>2. Batch[d] # <<>> => 1 \in 1..Len(Batch[d])
    BY BatchAssumption
  <2>3. PICK to \in {"refused", "acked", "precheck"} :
           PostGoes(d, to) /\ (to = "precheck" => Batch[d] # <<>>)
    BY <1>2 DEF Receive
  <2> QED BY <1>2, <2>1, <2>2, <2>3 DEF Receive, PostGoes, TypeOK, Handling
<1>3. ASSUME NEW d \in Delivery, Precheck(d) PROVE TypeOK'
  <2>1. post[d] \in Handling
    BY <1>3 DEF Precheck, Handling
  <2> QED BY <1>3, <2>1, NextEffect DEF Precheck, PostGoes, TypeOK, Handling
<1>4. ASSUME NEW d \in Delivery, Insert(d) PROVE TypeOK'
  <2>1. post[d] \in Handling
    BY <1>4 DEF Insert, Handling
  <2> QED BY <1>4, <2>1, NextEffect DEF Insert, PostGoes, TypeOK, Handling
<1>5. ASSUME NEW d \in Delivery, Commit(d) PROVE TypeOK'
  <2>1. At(d) \in Event
    BY <1>5, EventOfHandler DEF Commit, Handling
  <2> QED BY <1>5, <2>1 DEF Commit, PostGoes, TypeOK, Handling
<1>6. ASSUME NEW d \in Delivery, Enqueue(d) PROVE TypeOK'
  <2>1. post[d] \in Handling
    BY <1>6 DEF Enqueue, Handling
  <2>2. At(d) \in Event
    BY <2>1, EventOfHandler
  <2>3. adds' = adds \/ adds' = [adds EXCEPT ![At(d)] = adds[At(d)] + 1]
    BY <1>6 DEF Enqueue
  <2>4. adds \in [Event -> Nat] /\ adds[At(d)] + 1 \in Nat
    BY <2>2 DEF TypeOK
  <2>5. adds' \in [Event -> Nat]
    BY <2>3, <2>4
  <2>6. job' \in [Event -> Running \cup {"none", "waiting", "orphan", "completed", "failed"}]
    BY <1>6, <2>2 DEF Enqueue, TypeOK
  <2>7. lost' \subseteq Event
    BY <1>6, <2>2 DEF Enqueue, TypeOK
  <2>8. /\ NextEvent(d)
        /\ UNCHANGED <<company, row, attempts, stalls, late, answered, given, crashes>>
    BY <1>6 DEF Enqueue
  <2> QED BY <2>1, <2>5, <2>8, <2>6, <2>7, NextEffect DEF TypeOK
<1>7. ASSUME NEW d \in Delivery, Fail(d) PROVE TypeOK'
  BY <1>7 DEF Fail, PostGoes, TypeOK, Handling
<1>8. ASSUME NEW e \in Event, Working(e) PROVE TypeOK'
  <2>1. Works(e)
    BY <1>8, WorkEffect
  <2> QED BY <2>1 DEF Works, JobState, TypeOK
<1>9. ASSUME NEW e \in Event, MarkFailed(e) PROVE TypeOK'
  BY <1>9 DEF MarkFailed, TypeOK
<1>10. CASE Upsert \/ Remove \/ SetStatus
  BY <1>10 DEF Upsert, Remove, SetStatus, TypeOK
<1>11. CASE Crash
  <2>1. \A d \in Delivery : post[d] = "enqueue" => At(d) \in Event
    BY EventOfHandler DEF Handling
  <2>2. lost' \subseteq Event
    BY <1>11, <2>1 DEF Crash, TypeOK
  <2> QED BY <1>11, <2>2 DEF Crash, TypeOK, Handling, Running
<1> QED BY <1>1, <1>2, <1>3, <1>4, <1>5, <1>6, <1>7, <1>8, <1>10, <1>11, <1>9 DEF Next, Posting

-----------------------------------------------------------------------------
(* Jobs.                                                                   *)

LEMMA JobStep ==
  TypeOK /\ JobInv /\ ProcessedWasAnswered /\ FailedWasGivenUp /\ [Next]_vars =>
    JobInv' /\ ProcessedWasAnswered' /\ FailedWasGivenUp'
<1> SUFFICES ASSUME TypeOK, JobInv, ProcessedWasAnswered, FailedWasGivenUp, [Next]_vars
             PROVE  JobInv' /\ ProcessedWasAnswered' /\ FailedWasGivenUp'
  OBVIOUS
<1> USE ReplyableAssumption DEF company, handler, queue, history, JobInv, ProcessedWasAnswered, FailedWasGivenUp
<1>1. CASE UNCHANGED <<row, queue, answered, given>>
  BY <1>1
<1>2. ASSUME NEW d \in Delivery, Commit(d)
      PROVE  JobInv' /\ ProcessedWasAnswered' /\ FailedWasGivenUp'
  BY <1>2 DEF Commit, TypeOK
<1>3. ASSUME NEW d \in Delivery, Enqueue(d)
      PROVE  JobInv' /\ ProcessedWasAnswered' /\ FailedWasGivenUp'
  <2>1. \A e \in Event : job'[e] = job[e] \/ (job[e] = "none" /\ job'[e] = "waiting")
    BY <1>3 DEF Enqueue, TypeOK
  <2>2. UNCHANGED <<row, attempts, late, answered, given>>
    BY <1>3 DEF Enqueue
  <2>3. ProcessedWasAnswered' /\ FailedWasGivenUp'
    BY <2>2
  <2>4. \A e \in late' : job'[e] # "none"
    BY <2>1, <2>2 DEF TypeOK
  <2> QED BY <2>1, <2>2, <2>3, <2>4
<1>4. ASSUME NEW e \in Event, Working(e)
      PROVE  JobInv' /\ ProcessedWasAnswered' /\ FailedWasGivenUp'
  <2>1. Works(e)
    BY <1>4, WorkEffect
  <2>2. \A f \in Event : job'[f] \notin {"completed", "failed"} => attempts'[f] < MaxAttempts
    BY <2>1 DEF Works
  <2>3. \A f \in Replyable : job'[f] = "mark" => f \in answered'
    BY <2>1 DEF Works
  <2>4. \A f \in Event : row'[f] = row[f] \/ (f = e /\ job[e] = "mark" /\ row'[f] = "processed")
    BY <2>1 DEF Works, TypeOK
  <2>5. ProcessedWasAnswered'
    BY <2>1, <2>4 DEF Works
  <2>6. \A f \in Event : attempts[f] = MaxAttempts => attempts'[f] = MaxAttempts
    BY <2>1, LimitsAssumption DEF Works
  <2>7. \A f \in late' : attempts'[f] = MaxAttempts \/ f \in given'
    BY <2>1, <2>6 DEF Works, TypeOK
  <2>8. FailedWasGivenUp'
    BY <2>1, <2>4, <2>6 DEF Works
  <2>9. \A f \in late' : job'[f] # "none"
    BY <2>1 DEF Works, TypeOK
  <2> QED BY <2>2, <2>3, <2>7, <2>5, <2>8, <2>9
<1>5. ASSUME NEW e \in Event, MarkFailed(e)
      PROVE  JobInv' /\ ProcessedWasAnswered' /\ FailedWasGivenUp'
  BY <1>5 DEF MarkFailed, TypeOK
<1>6. CASE Crash
  BY <1>6 DEF Crash, TypeOK, Running
<1> QED BY <1>1, <1>2, <1>3, <1>4, <1>5, <1>6
        DEF Next, vars, Posting, Receive, Precheck, Insert, Fail, Upsert, Remove, SetStatus

-----------------------------------------------------------------------------
(* Handlers.                                                               *)

(* Rows that exist stay, and so does what relies on them.                  *)
LEMMA HandlersKept ==
  ASSUME TypeOK, HandlerInv, AckedIsRecorded, QueuedOnce, UNCHANGED <<handler, adds>>,
         \A e \in Event : row'[e] = "absent" <=> row[e] = "absent",
         \A e \in Event : job'[e] # "none" => job[e] # "none"
  PROVE  HandlerInv' /\ AckedIsRecorded' /\ QueuedOnce'
<1>1. UNCHANGED <<post, nth>> /\ \A d \in Delivery : At(d)' = At(d)
  BY DEF handler, At
<1>2. \A d \in Delivery : \A k \in 1..Len(Batch[d]) : Batch[d][k] \in Event
  BY BatchAssumption
<1>3. \A d \in Delivery : post[d] \in Handling => At(d) \in Event
  BY EventOfHandler
<1>4. HandlerInv'
  BY <1>1, <1>2, <1>3 DEF HandlerInv, Handling
<1>5. AckedIsRecorded'
  BY <1>1, <1>2 DEF AckedIsRecorded
<1> QED BY <1>4, <1>5 DEF QueuedOnce

(* The loop leaves an event that is in the table.                          *)
LEMMA LoopKept ==
  ASSUME TypeOK, HandlerInv, AckedIsRecorded, NEW d \in Delivery, post[d] \in Handling,
         row[At(d)] # "absent", UNCHANGED row, NextEvent(d)
  PROVE  /\ \A c \in Delivery : post'[c] = "none" => nth'[c] = 1
         /\ \A c \in Delivery : post'[c] \in Handling =>
               \A k \in 1..Len(Batch[c]) : k < nth'[c] => row'[Batch[c][k]] # "absent"
         /\ AckedIsRecorded'
         /\ \A c \in Delivery \ {d} : post'[c] = post[c] /\ At(c)' = At(c)
         /\ post'[d] \notin {"commit", "enqueue"}
<1>1. /\ \A c \in Delivery \ {d} : post'[c] = post[c] /\ nth'[c] = nth[c]
      /\ \/ post'[d] = "precheck" /\ nth'[d] = nth[d] + 1 /\ nth'[d] \in 1..Len(Batch[d])
         \/ post'[d] = "acked" /\ nth'[d] = nth[d] /\ nth[d] = Len(Batch[d])
  BY NextEffect
<1>2. \A k \in 1..Len(Batch[d]) : k < nth[d] + 1 => row[Batch[d][k]] # "absent"
  <2>1. nth[d] \in Nat
    BY DEF TypeOK
  <2>2. \A k \in 1..Len(Batch[d]) : k < nth[d] + 1 => k < nth[d] \/ k = nth[d]
    BY <2>1, BatchAssumption
  <2> QED BY <2>2 DEF HandlerInv, At
<1>3. AckedIsRecorded'
  <2>1. Len(Batch[d]) \in Nat
    BY BatchAssumption
  <2>2. CASE post'[d] = "acked"
    <3>1. \A k \in 1..Len(Batch[d]) : k < nth[d] + 1
      BY <1>1, <2>1, <2>2
    <3> QED BY <1>1, <1>2, <3>1 DEF AckedIsRecorded
  <2> QED BY <1>1, <2>2 DEF AckedIsRecorded
<1>4. \A c \in Delivery : post'[c] \in Handling =>
         \A k \in 1..Len(Batch[c]) : k < nth'[c] => row'[Batch[c][k]] # "absent"
  BY <1>1, <1>2 DEF HandlerInv, Handling
<1>5. \A c \in Delivery : post'[c] = "none" => nth'[c] = 1
  BY <1>1 DEF HandlerInv
<1> QED BY <1>1, <1>3, <1>4, <1>5 DEF At

LEMMA HandlerStep ==
  WebhookInv /\ [Next]_vars => HandlerInv' /\ AckedIsRecorded' /\ QueuedOnce'
<1> SUFFICES ASSUME TypeOK, HandlerInv, JobInv, AckedIsRecorded, QueuedOnce, [Next]_vars
             PROVE  HandlerInv' /\ AckedIsRecorded' /\ QueuedOnce'
  BY DEF WebhookInv
<1> USE DEF company, handler, queue, history
<1>1. CASE UNCHANGED <<handler, row, job, adds>>
  BY <1>1, HandlersKept
<1>2. ASSUME NEW e \in Event, Working(e) \/ MarkFailed(e)
      PROVE  HandlerInv' /\ AckedIsRecorded' /\ QueuedOnce'
  <2>1. CASE Working(e)
    <3>1. Works(e)
      BY <2>1, WorkEffect
    <3>2. row[e] # "absent"
      BY <3>1 DEF Works, QueuedOnce
    <3>3. \A f \in Event : row'[f] = "absent" <=> row[f] = "absent"
      BY <3>1, <3>2 DEF Works, TypeOK
    <3>4. \A f \in Event : job'[f] # "none" => job[f] # "none"
      BY <3>1 DEF Works
    <3> QED BY <3>1, <3>3, <3>4, HandlersKept DEF Works
  <2>2. CASE MarkFailed(e)
    <3>1. row[e] # "absent"
      BY <2>2 DEF MarkFailed, JobInv, QueuedOnce
    <3>2. \A f \in Event : row'[f] = "absent" <=> row[f] = "absent"
      BY <2>2, <3>1 DEF MarkFailed, TypeOK
    <3> QED BY <2>2, <3>2, HandlersKept DEF MarkFailed
  <2> QED BY <1>2, <2>1, <2>2
<1>3. ASSUME NEW d \in Delivery, post[d] \in Handling, row[At(d)] # "absent",
             NextEvent(d), UNCHANGED <<row, job, adds>>
      PROVE  HandlerInv' /\ AckedIsRecorded' /\ QueuedOnce'
  BY <1>3, LoopKept DEF HandlerInv, QueuedOnce
<1>4. ASSUME NEW d \in Delivery, NEW to \in {"refused", "acked", "precheck", "insert", "commit", "failed"},
             PostGoes(d, to), UNCHANGED <<row, job, adds>>,
             to = "acked" => Len(Batch[d]) = 0,
             to \in Handling => post[d] \in Handling \/ nth[d] = 1,
             to = "commit" =>
               row[At(d)] = "absent" /\ \A c \in Delivery : ~ Holds(c, At(d))
      PROVE  HandlerInv' /\ AckedIsRecorded' /\ QueuedOnce'
  <2>1. /\ post'[d] = to /\ nth' = nth
        /\ \A c \in Delivery \ {d} : post'[c] = post[c]
    BY <1>4, PostEffect
  <2>2. \A c \in Delivery : At(c)' = At(c)
    BY <2>1 DEF At
  <2>3. \A c \in Delivery : post'[c] = "none" => nth'[c] = 1
    BY <2>1 DEF HandlerInv
  <2>4. \A c \in Delivery : post'[c] \in Handling =>
           \A k \in 1..Len(Batch[c]) : k < nth'[c] => row'[Batch[c][k]] # "absent"
    BY <1>4, <2>1 DEF HandlerInv
  <2>5. AckedIsRecorded'
    BY <1>4, <2>1 DEF AckedIsRecorded
  <2>6. \A c \in Delivery : post'[c] = "commit" => row'[At(c)'] = "absent"
    BY <1>4, <2>1, <2>2 DEF HandlerInv
  <2>7. \A c \in Delivery : post'[c] = "enqueue" => row'[At(c)'] # "absent" /\ adds'[At(c)'] = 0
    BY <1>4, <2>1, <2>2 DEF HandlerInv
  <2>8. \A a, b \in Delivery :
           post'[a] = post'[b] /\ post'[b] \in {"commit", "enqueue"} /\ At(a)' = At(b)' => a = b
    BY <1>4, <2>1, <2>2 DEF HandlerInv, Holds
  <2> QED BY <1>4, <2>3, <2>4, <2>5, <2>6, <2>7, <2>8 DEF HandlerInv, QueuedOnce
<1>5. ASSUME NEW d \in Delivery, Receive(d)
      PROVE  HandlerInv' /\ AckedIsRecorded' /\ QueuedOnce'
  <2>1. post[d] = "none" /\ nth[d] = 1
    BY <1>5 DEF Receive, HandlerInv
  <2>2. PICK to \in {"refused", "acked", "precheck"} :
           PostGoes(d, to) /\ (to = "acked" => Len(Batch[d]) = 0)
    BY <1>5, BatchAssumption DEF Receive
  <2> QED BY <1>4, <1>5, <2>1, <2>2 DEF Receive
<1>6. ASSUME NEW d \in Delivery, Precheck(d) \/ Insert(d) \/ Fail(d)
      PROVE  HandlerInv' /\ AckedIsRecorded' /\ QueuedOnce'
  <2>1. post[d] \in Handling /\ UNCHANGED <<row, job, adds>>
    BY <1>6 DEF Precheck, Insert, Fail, Handling
  <2>2. CASE row[At(d)] # "absent" /\ NextEvent(d)
    BY <1>3, <2>1, <2>2
  <2>3. CASE ~ (row[At(d)] # "absent" /\ NextEvent(d))
    <3>1. PICK to \in {"insert", "commit", "failed"} :
             /\ PostGoes(d, to)
             /\ to = "commit" =>
                  row[At(d)] = "absent" /\ \A c \in Delivery : ~ Holds(c, At(d))
      BY <1>6, <2>3 DEF Precheck, Insert, Fail
    <3> QED BY <1>4, <2>1, <3>1
  <2> QED BY <2>2, <2>3
<1>7. ASSUME NEW d \in Delivery, Commit(d)
      PROVE  HandlerInv' /\ AckedIsRecorded' /\ QueuedOnce'
  <2>1. post[d] = "commit" /\ At(d) \in Event /\ row[At(d)] = "absent"
    BY <1>7, EventOfHandler DEF Commit, HandlerInv, Handling
  <2>2. PICK to \in {"enqueue", "failed"} : PostGoes(d, to)
    BY <1>7 DEF Commit
  <2>3. /\ post'[d] = to /\ nth' = nth
        /\ \A c \in Delivery \ {d} : post'[c] = post[c]
    BY <2>2, PostEffect
  <2>4. /\ row' = [row EXCEPT ![At(d)] = "pending"]
        /\ UNCHANGED <<job, adds>>
    BY <1>7 DEF Commit
  <2>5. \A e \in Event : row[e] # "absent" => row'[e] # "absent"
    BY <2>4 DEF TypeOK
  <2>6. \A e \in Event : e # At(d) => row'[e] = row[e]
    BY <2>4 DEF TypeOK
  <2>7. row'[At(d)] = "pending"
    BY <2>1, <2>4 DEF TypeOK
  <2>8. \A c \in Delivery : \A k \in 1..Len(Batch[c]) : Batch[c][k] \in Event
    BY BatchAssumption
  <2>9. \A c \in Delivery : At(c)' = At(c)
    BY <2>3 DEF At
  <2>10. \A c \in Delivery \ {d} : post[c] \in Handling => At(c) \in Event
    BY EventOfHandler
  <2>11. \A c \in Delivery : post'[c] = "none" => nth'[c] = 1
    BY <2>3 DEF HandlerInv
  <2>12. \A c \in Delivery : post'[c] \in Handling =>
            \A k \in 1..Len(Batch[c]) : k < nth'[c] => row'[Batch[c][k]] # "absent"
    BY <2>1, <2>3, <2>5, <2>8 DEF HandlerInv, Handling
  <2>13. AckedIsRecorded'
    BY <2>3, <2>5, <2>8 DEF AckedIsRecorded
  <2>14. \A c \in Delivery : post'[c] = "commit" => row'[At(c)'] = "absent"
    <3>1. \A c \in Delivery \ {d} : post[c] = "commit" => At(c) # At(d)
      BY <2>1 DEF HandlerInv
    <3> QED BY <2>3, <2>6, <2>9, <2>10, <3>1 DEF HandlerInv, Handling
  <2>15. \A c \in Delivery : post'[c] = "enqueue" => row'[At(c)'] # "absent" /\ adds'[At(c)'] = 0
    BY <2>1, <2>3, <2>4, <2>5, <2>7, <2>9, <2>10 DEF HandlerInv, Handling
  <2>16. \A a, b \in Delivery :
            post'[a] = post'[b] /\ post'[b] \in {"commit", "enqueue"} /\ At(a)' = At(b)' => a = b
    BY <2>1, <2>3, <2>9 DEF HandlerInv
  <2>17. \A e \in Event : row'[e] = "absent" => adds'[e] = 0
    BY <2>4, <2>5 DEF HandlerInv
  <2>18. QueuedOnce'
    BY <2>4, <2>5 DEF QueuedOnce
  <2> QED BY <2>11, <2>12, <2>13, <2>14, <2>15, <2>16, <2>17, <2>18 DEF HandlerInv
<1>8. ASSUME NEW d \in Delivery, Enqueue(d)
      PROVE  HandlerInv' /\ AckedIsRecorded' /\ QueuedOnce'
  <2>1. post[d] = "enqueue" /\ post[d] \in Handling /\ At(d) \in Event
    BY <1>8, EventOfHandler DEF Enqueue, Handling
  <2>2. row[At(d)] # "absent" /\ adds[At(d)] = 0
    BY <2>1 DEF HandlerInv
  <2>3. NextEvent(d) /\ UNCHANGED row
    BY <1>8 DEF Enqueue
  <2>4. adds' = adds \/ adds' = [adds EXCEPT ![At(d)] = adds[At(d)] + 1]
    BY <1>8 DEF Enqueue
  <2>5. adds'[At(d)] <= 1 /\ \A e \in Event : e # At(d) => adds'[e] = adds[e]
    BY <2>1, <2>2, <2>4 DEF TypeOK
  <2>6. \A e \in Event : job'[e] # "none" => job[e] # "none" \/ e = At(d)
    BY <1>8 DEF Enqueue, TypeOK
  <2>7. /\ \A c \in Delivery : post'[c] = "none" => nth'[c] = 1
        /\ \A c \in Delivery : post'[c] \in Handling =>
              \A k \in 1..Len(Batch[c]) : k < nth'[c] => row'[Batch[c][k]] # "absent"
        /\ AckedIsRecorded'
        /\ \A c \in Delivery \ {d} : post'[c] = post[c] /\ At(c)' = At(c)
        /\ post'[d] \notin {"commit", "enqueue"}
    BY <2>1, <2>2, <2>3, LoopKept
  <2>8. \A c \in Delivery \ {d} : post[c] = "enqueue" => At(c) # At(d) /\ At(c) \in Event
    BY <2>1, EventOfHandler DEF HandlerInv, Handling
  <2>9. \A c \in Delivery : post'[c] = "enqueue" => row'[At(c)'] # "absent" /\ adds'[At(c)'] = 0
    BY <2>3, <2>5, <2>7, <2>8 DEF HandlerInv
  <2>10. \A c \in Delivery : post'[c] = "commit" => row'[At(c)'] = "absent"
    BY <2>3, <2>7 DEF HandlerInv
  <2>11. \A a, b \in Delivery :
            post'[a] = post'[b] /\ post'[b] \in {"commit", "enqueue"} /\ At(a)' = At(b)' => a = b
    BY <2>7 DEF HandlerInv
  <2>12. \A e \in Event : row'[e] = "absent" => adds'[e] = 0
    BY <2>2, <2>3, <2>5 DEF HandlerInv
  <2>13. QueuedOnce'
    BY <2>2, <2>3, <2>5, <2>6 DEF QueuedOnce
  <2> QED BY <2>7, <2>9, <2>10, <2>11, <2>12, <2>13 DEF HandlerInv
<1>9. CASE Crash
  <2>1. /\ UNCHANGED <<nth, row, adds>>
        /\ \A c \in Delivery : post'[c] = IF post[c] \in Handling THEN "failed" ELSE post[c]
        /\ \A e \in Event : job'[e] # "none" => job[e] # "none"
    BY <1>9 DEF Crash, Running
  <2>2. \A c \in Delivery : post'[c] \notin Handling /\ (post'[c] \in {"acked", "none"} => post[c] = post'[c])
    BY <2>1 DEF Handling
  <2>3. AckedIsRecorded'
    BY <2>1, <2>2 DEF AckedIsRecorded
  <2>4. HandlerInv'
    BY <2>1, <2>2 DEF HandlerInv, Handling
  <2> QED BY <2>1, <2>3, <2>4 DEF QueuedOnce
<1> QED BY <1>1, <1>2, <1>5, <1>6, <1>7, <1>8, <1>9
        DEF Next, vars, Posting, Upsert, Remove, SetStatus

-----------------------------------------------------------------------------
LEMMA WebhookInvariant == Spec => []WebhookInv
<1>1. Init => WebhookInv
  <2> SUFFICES ASSUME Init PROVE WebhookInv
    OBVIOUS
  <2>1. TypeOK
    BY LimitsAssumption DEF Init, TypeOK, Handling
  <2>2. HandlerInv
    BY DEF Init, HandlerInv, Handling
  <2>3. JobInv
    BY LimitsAssumption, ReplyableAssumption DEF Init, JobInv
  <2>4. AckedIsRecorded /\ QueuedOnce /\ ProcessedWasAnswered /\ FailedWasGivenUp
    BY ReplyableAssumption
       DEF Init, AckedIsRecorded, QueuedOnce, ProcessedWasAnswered, FailedWasGivenUp
  <2> QED BY <2>1, <2>2, <2>3, <2>4 DEF WebhookInv
<1>2. WebhookInv /\ [Next]_vars => WebhookInv'
  BY TypeStep, JobStep, HandlerStep DEF WebhookInv
<1> QED BY <1>1, <1>2, PTL DEF Spec

(* Types, for any number of events, deliveries, attempts and restarts.     *)
THEOREM TypeCorrect == Spec => []TypeOK
<1>1. WebhookInv => TypeOK
  BY DEF WebhookInv
<1> QED BY <1>1, WebhookInvariant, PTL

(* Whatever LINE is told 200 for is in webhook_event, although a handler   *)
(* passes over an event that a concurrent delivery is inserting.           *)
THEOREM AckedEventsAreRecorded == Spec => []AckedIsRecorded
<1>1. WebhookInv => AckedIsRecorded
  BY DEF WebhookInv
<1> QED BY <1>1, WebhookInvariant, PTL

(* An event is handed to the queue once at most, however many deliveries   *)
(* of it run at a time.                                                    *)
THEOREM EventsAreQueuedOnce == Spec => []QueuedOnce
<1>1. WebhookInv => QueuedOnce
  BY DEF WebhookInv
<1> QED BY <1>1, WebhookInvariant, PTL

(* A row says processed only of an event LINE answered a reply for, and    *)
(* failed only of one that used up its attempts or could not succeed.      *)
THEOREM FinalStatusIsTrue == Spec => [](ProcessedWasAnswered /\ FailedWasGivenUp)
<1>1. WebhookInv => ProcessedWasAnswered /\ FailedWasGivenUp
  BY DEF WebhookInv
<1> QED BY <1>1, WebhookInvariant, PTL
=============================================================================
