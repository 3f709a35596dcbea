-------------------------- MODULE BroadcastProofs --------------------------
(***************************************************************************)
(* What a broadcast guarantees for any number of announcements, recipients *)
(* and attempts: one broadcast per key, and no recipient left out or       *)
(* counted twice as long as the API does not restart.  Then, apart from it *)
(* and under its own assumption, what a walk down a list in pages shows    *)
(* (Listing), announcements among others.                                  *)
(***************************************************************************)
EXTENDS BroadcastInvariant, Listing, FiniteSetTheorems, WellFoundedInduction, TLAPS

LEMMA JobsAre ==
  /\ \A j \in Job : /\ j[1] \in Announcement /\ j[2] \in Recipients[j[1]]
                    /\ j = <<j[1], j[2]>>
  /\ \A a \in Announcement : \A t \in Recipients[a] : <<a, t>> \in Job
<1>1. \A a \in Announcement : Recipients[a] \subseteq Tenant
  BY RecipientsAssumption
<1> QED BY <1>1 DEF Job

LEMMA SettledFinite ==
  ASSUME NEW a \in Announcement
  PROVE  /\ IsFiniteSet(Recipients[a]) /\ Cardinality(Recipients[a]) \in Nat
         /\ IsFiniteSet(Settled(a)) /\ Cardinality(Settled(a)) \in Nat
         /\ Cardinality(Settled(a)) <= Cardinality(Recipients[a])
         /\ Cardinality(Settled(a)) = Cardinality(Recipients[a]) => Settled(a) = Recipients[a]
<1>1. Recipients[a] \in SUBSET Tenant
  BY RecipientsAssumption
<1>2. IsFiniteSet(Recipients[a])
  BY ONLY <1>1, TenantsAssumption, FS_Subset
<1>3. Settled(a) \in SUBSET Recipients[a]
  BY DEF Settled
<1> QED BY <1>2, <1>3, FS_Subset, FS_CardinalityType

-----------------------------------------------------------------------------
(* Types.                                                                  *)

LEMMA CountTyped ==
  ASSUME TypeOK, NEW a \in Announcement, NEW d \in {0, 1}, NEW f \in {0, 1}, Count(a, d, f)
  PROVE  /\ status' \in [Announcement -> {"absent", "sending", "sent", "failed"}]
         /\ delivered' \in [Announcement -> Nat] /\ failed' \in [Announcement -> Nat]
         /\ missed' \subseteq Announcement
<1>1. StatusAfter(a, delivered[a] + d, failed[a] + f) \in {"absent", "sending", "sent", "failed"}
  BY DEF StatusAfter, TypeOK
<1> QED BY <1>1 DEF Count, TypeOK, announcement

LEMMA TypeStep == TypeOK /\ [Next]_vars => TypeOK'
<1> SUFFICES ASSUME TypeOK, [Next]_vars PROVE TypeOK'
  OBVIOUS
<1> USE JobsAre, LimitsAssumption DEF announcement, queue, history, PostGoes, JobGoes, Running
<1>1. CASE UNCHANGED vars
  BY <1>1 DEF vars, TypeOK
<1>2. ASSUME NEW a \in Announcement, Posting(a) \/ Rollback(a) PROVE TypeOK'
  BY <1>2 DEF Posting, Precheck, Insert, Commit, Rollback, TypeOK
<1>3. ASSUME NEW j \in Job, Enqueue(j) PROVE TypeOK'
  BY <1>3 DEF Enqueue, TypeOK
<1>4. ASSUME NEW j \in Job, Working(j) PROVE TypeOK'
  <2>1. CASE Take(j) \/ Skip(j) \/ Complete(j)
    BY <2>1 DEF Take, Skip, Complete, TypeOK
  <2>2. CASE Push(j)
    BY <2>2 DEF Push, Accepted, TypeOK
  <2>3. CASE Throw(j)
    <3>1. pushes' \in [Job -> Nat]
      BY <2>3 DEF Throw, Accepted, TypeOK
    <3>2. attempts'[j] = attempts[j] + 1
      BY <2>3 DEF Throw, TypeOK
    <3>3. attempts' \in [Job -> 0..MaxAttempts]
      BY <2>3, <3>2 DEF Throw, TypeOK
    <3>4. job' \in [Job -> Running \cup {"none", "lost", "waiting", "orphan", "completed", "failed"}]
          /\ late' \subseteq Job
      BY <2>3 DEF Throw, TypeOK
    <3> QED BY <2>3, <3>1, <3>3, <3>4 DEF Throw, TypeOK
  <2>4. CASE CountOutcome(j)
    <3>1. PICK d \in {0, 1}, f \in {0, 1} : Count(j[1], d, f)
      BY <2>4 DEF CountOutcome
    <3>2. /\ status' \in [Announcement -> {"absent", "sending", "sent", "failed"}]
          /\ delivered' \in [Announcement -> Nat] /\ failed' \in [Announcement -> Nat]
          /\ missed' \subseteq Announcement
      BY <3>1, CountTyped
    <3>3. job' = [job EXCEPT ![j] = "complete"]
          /\ UNCHANGED <<post, attempts, stalls, late, pushes, crashes>>
      BY <2>4 DEF CountOutcome
    <3> QED BY <3>2, <3>3 DEF TypeOK
  <2>5. CASE Stalled(j)
    <3>1. stalls' \in [Job -> 0..MaxStalls]
      <4>1. stalls \in [Job -> 0..MaxStalls] /\ stalls[j] \in 0..MaxStalls
        BY DEF TypeOK
      <4>2. CASE stalls[j] < MaxStalls /\ stalls' = [stalls EXCEPT ![j] = @ + 1]
        <5>1. stalls[j] + 1 \in 0..MaxStalls
          BY <4>1, <4>2, LimitsAssumption
        <5> QED BY <4>1, <4>2, <5>1
      <4>3. CASE stalls' = stalls
        BY <4>1, <4>3
      <4> QED BY <2>5, <4>2, <4>3 DEF Stalled
    <3>2. missed' \subseteq Announcement
      BY <2>5 DEF Stalled, TypeOK
    <3>3. job' \in [Job -> Running \cup {"none", "lost", "waiting", "orphan", "completed", "failed"}]
      BY <2>5 DEF Stalled, TypeOK
    <3> QED BY <2>5, <3>1, <3>2, <3>3 DEF Stalled, TypeOK
  <2> QED BY <1>4, <2>1, <2>2, <2>3, <2>4, <2>5 DEF Working
<1>5. ASSUME NEW j \in Job, CountLate(j) PROVE TypeOK'
  BY <1>5, CountTyped DEF CountLate, TypeOK
<1>6. CASE Crash
  BY <1>6 DEF Crash, TypeOK
<1> QED BY <1>1, <1>2, <1>3, <1>4, <1>5, <1>6 DEF Next

LEMMA TypeInvariant == Spec => []TypeOK
<1>1. Init => TypeOK
  BY LimitsAssumption DEF Init, TypeOK
<1> QED BY <1>1, TypeStep, PTL DEF Spec

-----------------------------------------------------------------------------
(* One broadcast per key.                                                  *)

(* Counting may change a status, but not whether the row is there. *)
LEMMA CountKeepsRows ==
  ASSUME TypeOK, NEW a \in Announcement, NEW d, NEW f, Count(a, d, f)
  PROVE  \A b \in Announcement : status'[b] # "absent" <=> status[b] # "absent"
<1>1. status[a] # "absent" => StatusAfter(a, delivered[a] + d, failed[a] + f) # "absent"
  BY DEF StatusAfter
<1> QED BY <1>1 DEF Count, TypeOK, announcement

LEMMA KeyStep == TypeOK /\ KeyInv /\ [Next]_vars => KeyInv'
<1> SUFFICES ASSUME TypeOK, KeyInv, [Next]_vars PROVE KeyInv'
  OBVIOUS
<1> USE JobsAre DEF announcement, queue, history, PostGoes, JobGoes, Running
<1>0. \A a \in Announcement : \A b \in Twins(a) : b \in Announcement /\ a \in Twins(b) /\ a # b
  BY DEF Twins
<1>1. CASE UNCHANGED vars
  BY <1>1 DEF vars, KeyInv
<1>2. ASSUME NEW a \in Announcement, Precheck(a) PROVE KeyInv'
  BY <1>0, <1>2 DEF Precheck, KeyInv, TypeOK
<1>3. ASSUME NEW a \in Announcement, Insert(a) PROVE KeyInv'
  <2>1. post[a] = "insert" /\ KeyUnlocked(a)
        /\ post' = [post EXCEPT ![a] = IF HasTwin(a) THEN "failed" ELSE "enqueue"]
        /\ status' = status /\ job' = job
    BY <1>3 DEF Insert
  <2>2. post'[a] = "enqueue" => \A b \in Twins(a) : post[b] \notin {"enqueue", "created"}
    BY <1>0, <2>1 DEF KeyUnlocked, HasTwin, KeyInv, TypeOK
  <2> HIDE DEF PostGoes
  <2>3. post'[a] \in {"failed", "enqueue"} /\ \A b \in Announcement \ {a} : post'[b] = post[b]
    BY <2>1 DEF TypeOK
  <2> QED BY <1>0, <2>1, <2>2, <2>3 DEF KeyInv
<1>4. ASSUME NEW a \in Announcement, Commit(a) PROVE KeyInv'
  BY <1>0, <1>4 DEF Commit, KeyInv, TypeOK
<1>5. ASSUME NEW a \in Announcement, Rollback(a) PROVE KeyInv'
  BY <1>0, <1>5 DEF Rollback, KeyInv, TypeOK
<1>6. ASSUME NEW j \in Job, Enqueue(j) PROVE KeyInv'
  BY <1>6 DEF Enqueue, KeyInv, TypeOK
<1>7. ASSUME NEW j \in Job, Working(j) PROVE KeyInv'
  <2>1. post' = post
    BY <1>7 DEF Working, Take, Skip, Push, Throw, CountOutcome, Complete, Stalled
  <2>2. job[j] # "none" /\ \A i \in Job \ {j} : job'[i] = job[i]
    BY <1>7 DEF Working, Take, Skip, Push, Throw, CountOutcome, Complete, Stalled, TypeOK
  <2>3. \A b \in Announcement : status'[b] # "absent" <=> status[b] # "absent"
    <3>1. CASE CountOutcome(j)
      BY <3>1, CountKeepsRows DEF CountOutcome
    <3>2. CASE ~ CountOutcome(j)
      BY <1>7, <3>2 DEF Working, Take, Skip, Push, Throw, Complete, Stalled
    <3> QED BY <3>1, <3>2
  <2> QED BY <2>1, <2>2, <2>3 DEF KeyInv
<1>8. ASSUME NEW j \in Job, CountLate(j) PROVE KeyInv'
  <2>1. \A b \in Announcement : status'[b] # "absent" <=> status[b] # "absent"
    BY <1>8, CountKeepsRows DEF CountLate
  <2> QED BY <1>8, <2>1 DEF CountLate, KeyInv
<1>9. CASE Crash
  BY <1>0, <1>9 DEF Crash, KeyInv, TypeOK
<1> QED BY <1>1, <1>2, <1>3, <1>4, <1>5, <1>6, <1>7, <1>8, <1>9 DEF Next, Posting

(* One key, one broadcast, although two POSTs may both pass the pre-check, *)
(* jobs leave before the commit and the process may die at any statement.  *)
THEOREM OneBroadcast == Spec => []OneBroadcastPerKey
<1>1. Init => KeyInv
  BY DEF Init, KeyInv
<1>2. TypeOK /\ KeyInv => OneBroadcastPerKey
  <2> SUFFICES ASSUME TypeOK, KeyInv, NEW a \in Announcement, NEW b \in Twins(a)
               PROVE  /\ status[a] # "absent" => status[b] = "absent"
                      /\ (\E j \in JobsOf(a) : job[j] # "none") /\ (\E j \in JobsOf(b) : job[j] # "none")
                             => \E c \in {a, b} : post[c] \in {"failed", "timedOut"}
    BY DEF OneBroadcastPerKey
  <2>1. b \in Announcement
    BY DEF Twins
  <2>2. ASSUME NEW c \in Announcement, \E j \in JobsOf(c) : job[j] # "none"
        PROVE  post[c] \in {"enqueue", "timedOut", "created", "failed"}
    BY <2>2 DEF JobsOf, KeyInv, TypeOK
  <2> QED BY <2>1, <2>2 DEF KeyInv
<1> QED BY <1>1, <1>2, KeyStep, TypeInvariant, PTL DEF Spec

-----------------------------------------------------------------------------
(* Without a restart, everybody is counted once.                           *)

(* A step that counts nothing and settles whom it likes. *)
LEMMA SettledKept ==
  ASSUME TypeOK, TypeOK', CountInv, crashes = 0, crashes' = 0,
         delivered' = delivered, failed' = failed,
         \A a \in Announcement : status'[a] \in {"sent", "failed"} => status'[a] = status[a],
         \A j \in Job : job'[j] # "orphan",
         \A j \in late' : job'[j] = "failed",
         \A a \in Announcement : Settled(a) \subseteq Settled(a)'
  PROVE  CountInv'
<1>1. ASSUME NEW a \in Announcement
      PROVE  delivered[a] + failed[a] <= Cardinality(Settled(a)')
  <2>1. IsFiniteSet(Settled(a)') /\ Cardinality(Settled(a)') \in Nat
    <3>1. Recipients[a] \in SUBSET Tenant
      BY RecipientsAssumption
    <3>2. Settled(a)' \in SUBSET Tenant
      BY <3>1 DEF Settled
    <3> QED BY ONLY <3>2, TenantsAssumption, FS_Subset, FS_CardinalityType
  <2>2. Cardinality(Settled(a)) <= Cardinality(Settled(a)')
    BY <2>1, FS_Subset
  <2>3. delivered[a] + failed[a] <= Cardinality(Settled(a))
    BY DEF CountInv
  <2>4. delivered[a] \in Nat /\ failed[a] \in Nat /\ Cardinality(Settled(a)) \in Nat
    BY SettledFinite DEF TypeOK
  <2> QED BY <2>1, <2>2, <2>3, <2>4
<1> QED BY <1>1 DEF CountInv

(* A step that counts one outcome and settles its recipient. *)
LEMMA SettledCounted ==
  ASSUME TypeOK, CountInv, crashes = 0, crashes' = 0, NEW j \in Job,
         j[2] \notin Settled(j[1]),
         Settled(j[1])' = Settled(j[1]) \cup {j[2]},
         \A a \in Announcement \ {j[1]} : Settled(a)' = Settled(a),
         NEW d \in {0, 1}, NEW f \in {0, 1}, d + f = 1, status[j[1]] # "absent",
         delivered' = [delivered EXCEPT ![j[1]] = @ + d],
         failed' = [failed EXCEPT ![j[1]] = @ + f],
         status' = [status EXCEPT ![j[1]] = StatusAfter(j[1], delivered[j[1]] + d, failed[j[1]] + f)],
         \A i \in Job : job'[i] # "orphan",
         \A i \in late' : job'[i] = "failed"
  PROVE  CountInv'
<1> DEFINE a == j[1]
           n == Cardinality(Recipients[a])
<1>0. a \in Announcement /\ j[2] \in Recipients[a]
  BY JobsAre
<1>1. delivered[a] \in Nat /\ failed[a] \in Nat
  BY <1>0 DEF TypeOK
<1>2. n \in Nat /\ IsFiniteSet(Settled(a)) /\ Cardinality(Settled(a)) \in Nat
      /\ Cardinality(Settled(a)) < n
  BY <1>0, SettledFinite
<1>3. Cardinality(Settled(a)') = Cardinality(Settled(a)) + 1
  BY <1>2, FS_AddElement
<1>4. delivered[a] + failed[a] <= Cardinality(Settled(a))
  BY <1>0 DEF CountInv
<1>5. status[a] = "sending"
  BY <1>0, <1>1, <1>2, <1>4 DEF CountInv, TypeOK
<1>6. /\ delivered'[a] = delivered[a] + d /\ failed'[a] = failed[a] + f
      /\ status'[a] = StatusAfter(a, delivered[a] + d, failed[a] + f)
      /\ \A b \in Announcement \ {a} :
            delivered'[b] = delivered[b] /\ failed'[b] = failed[b] /\ status'[b] = status[b]
  BY <1>0 DEF TypeOK
<1>7. delivered'[a] + failed'[a] <= Cardinality(Settled(a)')
  BY <1>1, <1>2, <1>3, <1>4, <1>6
<1>8. status'[a] \in {"sent", "failed"} =>
         /\ delivered'[a] + failed'[a] >= n
         /\ status'[a] = "sent" <=> delivered'[a] > 0
  BY <1>1, <1>2, <1>5, <1>6 DEF StatusAfter
<1>9. ASSUME NEW b \in Announcement
      PROVE  /\ delivered'[b] + failed'[b] <= Cardinality(Settled(b)')
             /\ status'[b] \in {"sent", "failed"} =>
                   /\ delivered'[b] + failed'[b] >= Cardinality(Recipients[b])
                   /\ status'[b] = "sent" <=> delivered'[b] > 0
  <2>1. CASE b = a
    BY <1>7, <1>8, <2>1
  <2>2. CASE b # a
    BY <1>6, <2>2 DEF CountInv
  <2> QED BY <2>1, <2>2
<1> QED BY <1>9 DEF CountInv

(* Nothing but Settled's own jobs decides what is settled of an announcement. *)
LEMMA SettledBy ==
  ASSUME NEW j \in Job,
         \A i \in Job \ {j} : job'[i] = job[i] /\ (i \in late' <=> i \in late)
  PROVE  /\ \A a \in Announcement \ {j[1]} : Settled(a)' = Settled(a)
         /\ \A t \in Recipients[j[1]] \ {j[2]} : t \in Settled(j[1])' <=> t \in Settled(j[1])
<1>1. ASSUME NEW a \in Announcement, NEW t \in Recipients[a], a # j[1] \/ t # j[2]
      PROVE  t \in Settled(a)' <=> t \in Settled(a)
  <2>1. <<a, t>> \in Job \ {j}
    BY <1>1, JobsAre
  <2> QED BY <1>1, <2>1 DEF Settled
<1>2. \A a \in Announcement : Settled(a) \subseteq Recipients[a] /\ Settled(a)' \subseteq Recipients[a]
  BY DEF Settled
<1> QED BY <1>1, <1>2, JobsAre

(* Either Count counts, or it changes no row. *)
LEMMA CountSettles ==
  ASSUME TypeOK, TypeOK', CountInv, crashes = 0, crashes' = 0, NEW j \in Job,
         j[2] \notin Settled(j[1]), j[2] \in Settled(j[1])',
         \A i \in Job \ {j} : job'[i] = job[i] /\ (i \in late' <=> i \in late),
         NEW d \in {0, 1}, NEW f \in {0, 1}, d + f = 1, Count(j[1], d, f),
         job'[j] # "orphan", j \in late' => job'[j] = "failed"
  PROVE  CountInv'
<1>1. j[1] \in Announcement /\ j[2] \in Recipients[j[1]]
  BY JobsAre
<1>2. /\ \A a \in Announcement \ {j[1]} : Settled(a)' = Settled(a)
      /\ \A t \in Recipients[j[1]] \ {j[2]} : t \in Settled(j[1])' <=> t \in Settled(j[1])
  BY SettledBy
<1>3. Settled(j[1]) \subseteq Recipients[j[1]] /\ Settled(j[1])' \subseteq Recipients[j[1]]
  BY DEF Settled
<1>4. Settled(j[1])' = Settled(j[1]) \cup {j[2]}
  BY <1>2, <1>3
<1>5. \A i \in Job : job'[i] # "orphan"
  BY DEF CountInv
<1>6. \A i \in late' : job'[i] = "failed"
  BY DEF CountInv, TypeOK
<1>7. CASE UNCHANGED announcement
  <2>1. \A a \in Announcement : Settled(a) \subseteq Settled(a)'
    BY <1>1, <1>2, <1>4
  <2> QED BY <1>5, <1>6, <1>7, <2>1, SettledKept DEF announcement
<1>8. CASE ~ UNCHANGED announcement
  <2>1. /\ status[j[1]] # "absent"
        /\ delivered' = [delivered EXCEPT ![j[1]] = @ + d]
        /\ failed' = [failed EXCEPT ![j[1]] = @ + f]
        /\ status' = [status EXCEPT ![j[1]] =
                         StatusAfter(j[1], delivered[j[1]] + d, failed[j[1]] + f)]
    BY <1>8 DEF Count
  <2> QED BY <1>2, <1>4, <1>5, <1>6, <2>1, SettledCounted
<1> QED BY <1>7, <1>8

LEMMA CountStep == TypeOK /\ TypeOK' /\ CountInv /\ KeyInv /\ [Next]_vars => CountInv'
<1> SUFFICES ASSUME TypeOK, TypeOK', CountInv, KeyInv, [Next]_vars, crashes' = 0
             PROVE  CountInv'
  BY DEF CountInv
<1>0. crashes = 0
  <2>1. CASE Crash
    BY <2>1 DEF Crash, TypeOK
  <2>2. CASE ~ Crash
    BY <2>2 DEF Next, vars, announcement, queue, history, Posting, Precheck, Insert, Commit, Rollback,
                Enqueue, Working, Take, Skip, Push, Throw, CountOutcome, Complete, Stalled, CountLate
  <2> QED BY <2>1, <2>2
<1>1. (\A i \in Job : job[i] # "orphan") /\ (\A i \in late : job[i] = "failed") /\ late \subseteq Job
  BY <1>0 DEF CountInv, TypeOK
<1>2. ASSUME UNCHANGED <<delivered, failed, job, late>>,
             \A a \in Announcement : status'[a] \in {"sent", "failed"} => status'[a] = status[a]
      PROVE  CountInv'
  <2>1. \A a \in Announcement : Settled(a)' = Settled(a)
    BY <1>2 DEF Settled
  <2> QED BY <1>0, <1>1, <1>2, <2>1, SettledKept
<1>3. CASE UNCHANGED vars
  BY <1>2, <1>3 DEF vars, announcement, queue
<1>4. ASSUME NEW a \in Announcement, Posting(a) \/ Rollback(a) PROVE CountInv'
  <2>1. UNCHANGED <<delivered, failed, job, late>>
    BY <1>4 DEF Posting, Precheck, Insert, Commit, Rollback, announcement, queue
  <2>2. \A b \in Announcement : status'[b] \in {"sent", "failed"} => status'[b] = status[b]
    BY <1>4 DEF Posting, Precheck, Insert, Commit, Rollback, announcement, TypeOK
  <2> QED BY <1>2, <2>1, <2>2
<1>5. ASSUME NEW j \in Job, UNCHANGED announcement, UNCHANGED late,
             \A i \in Job \ {j} : job'[i] = job[i], job'[j] # "orphan", j \notin late,
             j[2] \in Settled(j[1]) => j[2] \in Settled(j[1])'
      PROVE  CountInv'
  <2>1. /\ \A a \in Announcement \ {j[1]} : Settled(a)' = Settled(a)
        /\ \A t \in Recipients[j[1]] \ {j[2]} : t \in Settled(j[1])' <=> t \in Settled(j[1])
    BY <1>5, SettledBy
  <2>2. Settled(j[1]) \subseteq Recipients[j[1]]
    BY DEF Settled
  <2>3. \A a \in Announcement : Settled(a) \subseteq Settled(a)'
    BY <1>5, <2>1, <2>2
  <2>4. (\A i \in Job : job'[i] # "orphan") /\ (\A i \in late' : job'[i] = "failed")
    BY <1>1, <1>5
  <2> QED BY <1>0, <1>5, <2>3, <2>4, SettledKept DEF announcement
<1>6. ASSUME NEW j \in Job, Enqueue(j) \/ Take(j) \/ Skip(j) \/ Push(j) \/ Complete(j)
      PROVE  CountInv'
  <2>1. /\ UNCHANGED announcement /\ UNCHANGED late
        /\ \A i \in Job \ {j} : job'[i] = job[i]
        /\ job'[j] # "orphan" /\ j \notin late
    BY <1>1, <1>6 DEF Enqueue, Take, Skip, Push, Complete, JobGoes, TypeOK
  <2>2. (job[j] = "complete" /\ job'[j] = "completed") \/ job[j] \in {"none", "waiting", "push"}
    BY <1>6 DEF Enqueue, Take, Skip, Push, Complete, JobGoes, TypeOK
  <2>3. j[2] \in Settled(j[1]) => j[2] \in Settled(j[1])'
    BY <2>2, JobsAre DEF Settled
  <2> QED BY <1>5, <2>1, <2>3
<1>7. ASSUME NEW j \in Job, Throw(j) PROVE CountInv'
  <2>1. UNCHANGED announcement /\ job[j] = "push" /\ \A i \in Job \ {j} : job'[i] = job[i]
    BY <1>7 DEF Throw, JobGoes, TypeOK
  <2>2. \/ job'[j] = "waiting" /\ late' = late
        \/ job'[j] = "failed" /\ late' = late \cup {j}
    BY <1>7 DEF Throw, JobGoes, TypeOK
  <2>3. /\ \A a \in Announcement \ {j[1]} : Settled(a)' = Settled(a)
        /\ \A t \in Recipients[j[1]] \ {j[2]} : t \in Settled(j[1])' <=> t \in Settled(j[1])
    BY <2>1, <2>2, SettledBy
  <2>4. j[2] \notin Settled(j[1]) /\ Settled(j[1]) \subseteq Recipients[j[1]]
    BY <2>1, JobsAre DEF Settled
  <2>5. \A a \in Announcement : Settled(a) \subseteq Settled(a)'
    BY <2>3, <2>4
  <2>6. (\A i \in Job : job'[i] # "orphan") /\ (\A i \in late' : job'[i] = "failed")
    BY <1>1, <2>1, <2>2
  <2> QED BY <1>0, <2>1, <2>5, <2>6, SettledKept DEF announcement
<1>8. ASSUME NEW j \in Job, CountOutcome(j) PROVE CountInv'
  <2>1. /\ job[j] \in {"countDelivered", "countFailed"} /\ job'[j] = "complete" /\ late' = late
        /\ \A i \in Job \ {j} : job'[i] = job[i]
    BY <1>8 DEF CountOutcome, JobGoes, TypeOK
  <2>2. j[2] \notin Settled(j[1]) /\ j[2] \in Settled(j[1])' /\ j \notin late
    BY <1>1, <2>1, JobsAre DEF Settled
  <2>3. PICK d \in {0, 1}, f \in {0, 1} : d + f = 1 /\ Count(j[1], d, f)
    BY <1>8 DEF CountOutcome
  <2> QED BY <1>0, <2>1, <2>2, <2>3, CountSettles
<1>9. ASSUME NEW j \in Job, CountLate(j) PROVE CountInv'
  <2>1. j \in late /\ job[j] = "failed" /\ job' = job /\ late' = late \ {j}
    BY <1>1, <1>9 DEF CountLate
  <2>2. j[2] \notin Settled(j[1]) /\ j[2] \in Settled(j[1])'
    BY <2>1, JobsAre DEF Settled
  <2>3. Count(j[1], 0, 1)
    BY <1>9 DEF CountLate
  <2> QED BY <1>0, <2>1, <2>2, <2>3, CountSettles
<1>10. \A j \in Job : ~ Stalled(j)
  BY <1>1 DEF Stalled
<1>11. ~ Crash
  BY DEF Crash, TypeOK
<1> QED BY <1>3, <1>4, <1>6, <1>7, <1>8, <1>9, <1>10, <1>11 DEF Next, Working

(* An announcement that has left sending has counted every recipient once, *)
(* and is sent if and only if somebody got it, whatever was retried, lost  *)
(* or counted by nobody's await, as long as the API does not restart.      *)
THEOREM EveryoneCountedOnce == Spec => []TerminalMeansEveryone
<1>1. Init => KeyInv /\ CountInv
  <2> SUFFICES ASSUME Init PROVE KeyInv /\ CountInv
    OBVIOUS
  <2>1. \A a \in Announcement : Cardinality(Settled(a)) \in Nat
    BY SettledFinite
  <2> QED BY <2>1 DEF Init, KeyInv, CountInv
<1>2. TypeOK /\ CountInv => TerminalMeansEveryone
  <2> SUFFICES ASSUME TypeOK, CountInv, crashes = 0, NEW a \in Announcement,
                      status[a] \in {"sent", "failed"}
               PROVE  /\ \A j \in JobsOf(a) :
                             job[j] \in {"complete", "completed", "failed"} /\ j \notin late
                      /\ delivered[a] + failed[a] = Cardinality(Recipients[a])
                      /\ status[a] = "sent" <=> delivered[a] > 0
    BY DEF TerminalMeansEveryone
  <2>1. /\ delivered[a] + failed[a] = Cardinality(Recipients[a])
        /\ Settled(a) = Recipients[a]
    BY SettledFinite DEF CountInv, TypeOK
  <2>2. ASSUME NEW j \in JobsOf(a)
        PROVE  job[j] \in {"complete", "completed", "failed"} /\ j \notin late
    <3>1. j \in Job /\ j[2] \in Settled(a) /\ j = <<a, j[2]>>
      BY <2>1, JobsAre DEF JobsOf
    <3> QED BY <3>1 DEF Settled, CountInv
  <2> QED BY <2>1, <2>2 DEF CountInv
<1> QED BY <1>1, <1>2, KeyStep, CountStep, TypeInvariant, PTL DEF Spec

(* The conditional update: a terminal status is final even if the worker   *)
(* counts a recipient again after a restart.                               *)
THEOREM TerminalStays == Spec => TerminalIsFinal
<1>1. TypeOK /\ KeyInv /\ [Next]_vars =>
         [\A a \in Announcement : status[a] \in {"sent", "failed"} => status'[a] = status[a]]_vars
  <2> SUFFICES ASSUME TypeOK, KeyInv, [Next]_vars, NEW a \in Announcement,
                      status[a] \in {"sent", "failed"}
               PROVE  status'[a] = status[a]
    OBVIOUS
  <2>1. ASSUME NEW b \in Announcement, NEW d, NEW f, Count(b, d, f)
        PROVE  status'[a] = status[a]
    BY <2>1 DEF Count, StatusAfter, announcement, TypeOK
  <2>2. ASSUME NEW b \in Announcement, Posting(b) \/ Rollback(b) PROVE status'[a] = status[a]
    BY <2>2 DEF Posting, Precheck, Insert, Commit, Rollback, announcement, KeyInv, TypeOK
  <2>3. ASSUME NEW j \in Job, Enqueue(j) \/ Working(j) \/ CountLate(j)
        PROVE  status'[a] = status[a]
    <3>1. CASE CountOutcome(j) \/ CountLate(j)
      BY <2>1, <3>1, JobsAre DEF CountOutcome, CountLate
    <3>2. CASE ~ (CountOutcome(j) \/ CountLate(j))
      BY <2>3, <3>2 DEF Enqueue, Working, Take, Skip, Push, Throw, Complete, Stalled, announcement
    <3> QED BY <3>1, <3>2
  <2> QED BY <2>2, <2>3 DEF Next, Crash, vars, announcement
<1>2. Init => KeyInv
  BY DEF Init, KeyInv
<1> QED BY <1>1, <1>2, KeyStep, TypeInvariant, PTL DEF Spec, TerminalIsFinal

-----------------------------------------------------------------------------
(* What was counted as delivered.                                          *)

LEMMA MessagesAre ==
  ASSUME NEW a \in Announcement, NEW m
  PROVE  m \in Messages(a) <=> \E j \in JobsOf(a) : \E n \in 1 .. pushes[j] : m = <<j, n>>
BY DEF Messages

(* A message more is one of its announcement that was not there.           *)
LEMMA OneMore ==
  ASSUME TypeOK, NEW j \in Job, Accepted(j), NEW a \in Announcement, IsFiniteSet(Messages(a))
  PROVE  /\ IsFiniteSet(Messages(a)')
         /\ Cardinality(Messages(a)') = IF a = j[1] THEN Cardinality(Messages(a)) + 1
                                        ELSE Cardinality(Messages(a))
<1> DEFINE m == <<j, pushes[j] + 1>>
<1>1. /\ pushes[j] \in Nat /\ pushes'[j] = pushes[j] + 1
      /\ \A i \in Job \ {j} : pushes'[i] = pushes[i]
  BY DEF Accepted, TypeOK
<1>2. m \notin Messages(a)
  BY <1>1, MessagesAre
<1>3. CASE a = j[1]
  <2>1. ASSUME NEW x PROVE x \in Messages(a)' <=> x \in Messages(a) \cup {m}
    <3>1. x \in Messages(a)' <=> \E i \in JobsOf(a) : \E n \in 1 .. pushes'[i] : x = <<i, n>>
      BY DEF Messages, JobsOf
    <3>2. j \in JobsOf(a) /\ JobsOf(a) \subseteq Job
      BY <1>3 DEF JobsOf
    <3>3. ASSUME NEW n PROVE n \in 1 .. pushes'[j] <=> n \in 1 .. pushes[j] \/ n = pushes[j] + 1
      BY <1>1
    <3> QED BY <1>1, <3>1, <3>2, <3>3, MessagesAre
  <2>2. Messages(a)' = Messages(a) \cup {m}
    BY <2>1
  <2> HIDE DEF m
  <2>3. /\ IsFiniteSet(Messages(a) \cup {m})
        /\ Cardinality(Messages(a) \cup {m}) = Cardinality(Messages(a)) + 1
    BY <1>2, FS_AddElement
  <2> QED BY <1>3, <2>2, <2>3
<1>4. CASE a # j[1]
  <2>1. \A i \in JobsOf(a) : pushes'[i] = pushes[i]
    BY <1>1, <1>4 DEF JobsOf
  <2>2. Messages(a)' = Messages(a)
    BY <2>1 DEF Messages, JobsOf
  <2> QED BY <1>4, <2>2
<1> QED BY <1>3, <1>4

LEMMA CountStays ==
  ASSUME TypeOK, NEW a \in Announcement
  PROVE  IsFiniteSet(Messages(a)) => Cardinality(Messages(a)) \in Nat
BY FS_CardinalityType

(* A step that pushes nothing and counts nothing as delivered.             *)
LEMMA NoneDelivered ==
  ASSUME TypeOK, DeliveredInv, UNCHANGED <<delivered, pushes>>,
         \A i, j \in Job : job'[i] \in Running /\ job'[j] \in Running => i = j,
         \A j \in Job : job'[j] = "countDelivered" => job[j] = "countDelivered",
         \A a \in Announcement : status'[a] = "sent" => status[a] = "sent" \/ delivered[a] > 0
  PROVE  DeliveredInv'
<1>1. ASSUME NEW a \in Announcement PROVE Messages(a)' = Messages(a)
  BY DEF Messages, JobsOf
<1>2. \A j \in Job : j[1] \in Announcement
  BY JobsAre
<1> QED BY <1>1, <1>2 DEF DeliveredInv, DeliveredWasPushed

LEMMA DeliveredStep == TypeOK /\ DeliveredInv /\ [Next]_vars => DeliveredInv'
<1> SUFFICES ASSUME TypeOK, DeliveredInv, [Next]_vars PROVE DeliveredInv'
  OBVIOUS
<1> USE JobsAre DEF announcement, queue, history, PostGoes, JobGoes
<1>1. CASE UNCHANGED vars
  BY <1>1, NoneDelivered DEF vars, DeliveredInv, Running
<1>2. ASSUME NEW a \in Announcement, Posting(a) \/ Rollback(a) PROVE DeliveredInv'
  <2>1. UNCHANGED <<delivered, pushes, job>>
    BY <1>2 DEF Posting, Precheck, Insert, Commit, Rollback
  <2>2. \A b \in Announcement : status'[b] = "sent" => status[b] = "sent"
    BY <1>2 DEF Posting, Precheck, Insert, Commit, Rollback, TypeOK
  <2> QED BY <2>1, <2>2, NoneDelivered DEF DeliveredInv
<1>3. ASSUME NEW j \in Job, Enqueue(j) \/ Take(j) \/ Skip(j) \/ Complete(j) \/ Stalled(j) PROVE DeliveredInv'
  <2>1. UNCHANGED <<delivered, pushes, status>>
    BY <1>3 DEF Enqueue, Take, Skip, Complete, Stalled
  <2>2. /\ \A i \in Job \ {j} : job'[i] = job[i]
        /\ job'[j] # "countDelivered"
        /\ job'[j] \in Running => job[j] \in Running \/ Idle
    BY <1>3 DEF Enqueue, Take, Skip, Complete, Stalled, TypeOK, Running
  <2>3. \A i, k \in Job : job'[i] \in Running /\ job'[k] \in Running => i = k
    BY <2>2 DEF DeliveredInv, Idle
  <2> QED BY <2>1, <2>2, <2>3, NoneDelivered
<1>4. ASSUME NEW j \in Job, Push(j) \/ Throw(j) PROVE DeliveredInv'
  <2>1. /\ job[j] = "push" /\ UNCHANGED <<delivered, status>>
        /\ \A i \in Job \ {j} : job'[i] = job[i]
        /\ Accepted(j) \/ UNCHANGED pushes
        /\ job'[j] = "countDelivered" => Accepted(j)
    BY <1>4 DEF Push, Throw, TypeOK
  <2>2. \A i, k \in Job : job'[i] \in Running /\ job'[k] \in Running => i = k
    BY <2>1 DEF DeliveredInv, Running
  <2>3. CASE UNCHANGED pushes /\ ~Accepted(j)
    BY <2>1, <2>2, <2>3, NoneDelivered
  <2>4. CASE Accepted(j)
    <3>1. ASSUME NEW a \in Announcement
          PROVE  /\ IsFiniteSet(Messages(a)')
                 /\ Cardinality(Messages(a)') = IF a = j[1] THEN Cardinality(Messages(a)) + 1
                                                ELSE Cardinality(Messages(a))
                 /\ Cardinality(Messages(a)) \in Nat /\ delivered[a] \in Nat
                 /\ delivered[a] <= Cardinality(Messages(a))
      BY <2>4, OneMore, CountStays DEF DeliveredInv, DeliveredWasPushed, TypeOK
    <3>2. ASSUME NEW a \in Announcement
          PROVE  delivered'[a] <= Cardinality(Messages(a)')
      BY <2>1, <3>1
    <3>3. DeliveredWasPushed'
      BY <2>1, <3>2 DEF DeliveredInv, DeliveredWasPushed
    <3>4. ASSUME NEW i \in Job, job'[i] = "countDelivered"
          PROVE  i = j
      BY <2>1, <3>4 DEF DeliveredInv, Running
    <3>5. ASSUME NEW i \in Job, job'[i] = "countDelivered"
          PROVE  delivered'[i[1]] < Cardinality(Messages(i[1])')
      BY <2>1, <3>1, <3>4, <3>5
    <3> QED BY <2>2, <3>1, <3>3, <3>5 DEF DeliveredInv, Running
  <2> QED BY <2>1, <2>3, <2>4
<1>5. ASSUME NEW j \in Job, CountOutcome(j) PROVE DeliveredInv'
  <2>1. /\ job[j] \in {"countDelivered", "countFailed"} /\ UNCHANGED pushes
        /\ \A i \in Job : job'[i] = IF i = j THEN "complete" ELSE job[i]
    BY <1>5 DEF CountOutcome, TypeOK
  <2>2. \A i, k \in Job : job'[i] \in Running /\ job'[k] \in Running => i = k
    BY <2>1 DEF DeliveredInv, Running
  <2>3. \A i \in Job : job'[i] # "countDelivered"
    BY <2>1 DEF DeliveredInv, Running
  <2>4. ASSUME NEW a \in Announcement PROVE Messages(a)' = Messages(a)
    BY <2>1 DEF Messages, JobsOf
  <2>5. ASSUME NEW a \in Announcement
        PROVE  /\ delivered'[a] <= Cardinality(Messages(a))
               /\ status'[a] = "sent" => delivered'[a] > 0
    <3>1. /\ delivered[a] \in Nat /\ delivered[a] <= Cardinality(Messages(a))
          /\ Cardinality(Messages(a)) \in Nat /\ (status[a] = "sent" => delivered[a] > 0)
          /\ job[j] = "countDelivered" /\ a = j[1] => delivered[a] < Cardinality(Messages(a))
      BY CountStays DEF DeliveredInv, DeliveredWasPushed, TypeOK
    <3>2. CASE job[j] = "countDelivered" /\ Count(j[1], 1, 0)
      BY <3>1, <3>2 DEF Count, StatusAfter, TypeOK
    <3>3. CASE job[j] = "countFailed" /\ Count(j[1], 0, 1)
      BY <3>1, <3>3 DEF Count, StatusAfter, TypeOK
    <3> QED BY <1>5, <3>2, <3>3 DEF CountOutcome
  <2> QED BY <2>2, <2>3, <2>4, <2>5 DEF DeliveredInv, DeliveredWasPushed
<1>6. ASSUME NEW j \in Job, CountLate(j) PROVE DeliveredInv'
  <2>1. Count(j[1], 0, 1) /\ UNCHANGED <<job, pushes>>
    BY <1>6 DEF CountLate
  <2>2. delivered' = delivered
    BY <2>1 DEF Count, TypeOK
  <2>3. ASSUME NEW a \in Announcement, status'[a] = "sent" PROVE status[a] = "sent" \/ delivered[a] > 0
    BY <2>1, <2>3 DEF Count, StatusAfter, TypeOK
  <2> QED BY <2>1, <2>2, <2>3, NoneDelivered DEF DeliveredInv
<1>7. CASE Crash
  <2>1. /\ UNCHANGED <<delivered, pushes, status>>
        /\ \A i \in Job : job'[i] = job[i] \/ job'[i] = "orphan"
    BY <1>7 DEF Crash
  <2>2. \A i \in Job : job'[i] \in Running => job[i] \in Running
    BY <2>1 DEF Running
  <2> QED BY <2>1, <2>2, NoneDelivered DEF DeliveredInv
<1> QED BY <1>1, <1>2, <1>3, <1>4, <1>5, <1>6, <1>7 DEF Next, Working

(* Whatever is run again after a restart, or whose answer came too late: a *)
(* delivery that is counted is a message LINE took, and an announcement    *)
(* that says it was sent reached somebody.                                 *)
THEOREM CountedWasDelivered == Spec => []DeliveredWasPushed
<1>1. Init => DeliveredInv
  <2> SUFFICES ASSUME Init PROVE DeliveredInv
    OBVIOUS
  <2>1. ASSUME NEW a \in Announcement PROVE Messages(a) = {}
    BY DEF Init, Messages, JobsOf
  <2>2. IsFiniteSet({}) /\ Cardinality({}) = 0
    BY FS_EmptySet
  <2>3. \A a \in Announcement : delivered[a] = 0 /\ status[a] = "absent"
    BY DEF Init
  <2>4. \A j \in Job : job[j] = "none"
    BY DEF Init
  <2> QED BY <2>1, <2>2, <2>3, <2>4 DEF DeliveredInv, DeliveredWasPushed, Running
<1>2. DeliveredInv => DeliveredWasPushed
  BY DEF DeliveredInv
<1> QED BY <1>1, <1>2, DeliveredStep, TypeInvariant, PTL DEF Spec

-----------------------------------------------------------------------------
(* A set of naturals that is not empty has a least member.                *)
Smaller == {ss \in Nat \X Nat : ss[1] < ss[2]}

LEMMA SmallerIsWellFounded == IsWellFoundedOn(Smaller, Nat)
<1>1. Smaller = OpToRel(<, Nat)
  BY Zenon DEF OpToRel, Smaller
<1> QED BY <1>1, NatLessThanWellFounded, Zenon

LEMMA NatMin ==
    ASSUME NEW S \in SUBSET Nat, S # {}
    PROVE  \E x \in S : \A y \in S : x <= y
<1>2. PICK x \in S : \A y \in S : ~(<<y, x>> \in Smaller)
  BY SmallerIsWellFounded, WFMin
<1>3. ASSUME NEW y \in S PROVE x <= y
  <2>1. ~(y < x)
    BY <1>2 DEF Smaller
  <2> QED BY <2>1
<1> QED BY <1>3

-----------------------------------------------------------------------------
(***************************************************************************)
(* Lists.  A walk loses no row and repeats none because its cursor splits  *)
(* the rows: those shown are not after it, those that match and were not   *)
(* shown are.                                                              *)
(***************************************************************************)
ShownAreBefore ==
    /\ shown \subseteq There
    /\ walk.at = "open" => \A i \in shown : ~After(i, walk.after)

RestIsAfter ==
    /\ walk.at = "closed" => still = {}
    /\ walk.at # "closed" => \A i \in still : rows[i] # None /\ Where(walk.asked, rows[i])
    /\ walk.at # "closed" /\ Widens(walk.asked) =>
          /\ \A c \in page.sends : \/ walk.filter[c] = walk.asked[c]
                                   \/ walk.filter[c] = Any /\ page.unset = Any
          /\ \A i \in still \ shown : walk.at = "open" /\ After(i, walk.after)

ListsInv == ListTypeOK /\ ShownAreBefore /\ RestIsAfter /\ NothingTwice

(* The rows of a table have a last one in the order of the lists.          *)
LEMMA LastRow ==
    ASSUME ListingConstants, ListTypeOK,
           NEW items \in SUBSET There, items # {}
    PROVE  /\ Last(items) \in items
           /\ \A j \in items \ {Last(items)} :
                 After(Last(items), CursorOf(j))
<1> DEFINE Made == {rows[i].made : i \in items}
<1>1. items \subseteq Id /\ Id \subseteq Nat /\ \A i \in items : rows[i].made \in Nat
  BY DEF There, ListTypeOK, ListingConstants, Row
<1>2. Made \in SUBSET Nat /\ Made # {}
  BY <1>1
<1> HIDE DEF Made
<1>3. PICK m \in Made : \A y \in Made : m <= y
  BY <1>2, NatMin
<1> DEFINE Oldest == {i \in items : rows[i].made = m}
<1>4. Oldest \in SUBSET Nat /\ Oldest # {}
  BY <1>1, <1>3 DEF Made
<1>5. PICK b \in Oldest : \A y \in Oldest : b <= y
  <2> HIDE DEF Oldest
  <2> QED BY <1>4, NatMin
<1>6. b \in items /\ \A j \in items \ {b} : After(b, CursorOf(j))
  <2> SUFFICES ASSUME NEW j \in items \ {b}
               PROVE  After(b, CursorOf(j))
    BY <1>5
  <2>1. m <= rows[j].made
    BY <1>3 DEF Made
  <2>2. CASE rows[j].made = m
    BY <2>2, <1>1, <1>5 DEF After, CursorOf
  <2>3. CASE rows[j].made # m
    BY <2>1, <2>3, <1>1, <1>2, <1>3, <1>5 DEF After, CursorOf
  <2> QED BY <2>2, <2>3
<1> QED BY <1>6 DEF Last

(* What a page is made of: no row it holds is after its cursor, and every  *)
(* row that was found and does not fit is.                                 *)
LEMMA PageSplits ==
    ASSUME ListingConstants, ListTypeOK,
           NEW found \in SUBSET There, NEW limit \in Limit,
           NEW items \in SUBSET found, FirstOf(items, found, limit)
    PROVE  /\ NextCursor(items, found) = None <=> items = found
           /\ items # found =>
                 /\ NextCursor(items, found) \in Cursor
                 /\ \E i \in items : NextCursor(items, found) = CursorOf(i)
                 /\ \A i \in items : ~After(i, NextCursor(items, found))
                 /\ \A i \in found \ items : After(i, NextCursor(items, found))
<1>1. CASE items = found
  BY <1>1 DEF NextCursor
<1>2. CASE items # found
  <2> DEFINE last == Last(items)
  <2>1. IsFiniteSet(found) /\ found \subseteq Id /\ Id \subseteq Nat
    <3>1. IsFiniteSet(Id) /\ Id \subseteq Nat
      BY DEF ListingConstants
    <3>2. found \subseteq Id
      BY DEF There
    <3> QED BY <3>1, <3>2, FS_Subset
  <2>2. items # {}
    <3>1. SUFFICES ASSUME items = {} PROVE FALSE
      OBVIOUS
    <3>2. Cardinality(items) = 0
      BY <3>1, FS_EmptySet
    <3>3. Cardinality(found) # 0 /\ limit # 0
      BY <2>1, <1>2, <3>1, FS_EmptySet DEF ListingConstants
    <3>4. Cardinality(items) = IF Cardinality(found) <= limit THEN Cardinality(found) ELSE limit
      BY DEF FirstOf
    <3> QED BY <3>2, <3>3, <3>4
  <2>3. /\ last \in items
        /\ \A j \in items \ {last} : After(last, CursorOf(j))
    BY <2>2, LastRow
  <2>4. \A i \in found : rows[i].made \in Time /\ rows[i].made \in Nat
    BY DEF There, ListTypeOK, ListingConstants, Row
  <2>5. NextCursor(items, found) = CursorOf(last)
    BY <1>2 DEF NextCursor
  <2>6. CursorOf(last) \in Cursor
    BY <2>1, <2>3, <2>4 DEF CursorOf, Cursor
  <2>7. \A i \in items : ~After(i, CursorOf(last))
    <3> SUFFICES ASSUME NEW i \in items, After(i, CursorOf(last)) PROVE FALSE
      OBVIOUS
    <3> HIDE DEF last
    <3>1. /\ i \in Nat /\ last \in Nat
          /\ rows[i].made \in Nat /\ rows[last].made \in Nat
      BY <2>1, <2>3, <2>4
    <3>2. CASE i = last
      BY <3>1, <3>2 DEF CursorOf, After
    <3>3. CASE i # last
      BY <2>3, <3>1, <3>3 DEF CursorOf, After
    <3> QED BY <3>2, <3>3
  <2>8. \A i \in found \ items : After(i, CursorOf(last))
    BY <2>3 DEF FirstOf
  <2>10. last \in items
    BY <2>3
  <2> HIDE DEF last
  <2>9. CursorOf(last) # None
    BY <2>6 DEF ListingConstants, Cursor
  <2> QED BY <1>2, <2>5, <2>6, <2>7, <2>8, <2>9, <2>10
<1> QED BY <1>1, <1>2
-----------------------------------------------------------------------------
LEMMA ListsInit == ASSUME ListingConstants, ListInit PROVE ListsInv
BY DEF ListingConstants, ListInit, Closed, ListsInv, ListTypeOK, ShownAreBefore,
       RestIsAfter, NothingTwice, There

LEMMA CarriedTyped ==
    ASSUME ListingConstants, page \in Page, NEW f \in Filters
    PROVE  Carried(f) \in Filters
<1>1. /\ page.unset \in Value \cup {Any}
      /\ page.unset # Any => page.sends \cap Dates = {}
  BY DEF ListingConstants
<1>2. /\ f \in [page.sends -> Value \cup Time \cup {Any}]
      /\ \A c \in page.sends : f[c] \in (IF c \in Dates THEN Time ELSE Value) \cup {Any}
  BY DEF Filters
<1>3. \A c \in page.sends :
         Carried(f)[c] \in (IF c \in Dates THEN Time ELSE Value) \cup {Any}
  BY <1>1, <1>2 DEF Carried
<1>4. Carried(f) \in [page.sends -> Value \cup Time \cup {Any}]
  BY <1>3 DEF Carried
<1> QED BY <1>3, <1>4 DEF Filters

(* What reading a page does, first or next.                                *)
LEMMA ReadStep ==
    ASSUME ListingConstants, ListTypeOK,
           NEW asked \in Filters, NEW f \in Filters,
           NEW cursor, NEW limit \in Limit, NEW before \in SUBSET Id,
           Read(asked, f, cursor, limit, before), UNCHANGED <<page, rows>>
    PROVE  \E items \in SUBSET Found(f, cursor) :
              /\ shown' = before \cup items /\ twice' = twice \cup (before \cap items)
              /\ walk'.asked = asked /\ walk'.filter = f /\ walk'.at \in {"open", "end"}
              /\ walk'.at = "end" => items = Found(f, cursor)
              /\ walk'.at = "open" =>
                    /\ walk'.after \in Cursor
                    /\ \E i \in items : walk'.after = CursorOf(i)
                    /\ \A i \in items : ~After(i, walk'.after)
                    /\ \A i \in Found(f, cursor) \ items : After(i, walk'.after)
<1> DEFINE found == Found(f, cursor)
<1>1. PICK items \in SUBSET found :
         /\ FirstOf(items, found, limit)
         /\ walk' = [at |-> IF NextCursor(items, found) = None THEN "end" ELSE "open",
                     asked |-> asked, filter |-> f, after |-> NextCursor(items, found)]
         /\ shown' = before \cup items
         /\ twice' = twice \cup (before \cap items)
  BY DEF Read
<1>2. found \in SUBSET There
  BY DEF Found
<1> HIDE DEF found
<1>3. /\ NextCursor(items, found) = None <=> items = found
      /\ items # found =>
            /\ NextCursor(items, found) \in Cursor
            /\ \E i \in items : NextCursor(items, found) = CursorOf(i)
            /\ \A i \in items : ~After(i, NextCursor(items, found))
            /\ \A i \in found \ items : After(i, NextCursor(items, found))
  BY <1>1, <1>2, PageSplits
<1>4. /\ walk'.asked = asked /\ walk'.filter = f
      /\ walk'.at = IF items = found THEN "end" ELSE "open"
      /\ walk'.after = NextCursor(items, found)
  BY <1>1, <1>3
<1>5. /\ shown' = before \cup items /\ twice' = twice \cup (before \cap items)
      /\ walk'.asked = asked /\ walk'.filter = f /\ walk'.at \in {"open", "end"}
      /\ walk'.at = "end" => items = found
      /\ walk'.at = "open" =>
            /\ walk'.after \in Cursor
            /\ \E i \in items : walk'.after = CursorOf(i)
            /\ \A i \in items : ~After(i, walk'.after)
            /\ \A i \in found \ items : After(i, walk'.after)
  BY <1>1, <1>3, <1>4
<1> QED BY <1>5 DEF found

LEMMA ListsOpen ==
    ASSUME ListingConstants, ListsInv,
           NEW f, NEW limit \in Limit, Open(f, limit)
    PROVE  ListsInv'
<1>1. f \in Filters /\ Read(f, f, None, limit, {}) /\ still' = Found(f, None)
      /\ page' = page /\ rows' = rows /\ writes' = writes
  BY DEF Open
<1>2. PICK items \in SUBSET Found(f, None) :
         /\ shown' = {} \cup items /\ twice' = twice \cup ({} \cap items)
         /\ walk'.asked = f /\ walk'.filter = f /\ walk'.at \in {"open", "end"}
         /\ walk'.at = "end" => items = Found(f, None)
         /\ walk'.at = "open" =>
               /\ walk'.after \in Cursor
               /\ \E i \in items : walk'.after = CursorOf(i)
               /\ \A i \in items : ~After(i, walk'.after)
               /\ \A i \in Found(f, None) \ items : After(i, walk'.after)
  <2>1. ListTypeOK /\ {} \in SUBSET Id
    BY DEF ListsInv
  <2> QED BY ONLY ListingConstants, <1>1, <2>1, ReadStep
<1>3. Found(f, None) \subseteq There /\ There \subseteq Id
  BY DEF Found, There
<1>4. ListTypeOK'
  BY <1>1, <1>2, <1>3 DEF ListsInv, ListTypeOK, Filters, NothingTwice
<1>5. ShownAreBefore'
  BY <1>1, <1>2, <1>3 DEF ShownAreBefore, There, After
<1>6. RestIsAfter'
  BY <1>1, <1>2 DEF RestIsAfter, Found, There, Where, Kept, After
<1>7. NothingTwice'
  BY <1>2 DEF ListsInv, NothingTwice
<1> QED BY <1>4, <1>5, <1>6, <1>7 DEF ListsInv

LEMMA ListsTurn ==
    ASSUME ListingConstants, ListsInv, NEW limit \in Limit, Turn(limit)
    PROVE  ListsInv'
<1> DEFINE g == Carried(walk.filter)
<1>1. walk.at = "open" /\ Read(walk.asked, g, walk.after, limit, shown)
      /\ page' = page /\ rows' = rows /\ still' = still /\ writes' = writes
  BY DEF Turn
<1>2. walk.asked \in Filters /\ g \in Filters /\ shown \in SUBSET Id
      /\ walk.after \in Cursor /\ page \in Page
  BY <1>1, CarriedTyped DEF ListsInv, ListTypeOK
<1> HIDE DEF g
<1> DEFINE found == Found(g, walk.after)
<1>3. PICK items \in SUBSET found :
         /\ shown' = shown \cup items /\ twice' = twice \cup (shown \cap items)
         /\ walk'.asked = walk.asked /\ walk'.filter = g /\ walk'.at \in {"open", "end"}
         /\ walk'.at = "end" => items = found
         /\ walk'.at = "open" =>
               /\ walk'.after \in Cursor
               /\ \E i \in items : walk'.after = CursorOf(i)
               /\ \A i \in items : ~After(i, walk'.after)
               /\ \A i \in found \ items : After(i, walk'.after)
  BY <1>1, <1>2, ReadStep DEF ListsInv
<1>4. /\ found \subseteq There /\ There \subseteq Id
      /\ \A i \in found : After(i, walk.after)
  BY <1>2 DEF Found, There, ListingConstants, Cursor
<1>5. ListTypeOK'
  BY <1>1, <1>2, <1>3, <1>4 DEF ListsInv, ListTypeOK, Filters, NothingTwice
<1>6. NothingTwice'
  BY <1>1, <1>3, <1>4 DEF ListsInv, NothingTwice, ShownAreBefore
<1>7. ASSUME walk'.at = "open", NEW i \in shown
      PROVE  ~After(i, walk'.after)
  <2>1. ~After(i, walk.after)
    BY <1>1 DEF ListsInv, ShownAreBefore
  <2>2. PICK l \in items : walk'.after = CursorOf(l)
    BY <1>3, <1>7
  <2>3. /\ l \in Nat /\ i \in Nat /\ rows[l].made \in Nat /\ rows[i].made \in Nat
        /\ walk.after.made \in Nat /\ walk.after.id \in Nat
    BY <1>2, <1>4 DEF ListsInv, ShownAreBefore, There, ListTypeOK, ListingConstants,
       Row, Cursor
  <2>4. After(l, walk.after)
    BY <1>4
  <2> QED BY <2>1, <2>2, <2>3, <2>4 DEF After, CursorOf
<1>8. ShownAreBefore'
  <2>1. shown' \subseteq There'
    BY <1>1, <1>3, <1>4 DEF ListsInv, ShownAreBefore, There
  <2>2. ASSUME walk'.at = "open", NEW i \in shown'
        PROVE  ~After(i, walk.after)'
    <3>1. ~After(i, walk'.after)
      BY <1>3, <1>7, <2>2
    <3> QED BY <1>1, <3>1 DEF After
  <2> QED BY <2>1, <2>2 DEF ShownAreBefore
<1>9. RestIsAfter'
  <2>1. \A i \in still' : rows'[i] # None /\ Where(walk.asked, rows[i])'
    BY <1>1, <1>3 DEF ListsInv, RestIsAfter, Where, Kept
  <2>2. ASSUME Widens(walk.asked)'
        PROVE  /\ \A c \in page'.sends : walk'.filter[c] = walk'.asked[c]
                   \/ (walk'.filter[c] = Any /\ page'.unset = Any)
               /\ \A i \in still' \ shown' : walk'.at = "open" /\ After(i, walk.after)'
    <3>1. Widens(walk.asked)
      BY <1>1, <1>3, <2>2 DEF Widens, Carried
    <3>2. /\ \A c \in page.sends : walk.filter[c] = walk.asked[c]
                   \/ (walk.filter[c] = Any /\ page.unset = Any)
          /\ \A i \in still \ shown : After(i, walk.after)
      <4>1. RestIsAfter
        BY DEF ListsInv
      <4>2. walk.at # "closed"
        BY <1>1
      <4> QED BY <3>1, <4>1, <4>2 DEF RestIsAfter
    <3>3. \A c \in page.sends : g[c] = walk.asked[c] \/ (g[c] = Any /\ page.unset = Any)
      BY <3>1, <3>2 DEF Widens, Carried, g
    <3>4. ASSUME NEW i \in still \ shown PROVE i \in found
      <4>1. rows[i] # None /\ Where(walk.asked, rows[i])
        BY <1>1 DEF ListsInv, RestIsAfter
      <4>2. i \in There
        BY <4>1 DEF There, ListsInv, ListTypeOK
      <4>3. Where(g, rows[i])
        BY <3>3, <4>1 DEF Where, Kept
      <4> QED BY <3>2, <4>2, <4>3 DEF Found
    <3> HIDE DEF found
    <3>5. \A i \in still' \ shown' : walk'.at = "open" /\ After(i, walk'.after)
      BY <1>1, <1>3, <3>4
    <3> QED BY <1>1, <1>3, <3>3, <3>5 DEF After
  <2> QED BY <1>3, <2>1, <2>2 DEF RestIsAfter
<1> QED BY <1>5, <1>6, <1>8, <1>9 DEF ListsInv

LEMMA ListsWrite ==
    ASSUME ListingConstants, ListsInv, NEW i \in Id, NEW row \in Row(page),
           Write(i, row), rows[i] # None => row.made = rows[i].made
    PROVE  ListsInv'
<1>1. /\ writes \in 0 .. MaxWrites /\ writes < MaxWrites /\ writes' = writes + 1
      /\ rows' = [rows EXCEPT ![i] = row]
      /\ still' = {j \in still : Where(walk.asked, rows'[j])}
      /\ page' = page /\ walk' = walk /\ shown' = shown /\ twice' = twice
  BY DEF Write, ListsInv, ListTypeOK
<1>2. row # None /\ page \in Page
  BY DEF ListingConstants, ListsInv, ListTypeOK
<1>3. \A j \in There : rows'[j] # None /\ rows'[j].made = rows[j].made
  BY <1>1, <1>2 DEF There, ListsInv, ListTypeOK
<1>4. ListTypeOK'
  <2>1. rows' \in [Id -> Row(page) \cup {None}] /\ writes' \in 0 .. MaxWrites
    BY <1>1 DEF ListsInv, ListTypeOK, ListingConstants
  <2>2. Row(page)' = Row(page) /\ Filters' = Filters
    BY <1>1 DEF Row, Column, Filters
  <2>3. Cursor' = Cursor
    BY DEF Cursor
  <2> HIDE DEF Row
  <2> QED BY <1>1, <2>1, <2>2, <2>3 DEF ListsInv, ListTypeOK
<1>5. ShownAreBefore'
  BY <1>1, <1>3 DEF ListsInv, ShownAreBefore, There, After
<1>6. still \subseteq There
  BY DEF ListsInv, RestIsAfter, There, ListTypeOK
<1>7. RestIsAfter'
  <2>1. walk'.at = "closed" => still' = {}
    BY <1>1 DEF ListsInv, RestIsAfter
  <2>2. \A j \in still' : rows'[j] # None /\ Where(walk.asked, rows[j])'
    BY <1>1, <1>3, <1>6 DEF Where, Kept
  <2>3. Widens(walk.asked)' => Widens(walk.asked)
    BY <1>1 DEF Widens, Carried
  <2>4. \A j \in still : After(j, walk.after) => After(j, walk.after)'
    BY <1>1, <1>3, <1>6 DEF After
  <2> QED BY <1>1, <2>1, <2>2, <2>3, <2>4 DEF ListsInv, RestIsAfter
<1>8. NothingTwice'
  BY <1>1 DEF ListsInv, NothingTwice
<1> QED BY <1>4, <1>5, <1>7, <1>8 DEF ListsInv

LEMMA ListsStep ==
    ASSUME ListingConstants, ListsInv, [ListNext]_(listVars)
    PROVE  ListsInv'
<1>1. CASE UNCHANGED listVars
  <2>1. ListTypeOK'
    BY <1>1 DEF listVars, ListsInv, ListTypeOK, Filters, Row, Column
  <2>2. ShownAreBefore'
    BY <1>1 DEF listVars, ListsInv, ShownAreBefore, There, After
  <2>3. \A f, v : Where(f, v)' <=> Where(f, v)
    BY <1>1 DEF listVars, Where, Kept
  <2>4. \A f : Widens(f)' <=> Widens(f)
    BY <1>1 DEF listVars, Widens, Carried
  <2>5. RestIsAfter'
    BY <1>1, <2>3, <2>4 DEF listVars, ListsInv, RestIsAfter, After
  <2> QED BY <1>1, <2>1, <2>2, <2>5 DEF listVars, ListsInv, NothingTwice
<1>2. ASSUME NEW limit \in Limit, NEW f, Open(f, limit) PROVE ListsInv'
  BY <1>2, ListsOpen
<1>3. ASSUME NEW limit \in Limit, Turn(limit) PROVE ListsInv'
  BY <1>3, ListsTurn
<1>4. ASSUME NEW i \in Id, Create(i) PROVE ListsInv'
  BY <1>4, ListsWrite DEF Create
<1>5. ASSUME NEW i \in Id, NEW c \in Column(page), NEW v \in Value, Change(i, c, v)
      PROVE  ListsInv'
  <2> DEFINE row == [rows[i] EXCEPT !.cols[c] = v]
  <2>1. rows[i] # None /\ Write(i, row)
    BY <1>5 DEF Change
  <2>2. rows[i] \in Row(page)
    BY <2>1 DEF ListsInv, ListTypeOK
  <2>3. row \in Row(page) /\ row.made = rows[i].made
    BY <2>2, <1>5 DEF Row
  <2> HIDE DEF row
  <2> QED BY <2>1, <2>3, ListsWrite
<1> QED BY <1>1, <1>2, <1>3, <1>4, <1>5 DEF ListNext

LEMMA ListsAlways == ASSUME ListingConstants PROVE ListSpec => []ListsInv
<1>1. ListInit => ListsInv
  BY ListsInit
<1>2. ListsInv /\ [ListNext]_(listVars) => ListsInv'
  BY ListsStep
<1> QED BY <1>1, <1>2, PTL DEF ListSpec

(* However rows are written between two of its pages, and however many     *)
(* share a time of making, a walk down a list shows no row twice.          *)
THEOREM WalksRepeatNothing == ListSpec => []NothingTwice
<1>1. ListsInv => NothingTwice
  BY DEF ListsInv
<1> QED BY <1>1, ListingAssumption, ListsAlways, PTL

(* A walk that came to the end of a list whose page sends the filters it   *)
(* was opened with showed every row that was there, and matched, all along.*)
THEOREM WalksMissNothing == ListSpec => []NothingSkipped
<1>1. ListsInv => NothingSkipped
  BY DEF ListsInv, RestIsAfter, NothingSkipped
<1> QED BY <1>1, ListingAssumption, ListsAlways, PTL

(* Rows, walks and pages stay of their types.                              *)
THEOREM ListsTypeCorrect == ListSpec => []ListTypeOK
<1>1. ListsInv => ListTypeOK
  BY DEF ListsInv
<1> QED BY <1>1, ListingAssumption, ListsAlways, PTL
============================================================================
