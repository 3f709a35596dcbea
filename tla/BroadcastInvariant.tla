------------------------- MODULE BroadcastInvariant -------------------------
(***************************************************************************)
(* The inductive invariants behind OneBroadcastPerKey,                     *)
(* TerminalMeansEveryone and DeliveredWasPushed.  BroadcastProofs proves   *)
(* them.                                                                   *)
(***************************************************************************)
EXTENDS Broadcast

(* The row is visible exactly when its POST has committed; of two POSTs of *)
(* one key at most one holds the index entry; only a POST that inserted    *)
(* queues jobs.                                                            *)
KeyInv ==
    /\ \A a \in Announcement : status[a] # "absent" <=> post[a] = "created"
    /\ \A a \in Announcement : \A b \in Twins(a) :
          post[a] \in {"enqueue", "created"} => post[b] \notin {"enqueue", "created"}
    /\ \A j \in Job : job[j] # "none" => post[j[1]] \notin {"none", "insert", "replayed"}

(* The recipients whose outcome is settled: nothing will count them again. *)
Settled(a) ==
    {t \in Recipients[a] :
        \/ job[<<a, t>>] \in {"complete", "completed"}
        \/ job[<<a, t>>] = "failed" /\ <<a, t>> \notin late}

(* Without a restart no job is orphaned, every count is of a recipient that *)
(* is settled with it, and a terminal status was reached by counting all.  *)
CountInv ==
    crashes = 0 =>
        /\ \A j \in Job : job[j] # "orphan"
        /\ \A j \in late : job[j] = "failed"
        /\ \A a \in Announcement :
              /\ delivered[a] + failed[a] <= Cardinality(Settled(a))
              /\ status[a] \in {"sent", "failed"} =>
                    /\ delivered[a] + failed[a] >= Cardinality(Recipients[a])
                    /\ status[a] = "sent" <=> delivered[a] > 0

(* The worker runs one job at a time, and the one that is about to count a  *)
(* delivery has a message that was not counted.                            *)
DeliveredInv ==
    /\ \A i, j \in Job : job[i] \in Running /\ job[j] \in Running => i = j
    /\ \A j \in Job : job[j] = "countDelivered" => delivered[j[1]] < Cardinality(Messages(j[1]))
    /\ \A a \in Announcement : IsFiniteSet(Messages(a))
    /\ DeliveredWasPushed

BroadcastInv == TypeOK /\ KeyInv /\ CountInv /\ DeliveredInv
=============================================================================
