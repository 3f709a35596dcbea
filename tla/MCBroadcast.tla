---------------------------- MODULE MCBroadcast ----------------------------
(***************************************************************************)
(* Small instances of Broadcast: two POSTs of one key and two recipients.  *)
(***************************************************************************)
EXTENDS BroadcastInvariant, TLC

CONSTANTS a1, a2, t1, t2, k1

SameKey == a1 :> k1 @@ a2 :> k1

(* A recipient unbound LINE before the second POST. *)
Recipients21 == a1 :> {t1, t2} @@ a2 :> {t1}
=============================================================================
