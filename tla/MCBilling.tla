----------------------------- MODULE MCBilling -----------------------------
(* Small instances of Billing for TLC. *)
EXTENDS BillingInvariant, TLC

CONSTANTS i1, i2, p1, p2, p3, april

(* A bill of 2 with two payments of 1, and its replacement in the same slot. *)
TwoPayments  == {p1, p2}
BothOnOne    == p1 :> i1 @@ p2 :> i1
UnitAmounts  == p1 :> 1 @@ p2 :> 1
TwoInvoices  == {i1, i2}
SameSlot     == i1 :> april @@ i2 :> april
TwoAndOnes   == i1 :> 2 @@ i2 :> 1

(* A bill, a bill that credits bring down to nothing, and an overpayment. *)
ZeroTotal     == i1 :> 2 @@ i2 :> 0
ThreePayments == {p1, p2, p3}
TwoAndOne     == p1 :> i1 @@ p2 :> i1 @@ p3 :> i2
MixedAmounts  == p1 :> 1 @@ p2 :> 2 @@ p3 :> 1

(* No action reads the queue or the receipts, so states that differ only   *)
(* there behave alike.                                                     *)
AllThatCounts == <<db, tx, confirmedEver>>

(* Nor does any action, or any property of the race, read the queue.       *)
AllButJobs == <<db, tx, history>>

Symmetric == Permutations(Request)
=============================================================================
