--------------------------- MODULE MCLineWebhook ---------------------------
(***************************************************************************)
(* Small instances of LineWebhook: a batch of two events and a redelivery  *)
(* of one of them, in flight together.                                     *)
(***************************************************************************)
EXTENDS LineWebhook, TLC

CONSTANTS d1, d2, e1, e2

TwoDeliveries == d1 :> <<e1, e2>> @@ d2 :> <<e1>>
=============================================================================
