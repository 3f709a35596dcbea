------------------------------ MODULE MCPayFlow ------------------------------
(* One tab with one bill, two uploads, and a client of the admin API.       *)
EXTENDS PayFlow, TLC

CONSTANTS nok, b1

MCBillOf == nok :> b1
=============================================================================
