------------------------------ MODULE MCSignup ------------------------------
(***************************************************************************)
(* Two visitors and three slugs: one both may want, which the name "easy"  *)
(* suggests, a taken or reserved one and one that is too long to store.    *)
(***************************************************************************)
EXTENDS Signup, TLC

CONSTANTS ann, bob, easy, thai, short, admin, lengthy

MCKind == short :> "fine" @@ admin :> "reserved" @@ lengthy :> "long"

MCSuggested == easy :> short @@ thai :> None

MCEdits == ann :> 2 @@ bob :> 1

MCTries == ann :> 2 @@ bob :> 1
=============================================================================
