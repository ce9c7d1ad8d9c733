------------------------- MODULE CredentialLifecycle -------------------------
(***************************************************************************)
(* What a stored rotating credential promises, without requests, replicas, *)
(* locks or transactions: it is usable, being rotated, broken or absent.   *)
(***************************************************************************)
EXTENDS Naturals

CONSTANTS
  Tokens,   (* generations of the credential                                *)
  Absent    (* no row                                                       *)

VARIABLES token, status

vars == <<token, status>>

Init == token \in Tokens /\ status = "usable"

(* The provider spends the stored refresh token.                           *)
Spend == status = "usable" /\ status' = "rotating" /\ UNCHANGED token

(* The successor is stored.                                                *)
Store ==
  /\ status = "rotating"
  /\ status' = "usable"
  /\ token' \in Tokens
  /\ token' > token

(* The successor is lost: the credential cannot refresh any more.          *)
Lose == status = "rotating" /\ status' = "broken" /\ UNCHANGED token

(* A new login replaces whatever was there.                                *)
Login ==
  /\ status' = "usable"
  /\ token' \in Tokens
  /\ token # Absent => token' > token

Remove == status # "absent" /\ status' = "absent" /\ token' = Absent

Next == Spend \/ Store \/ Lose \/ Login \/ Remove

Spec == Init /\ [][Next]_vars

RotationSettles == (status = "rotating") ~> (status # "rotating")
=============================================================================
