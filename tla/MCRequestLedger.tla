-------------------------- MODULE MCRequestLedger --------------------------
(* Values TLC gives to the constants of RequestLedger.                     *)
EXTENDS RequestLedger

AllFaults == {"pending", "final"}
=============================================================================
