------------------------------- MODULE MCRecords -------------------------------
(* An escrow of two milestones and two requests at a time.  *)
EXTENDS EscrowRecords

CONSTANTS r1, r2
===============================================================================
