----------------------------- MODULE MCReputation -----------------------------
(* A dispute ends, a release follows, and the contract sets a score.  *)
EXTENDS Reputation

CONSTANT t1

Ev(type, amount) == [type |-> type, milestone |-> 0, amount |-> amount, clientWon |-> TRUE]
DisputeScript == <<Ev("dis_res", 0), Ev("funds_rel", 4), Ev("rep_upd", 7)>>
===============================================================================
