------------------------------ MODULE MCCluster ------------------------------
(* Two nodes, two ledgers with an event each: a batch of both fills the page. *)
EXTENDS LedgerIndexer

CONSTANTS n1, n2

TwoNodes == {n1, n2}
AllKeys == {Main} \cup {BatchKey(r[1], r[2]) : r \in Ranges}
(* Half of the cluster's lock outlives the lock of a batch: 300 s and 30 s.  *)
Lifetimes == [k \in AllKeys |-> IF k = Main THEN 2 ELSE 1]

Event(type, milestone, amount, ledger) ==
  [type |-> type, milestone |-> milestone, amount |-> amount, ledger |-> ledger]
TwoEvents == << Event("mil_sub", 1, 0, 1), Event("funds_rel", 1, 4, 2) >>
==============================================================================
