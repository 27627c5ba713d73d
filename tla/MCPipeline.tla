------------------------------ MODULE MCPipeline ------------------------------
(* The pipeline for TLC: a short life of one escrow.  *)
EXTENDS Pipeline, TLC

CONSTANTS subA, t1, t2

TickSymmetry == Permutations(Slots)

Ev(type, amount) == [type |-> type, milestone |-> 0, amount |-> amount]
(* A topic without handler among the events of a release.  *)
ReleaseScript == <<Ev("esc_crt", 5), Ev("mil_add", 2), Ev("esc_frz", 0), Ev("funds_rel", 2)>>
MCEvents == 1 .. Len(Script)
ReleasesWanted == [s \in Subscribers |-> {4}]

(* Ticks go on, and a restarted server comes up again.  *)
FairIndexerSpec ==
  /\ Spec
  /\ WF_vars(IndexerStep /\ StartIndexer)
  /\ \A t \in Slots : /\ WF_vars(IndexerStep /\ StartTick(t))
                      /\ WF_vars(IndexerStep /\ TickStep(t)) /\ WF_vars(Announce(t))
===============================================================================
