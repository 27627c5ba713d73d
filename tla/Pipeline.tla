------------------------------- MODULE Pipeline -------------------------------
(***************************************************************************)
(* The indexer and the webhooks together, in one server process: an event  *)
(* that was recorded starts queueEventWebhooks, and a crash of the server  *)
(* takes the calls under way with it.                                      *)
(***************************************************************************)
EXTENDS EventIndexer, WebhookDelivery

vars == <<indexerVars, webhookVars>>

Init == IndexerInit /\ WebhookInit

IndexerStep ==
  /\ \/ CloseLedger \/ StartIndexer
     \/ \E t \in Slots :
          \/ StartTick(t) \/ GetContractEvents(t) \/ GetLatestLedger(t)
          \/ PassEvent(t) \/ CommitEvent(t) \/ FailTick(t)
          \/ AdvanceLedger(t) \/ SaveCursor(t)
  /\ UNCHANGED webhookVars

Announce(t) == AnnounceEvent(t) /\ BeginQueueing(NextEvent(t))
Crash == CrashIndexer /\ LoseCalls
WebhookStep == WebhookNext /\ UNCHANGED indexerVars

Next ==
  \/ IndexerStep
  \/ \E t \in Slots : Announce(t)
  \/ Crash
  \/ WebhookStep

Spec == Init /\ [][Next]_vars

TypeOK == IndexerTypeOK /\ WebhookTypeOK
===============================================================================
