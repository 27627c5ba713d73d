---------------------------- MODULE WebhookDelivery ----------------------------
(***************************************************************************)
(* Webhooks: services/webhookService.js, queues/webhookQueue.js and        *)
(* workers/webhookWorker.js.  For an indexed event the service writes a    *)
(* delivery for each active subscription and queues a job; the worker      *)
(* posts it and records the outcome, and the queue (BullMQ, external)      *)
(* retries a job that threw and gives a job of a dead worker out again.    *)
(***************************************************************************)
EXTENDS Integers, Sequences, FiniteSets

CONSTANTS
  Events,       \* the events that can be announced
  Subscribers,  \* the subscriptions that can be created
  Wants,        \* [Subscribers -> SUBSET Events]: the event types as events
  Attempts,     \* DEFAULT_RETRY_ATTEMPTS
  MaxStalls     \* bound: jobs a worker dies over, and updates that fail

ASSUME WebhookAssumption ==
  /\ Wants \in [Subscribers -> SUBSET Events]
  /\ Attempts \in Nat \ {0} /\ MaxStalls \in Nat

VARIABLES
  subscription, \* webhook_subscriptions: none, active, deleted
  queueing,     \* queueEventWebhooks calls under way in the server, by event
  delivery,     \* webhook_deliveries, with the job of each, in the order of creation
  stalls        \* jobs that lost their worker and updates that failed so far

webhookVars == <<subscription, queueing, delivery, stalls>>

NoCall == [at |-> "none", left |-> {}, row |-> 0]
Calls == [at : {"none", "find", "create", "sign", "enqueue"}, left : SUBSET Subscribers, row : Nat]

(* job: none before it is queued; waiting; accepted or refused once posted;   *)
(* reported or thrown once the worker has written the outcome; over or dead.  *)
Deliveries ==
  [event    : Events,
   to       : Subscribers,
   status   : {"pending", "success", "failed", "deleted"},
   job      : {"none", "waiting", "accepted", "refused", "reported", "thrown", "over", "dead"},
   made     : Nat,      \* job.attemptsMade
   posts    : Nat,      \* requests sent
   received : Nat]      \* requests the receiver accepted

-------------------------------------------------------------------------------
CreateSubscription(s) ==
  /\ subscription[s] = "none"
  /\ subscription' = [subscription EXCEPT ![s] = "active"]
  /\ UNCHANGED <<queueing, delivery, stalls>>

(* Its deliveries go with it (onDelete: Cascade); its jobs stay.  *)
DeleteSubscription(s) ==
  /\ subscription[s] = "active"
  /\ subscription' = [subscription EXCEPT ![s] = "deleted"]
  /\ delivery' = [d \in DOMAIN delivery |->
       IF delivery[d].to = s THEN [delivery[d] EXCEPT !.status = "deleted"] ELSE delivery[d]]
  /\ UNCHANGED <<queueing, stalls>>

-------------------------------------------------------------------------------
(* queueEventWebhooks, one step from await to await.  *)
BeginQueueing(e) ==
  /\ queueing' = [queueing EXCEPT ![e] = [NoCall EXCEPT !.at = "find"]]
  /\ UNCHANGED <<subscription, delivery, stalls>>

(* The server dies and forgets the calls under way.  *)
LoseCalls ==
  /\ queueing' = [e \in Events |-> NoCall]
  /\ UNCHANGED <<subscription, delivery, stalls>>

NextSubscription(e, left) ==
  queueing' = [queueing EXCEPT ![e] = IF left = {} THEN NoCall
                                      ELSE [at |-> "create", left |-> left, row |-> 0]]

FindSubscriptions(e) ==
  /\ queueing[e].at = "find"
  /\ NextSubscription(e, {s \in Subscribers : subscription[s] = "active" /\ e \in Wants[s]})
  /\ UNCHANGED <<subscription, delivery, stalls>>

(* queueSubscriptionWebhook.  A row that is gone makes the call throw, and    *)
(* with it the loop over the subscriptions that are left.                     *)
CreateDelivery(e) ==
  /\ queueing[e].at = "create"
  /\ \E s \in queueing[e].left :
       IF subscription[s] = "active"
       THEN /\ delivery' = Append(delivery,
                 [event |-> e, to |-> s, status |-> "pending", job |-> "none",
                  made |-> 0, posts |-> 0, received |-> 0])
            /\ queueing' = [queueing EXCEPT ![e] =
                 [at |-> "sign", left |-> @.left \ {s}, row |-> Len(delivery) + 1]]
       ELSE /\ queueing' = [queueing EXCEPT ![e] = NoCall]
            /\ UNCHANGED delivery
  /\ UNCHANGED <<subscription, stalls>>

SignDelivery(e) ==
  /\ queueing[e].at = "sign"
  /\ queueing' = [queueing EXCEPT ![e] =
       IF delivery[queueing[e].row].status = "deleted" THEN NoCall ELSE [@ EXCEPT !.at = "enqueue"]]
  /\ UNCHANGED <<subscription, delivery, stalls>>

EnqueueDelivery(e) ==
  /\ queueing[e].at = "enqueue"
  /\ delivery' = [delivery EXCEPT ![queueing[e].row].job = "waiting"]
  /\ NextSubscription(e, queueing[e].left)
  /\ UNCHANGED <<subscription, stalls>>

-------------------------------------------------------------------------------
(* The worker and its queue.  *)
PostWebhook(d) ==
  /\ delivery[d].job = "waiting"
  /\ \E answer \in {"accepted", "refused"} :
       delivery' = [delivery EXCEPT
         ![d].job = answer, ![d].posts = @ + 1,
         ![d].received = IF answer = "accepted" THEN @ + 1 ELSE @]
  /\ UNCHANGED <<subscription, queueing, stalls>>

IsTerminal(d) == delivery[d].made + 1 >= Attempts

(* mutant: the answer's status is not looked at *)
RecordOutcomeUnread(d) ==
  /\ delivery[d].job \in {"accepted", "refused"}
  /\ delivery' = [delivery EXCEPT
       ![d].job = IF @ = "accepted" /\ delivery[d].status # "deleted" THEN "reported" ELSE "thrown",
       ![d].status = IF @ = "deleted" THEN @ ELSE "success"]
  /\ UNCHANGED <<subscription, queueing, stalls>>
(* An update that finds the row deleted throws, whatever the receiver said.   *)
RecordOutcome(d) ==
  /\ delivery[d].job \in {"accepted", "refused"}
  /\ delivery' = [delivery EXCEPT
       ![d].job = IF @ = "accepted" /\ delivery[d].status # "deleted" THEN "reported" ELSE "thrown",
       ![d].status = CASE @ = "deleted" -> @
                       [] delivery[d].job = "accepted" -> "success"
                       [] OTHER -> IF IsTerminal(d) THEN "failed" ELSE "pending"]
  /\ UNCHANGED <<subscription, queueing, stalls>>

(* The update fails.  When it was to record a success, the catch may still    *)
(* record a failed attempt.                                                   *)
FailUpdate(d) ==
  /\ stalls < MaxStalls
  /\ delivery[d].job \in {"accepted", "refused"}
  /\ stalls' = stalls + 1
  /\ \E kept \in {delivery[d].status, IF IsTerminal(d) THEN "failed" ELSE "pending"} :
       /\ delivery[d].status = "deleted" \/ delivery[d].job = "refused" => kept = delivery[d].status
       /\ delivery' = [delivery EXCEPT ![d].job = "thrown", ![d].status = kept]
  /\ UNCHANGED <<subscription, queueing>>

(* The job returned: it is removed.  It threw: it waits for its next attempt. *)
FinishJob(d) ==
  /\ delivery[d].job \in {"reported", "thrown"}
  /\ delivery' = [delivery EXCEPT
       ![d].job = CASE @ = "reported" -> "over"
                    [] OTHER -> IF IsTerminal(d) THEN "dead" ELSE "waiting",
       ![d].made = IF delivery[d].job = "thrown" THEN @ + 1 ELSE @]
  /\ UNCHANGED <<subscription, queueing, stalls>>

(* The worker dies over the job; the queue hands it out again, the attempt    *)
(* not counted.                                                               *)
StallJob(d) ==
  /\ stalls < MaxStalls
  /\ delivery[d].job \in {"accepted", "refused", "reported", "thrown"}
  /\ stalls' = stalls + 1
  /\ delivery' = [delivery EXCEPT ![d].job = "waiting"]
  /\ UNCHANGED <<subscription, queueing>>

WebhookInit ==
  /\ subscription = [s \in Subscribers |-> "none"]
  /\ queueing = [e \in Events |-> NoCall]
  /\ delivery = <<>>
  /\ stalls = 0

QueueingStep(e) ==
  FindSubscriptions(e) \/ CreateDelivery(e) \/ SignDelivery(e) \/ EnqueueDelivery(e)
WorkerStep(d) == PostWebhook(d) \/ RecordOutcome(d) \/ FinishJob(d)

WebhookNext ==
  \/ \E s \in Subscribers : CreateSubscription(s) \/ DeleteSubscription(s)
  \/ \E e \in Events : QueueingStep(e)
  \/ \E d \in DOMAIN delivery : WorkerStep(d) \/ FailUpdate(d) \/ StallJob(d)

-------------------------------------------------------------------------------
WebhookTypeOK ==
  /\ subscription \in [Subscribers -> {"none", "active", "deleted"}]
  /\ queueing \in [Events -> Calls]
  /\ delivery \in Seq(Deliveries)
  /\ stalls \in 0 .. MaxStalls

(* An event that two ticks fetched, or that a restart replays, is queued once *)
(* for a subscription.                                                        *)
OneDelivery ==
  \A c, d \in DOMAIN delivery :
    delivery[c].event = delivery[d].event /\ delivery[c].to = delivery[d].to => c = d

(* The history tells the truth: a success was accepted by the receiver, a     *)
(* failure was tried as often as promised.  A receiver is asked at most that  *)
(* often, and once more for each worker that died over the job, even when the *)
(* delivery's row was deleted under it.                                       *)
HistoryHonest ==
  \A d \in DOMAIN delivery :
    /\ delivery[d].status = "success" => delivery[d].received > 0
    /\ delivery[d].status = "failed" => delivery[d].posts >= Attempts
    /\ delivery[d].posts <= Attempts + stalls
===============================================================================
