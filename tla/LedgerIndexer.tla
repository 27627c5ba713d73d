----------------------------- MODULE LedgerIndexer -----------------------------
(***************************************************************************)
(* The indexer for several nodes: workers/escrowIndexer.js.  A tick takes  *)
(* the cluster's lock, asks for the latest ledger and works through the    *)
(* ledgers after its cursor in batches, each under a lock of its own; the  *)
(* cursor moves after every batch.                                         *)
(***************************************************************************)
EXTENDS EscrowRows, LockManager, Sequences, FiniteSets

CONSTANTS
  Script,      \* the events of the contract, each with its ledger
  LastLedger,  \* bound: the last ledger that closes
  BatchSize,   \* BATCH_SIZE
  PageLimit,   \* events the node returns in one answer
  MaxFaults    \* bound: requests that fail, nodes that die and outages of Redis

Ledgers == 0 .. LastLedger
Main == << "escrow_verifying_lock" >>
BatchKey(from, to) == <<from, to>>
(* The batches: at most BatchSize ledgers after a cursor.  *)
Ranges == {r \in Ledgers \X Ledgers : 0 < r[1] /\ r[1] <= r[2] /\ r[2] < r[1] + BatchSize}
Indexes == 1 .. Len(Script)

(* Ledgers are numbered from 1, and START_LEDGER is 0.  *)
ASSUME ClusterAssumption ==
  /\ Script \in Seq([type : STRING, milestone : Milestones, amount : Nat, ledger : Nat \ {0}])
  /\ \A i, j \in Indexes : i < j => Script[i].ledger <= Script[j].ledger
  /\ Keys = {Main} \cup {BatchKey(r[1], r[2]) : r \in Ranges}
  /\ {BatchSize, PageLimit} \subseteq Nat \ {0}
  /\ {LastLedger, MaxFaults} \subseteq Nat

VARIABLES
  latest,   \* the chain's latest ledger
  rows,     \* the escrow's rows
  handled,  \* how often each event was applied; the upsert of its row in
            \* contract_events, for the types that have one, finds or makes it
  cursor,   \* indexer_state.lastProcessedLedger
  node,     \* the nodes' processes
  redisUp,  \* does Redis answer
  faults,   \* failures, crashes and outages so far
  cut       \* history: the events that the page of an answer left out

vars == <<redis, latest, rows, handled, cursor, node, redisUp, faults, cut>>

(* A process between ticks holds no more than its cursor.  *)
Process(pc, c) ==
  [pc |-> pc, cursor |-> c, latest |-> 0, end |-> 0, todo |-> {}, timer |-> FALSE]
Stopped == Process("down", 0)
NodeStates ==
  [pc     : {"down", "idle", "latest", "lock", "events", "dispatch",
             "save", "abort", "release"},
   cursor : Ledgers,
   latest : Ledgers,
   end    : Ledgers,
   todo   : SUBSET Indexes,
   timer  : BOOLEAN]     \* the renewal timer of the cluster's lock

Suffer(fault) ==
  /\ faults.failures + faults.crashes + faults.outages < MaxFaults
  /\ faults' = [faults EXCEPT ![fault] = @ + 1]

InTick(n) == node[n].pc \notin {"down", "idle"}
Go(n, pc) == node' = [node EXCEPT ![n].pc = pc]

-------------------------------------------------------------------------------
(* The handlers.  Those that record the event use an upsert, so that a replay *)
(* finds its row; the rest only write what they change.                       *)
HandleEscrowCreated(r, e) == r
HandleMilestoneAdded(r, e) == r
(* mutant: the status under its old name *)
HandleMilestoneSubmittedOld(r, e) == SetMilestone(r, e.milestone, "InReview")
HandleMilestoneSubmitted(r, e) == SetMilestone(r, e.milestone, "Submitted")
HandleMilestoneApproved(r, e) == SetMilestone(r, e.milestone, "Approved")
HandleFundsReleased(r, e) == SubtractReleased(r, e.amount)
HandleEscrowCancelled(r, e) == SetStatus(r, "Cancelled")
HandleDisputeRaised(r, e) == OpenDispute(SetStatus(r, "Disputed"))
HandleDisputeResolved(r, e) == SetStatus(r, "Completed")
HandleReputationUpdated(r, e) == [r EXCEPT !.score = e.amount]

Dispatched(r, e) ==
  CASE e.type = "esc_crt"   -> HandleEscrowCreated(r, e)
    [] e.type = "mil_add"   -> HandleMilestoneAdded(r, e)
    [] e.type = "mil_sub"   -> HandleMilestoneSubmitted(r, e)
    [] e.type = "mil_apr"   -> HandleMilestoneApproved(r, e)
    [] e.type = "funds_rel" -> HandleFundsReleased(r, e)
    [] e.type = "esc_can"   -> HandleEscrowCancelled(r, e)
    [] e.type = "dis_rai"   -> HandleDisputeRaised(r, e)
    [] e.type = "dis_res"   -> HandleDisputeResolved(r, e)
    [] e.type = "rep_upd"   -> HandleReputationUpdated(r, e)
    [] OTHER                -> r

-------------------------------------------------------------------------------
(* A node starts from the stored cursor, which it does not read again.  *)
StartNode(n) ==
  /\ node[n].pc = "down"
  /\ node' = [node EXCEPT ![n] = Process("idle", cursor)]
  /\ UNCHANGED <<redis, latest, rows, handled, cursor, redisUp, faults, cut>>

(* tick: the cluster's lock, with its renewal, or no work in this tick.  *)
(* mutant: acquired without autoRenew *)
AcquireMainOnce(n) ==
  /\ node[n].pc = "idle" /\ redisUp
  /\ SetIfAbsent(Main, n)
  /\ node' = [node EXCEPT ![n].pc = "latest"]
  /\ UNCHANGED <<latest, rows, handled, cursor, redisUp, faults, cut>>
AcquireMain(n) ==
  /\ node[n].pc = "idle" /\ redisUp
  /\ SetIfAbsent(Main, n)
  /\ node' = [node EXCEPT ![n].pc = "latest", ![n].timer = TRUE]
  /\ UNCHANGED <<latest, rows, handled, cursor, redisUp, faults, cut>>

(* mutant: a batch is not cut at the latest ledger *)
NextBatchWhole(n, c, last) ==
  node' = [node EXCEPT ![n] =
    IF c >= last
    THEN [@ EXCEPT !.pc = "release", !.cursor = c, !.latest = 0, !.end = 0]
    ELSE [@ EXCEPT !.pc = "lock", !.cursor = c, !.latest = last, !.end = c + BatchSize]]
NextBatch(n, c, last) ==
  node' = [node EXCEPT ![n] =
    IF c >= last
    THEN [@ EXCEPT !.pc = "release", !.cursor = c, !.latest = 0, !.end = 0]
    ELSE [@ EXCEPT !.pc = "lock", !.cursor = c, !.latest = last,
                   !.end = IF c + BatchSize < last THEN c + BatchSize ELSE last]]

GetLatestLedger(n) ==
  /\ node[n].pc = "latest"
  /\ NextBatch(n, node[n].cursor, latest)
  /\ UNCHANGED <<redis, latest, rows, handled, cursor, redisUp, faults, cut>>

Batch(n) == BatchKey(node[n].cursor + 1, node[n].end)

(* processBatch: without its lock the batch is left to "another node".  *)
AcquireBatch(n) ==
  /\ node[n].pc = "lock"
  /\ IF redisUp /\ IsFree(Batch(n))
     THEN SetIfAbsent(Batch(n), n) /\ Go(n, "events")
     ELSE UNCHANGED redis /\ Go(n, "save")
  /\ UNCHANGED <<latest, rows, handled, cursor, redisUp, faults, cut>>

(* The events of a batch; endLedger is taken as its last ledger, as the code *)
(* takes it.                                                                 *)
Sought(n) ==
  {i \in Indexes : /\ Script[i].ledger \in (node[n].cursor + 1) .. node[n].end
                   /\ Script[i].ledger <= latest}
(* The code asks for one page, and takes its events for all there are.  *)
Page(events) == {i \in events : Cardinality({j \in events : j < i}) < PageLimit}

GetEvents(n) ==
  /\ node[n].pc = "events"
  /\ node' = [node EXCEPT ![n].pc = "dispatch", ![n].todo = Page(Sought(n))]
  /\ cut' = cut \cup (Sought(n) \ Page(Sought(n)))
  /\ UNCHANGED <<redis, latest, rows, handled, cursor, redisUp, faults>>

DispatchEvent(n) ==
  /\ node[n].pc = "dispatch"
  /\ \E i \in node[n].todo :
       /\ \A j \in node[n].todo : i <= j
       /\ rows' = Dispatched(rows, Script[i])
       /\ handled' = [handled EXCEPT ![i] = @ + 1]
       /\ node' = [node EXCEPT ![n].todo = @ \ {i}]
  /\ UNCHANGED <<redis, latest, cursor, redisUp, faults, cut>>

BatchDone(n) == node[n].pc = "abort" \/ (node[n].pc = "dispatch" /\ node[n].todo = {})

(* The finally of processBatch; an error of Redis is swallowed.  *)
ReleaseBatch(n) ==
  /\ BatchDone(n)
  /\ IF redisUp THEN ReleaseScript(Batch(n), n) ELSE UNCHANGED redis
  /\ node' = [node EXCEPT ![n].pc = IF @ = "dispatch" THEN "save" ELSE "release", ![n].todo = {}]
  /\ UNCHANGED <<latest, rows, handled, cursor, redisUp, faults, cut>>

(* The cursor in memory moves, then the stored one, then comes the next batch. *)
SaveCursor(n) ==
  /\ node[n].pc = "save"
  /\ cursor' = node[n].end
  /\ NextBatch(n, node[n].end, node[n].latest)
  /\ UNCHANGED <<redis, latest, rows, handled, redisUp, faults, cut>>

(* A request fails, or a transaction does for another reason than a deadlock: *)
(* the batch and the tick end, after a pause, and release their locks.  When  *)
(* it is the cursor's update, the cursor in memory has moved already.         *)
FailTick(n) ==
  /\ Suffer("failures")
  /\ \/ /\ node[n].pc = "latest"
        /\ Go(n, "release")
     \/ /\ node[n].pc \in {"events", "dispatch"}
        /\ Go(n, "abort")
     \/ /\ node[n].pc = "save"
        /\ node' = [node EXCEPT ![n] = [@ EXCEPT !.pc = "release", !.cursor = node[n].end]]
  /\ UNCHANGED <<redis, latest, rows, handled, cursor, redisUp, cut>>

(* The finally of the tick: Lock.release.  *)
ReleaseMain(n) ==
  /\ node[n].pc = "release"
  /\ IF redisUp THEN ReleaseScript(Main, n) ELSE UNCHANGED redis
  /\ node' = [node EXCEPT ![n] = Process("idle", node[n].cursor)]
  /\ UNCHANGED <<latest, rows, handled, cursor, redisUp, faults, cut>>

(* The renewal timer: a lock that is no longer ours stops the timer, and only *)
(* the timer; an error of Redis does nothing.                                 *)
RenewMain(n) ==
  /\ node[n].timer /\ redisUp
  /\ RenewalDue(Main, n) \/ ~Owns(Main, n)
  /\ RenewScript(Main, n)
  /\ node' = [node EXCEPT ![n].timer = Owns(Main, n)]
  /\ UNCHANGED <<latest, rows, handled, cursor, redisUp, faults, cut>>

-------------------------------------------------------------------------------
CloseLedger ==
  /\ latest < LastLedger
  /\ latest' = latest + 1
  /\ UNCHANGED <<redis, rows, handled, cursor, node, redisUp, faults, cut>>

(* Time does not pass over a renewal that is due, when Redis answers.  *)
Elapse ==
  /\ \A n \in Nodes : ~(redisUp /\ node[n].timer /\ RenewalDue(Main, n))
  /\ \E k \in Keys : ~IsFree(k)
  /\ RedisTick
  /\ UNCHANGED <<latest, rows, handled, cursor, node, redisUp, faults, cut>>

CrashNode(n) ==
  /\ node[n].pc # "down"
  /\ Suffer("crashes")
  /\ node' = [node EXCEPT ![n] = Stopped]
  /\ UNCHANGED <<redis, latest, rows, handled, cursor, redisUp, cut>>

LoseRedis ==
  /\ redisUp
  /\ Suffer("outages")
  /\ redisUp' = FALSE
  /\ UNCHANGED <<redis, latest, rows, handled, cursor, node, cut>>

FindRedis ==
  /\ ~redisUp
  /\ redisUp' = TRUE
  /\ UNCHANGED <<redis, latest, rows, handled, cursor, node, faults, cut>>

Init ==
  /\ RedisInit
  /\ latest = 0
  /\ rows = [status |-> "Active", balance |-> 9, milestone |-> [m \in Milestones |-> "Pending"],
             dispute |-> "none", score |-> 0]
  /\ handled = [i \in Indexes |-> 0]
  /\ cursor = 0
  /\ node = [n \in Nodes |-> Stopped]
  /\ redisUp = TRUE
  /\ faults = [failures |-> 0, crashes |-> 0, outages |-> 0]
  /\ cut = {}

Work(n) ==
  \/ StartNode(n) \/ GetLatestLedger(n) \/ AcquireBatch(n) \/ GetEvents(n)
  \/ DispatchEvent(n) \/ ReleaseBatch(n) \/ SaveCursor(n)
  \/ ReleaseMain(n) \/ AcquireMain(n)

Next ==
  \/ CloseLedger \/ Elapse \/ LoseRedis \/ FindRedis
  \/ \E n \in Nodes : Work(n) \/ RenewMain(n) \/ FailTick(n) \/ CrashNode(n)

Spec == Init /\ [][Next]_vars

(* Time passes and timers run, Redis comes back, a process that runs goes on, *)
(* and one that stopped is started again.  Ledgers need not close, and faults *)
(* need not happen.                                                           *)
FairSpec ==
  /\ Spec
  /\ WF_vars(Elapse \/ \E n \in Nodes : RenewMain(n)) /\ WF_vars(FindRedis)
  /\ \A n \in Nodes : WF_vars(Work(n))

-------------------------------------------------------------------------------
TypeOK ==
  /\ RedisTypeOK
  /\ latest \in Ledgers /\ cursor \in Ledgers
  /\ rows \in Rows
  /\ handled \in [Indexes -> Nat]
  /\ node \in [Nodes -> NodeStates]
  /\ redisUp \in BOOLEAN
  /\ faults \in [failures : 0 .. MaxFaults, crashes : 0 .. MaxFaults,
                 outages : 0 .. MaxFaults]
  /\ cut \in SUBSET Indexes

(* What has become of an event that a cursor may pass.  *)
Cleared(i) == handled[i] > 0 \/ i \in cut

(* As long as Redis has answered, one node works in a tick at a time, however *)
(* long the tick takes and whichever node dies: the renewal of the cluster's  *)
(* lock keeps ahead of its time to live.                                      *)
OneNodeInTick ==
  faults.outages = 0 => \A n, o \in Nodes : InTick(n) /\ InTick(o) => n = o

(* An event behind the stored cursor, or behind the cursor a node works from, *)
(* was applied, or the page of an answer left it out: failures, crashes and   *)
(* expired locks skip no event, as long as Redis has answered.                *)
NothingLost ==
  faults.outages = 0 =>
    \A i \in Indexes :
      \/ Cleared(i)
      \/ /\ Script[i].ledger > cursor
         /\ \A n \in Nodes : node[n].pc # "down" => Script[i].ledger > node[n].cursor

(* A node loses a lock by its own release or when its time is up, also after  *)
(* an outage in which another node took the lock over: a late release leaves  *)
(* the new owner's lock alone.                                                *)
OnlyOwnerReleases ==
  [][\A k \in Keys : \A n \in Nodes :
       Owns(k, n) /\ ~(redis'[k].owner = n) =>
         \/ node[n].pc \in {"dispatch", "abort", "release"} /\ node'[n] # node[n]
         \/ redis[k].left = 1 /\ node' = node]_vars

(* Every event of a closed ledger is applied, or left out by a page, although *)
(* nodes die in a tick with both locks held: the locks run out and the next   *)
(* node goes on.                                                              *)
EveryEventApplied ==
  []<>(\/ faults.outages > 0
       \/ \A i \in Indexes : latest >= Script[i].ledger => Cleared(i))

(* "Zero data loss: ledger cursor only advances after successful DB write"    *)
(* (workers/escrowIndexer.js:14).                                             *)
ZeroDataLoss ==
  faults.outages = 0 => \A i \in Indexes : handled[i] > 0 \/ Script[i].ledger > cursor

(* "Distributed locking: Redlock (Redis) prevents duplicate processing across *)
(* nodes" (workers/escrowIndexer.js:15).                                      *)
NoDuplicateProcessing == \A i \in Indexes : handled[i] <= 1
===============================================================================
