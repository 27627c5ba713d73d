----------------------------- MODULE ClusterProofs -----------------------------
(***************************************************************************)
(* Proofs about LedgerIndexer, for any nodes, batches, scripts and lives   *)
(* of locks: its types, that one node at a time works in a tick, that a    *)
(* lock is never taken from its owner, and that no event is lost.          *)
(***************************************************************************)
EXTENDS LedgerIndexer, TLAPS

-------------------------------------------------------------------------------
(* The locks by themselves.  *)

Locks == [owner : Nodes \cup {Nobody}, left : Nat]

LEMMA KeysKnown == /\ Main \in Keys /\ Ttl \in [Keys -> Nat \ {0}] /\ Nobody \notin Nodes
                   /\ LastLedger \in Nat /\ BatchSize \in Nat \ {0} /\ MaxFaults \in Nat
<1> QED
  BY ClusterAssumption, LockAssumption

LEMMA BatchIsNotMain == ASSUME NEW from, NEW to PROVE BatchKey(from, to) # Main
<1> QED
  BY DEF BatchKey, Main

LEMMA LocksTyped ==
  ASSUME RedisTypeOK, NEW k, NEW n \in Nodes,
         \/ SetIfAbsent(k, n) /\ k \in Keys
         \/ ReleaseScript(k, n)
         \/ RenewScript(k, n) /\ k \in Keys
         \/ UNCHANGED redis
  PROVE  RedisTypeOK'
<1>a. redis \in [Keys -> Locks] /\ Ttl \in [Keys -> Nat \ {0}]
  BY KeysKnown DEF RedisTypeOK, Locks
<1>b. FreeKey \in Locks
  BY DEF FreeKey, Locks
<1> SUFFICES redis' \in [Keys -> Locks]
  BY DEF RedisTypeOK, Locks
<1>1. CASE SetIfAbsent(k, n) /\ k \in Keys
  BY <1>a, <1>1 DEF SetIfAbsent, Locks
<1>2. CASE ReleaseScript(k, n)
  BY <1>a, <1>b, <1>2 DEF ReleaseScript
<1>3. CASE RenewScript(k, n) /\ k \in Keys
  BY <1>a, <1>3 DEF RenewScript, Locks
<1>4. CASE UNCHANGED redis
  BY <1>a, <1>4
<1> QED
  BY <1>1, <1>2, <1>3, <1>4

LEMMA TickTyped == RedisTypeOK /\ RedisTick => RedisTypeOK'
<1> SUFFICES ASSUME RedisTypeOK, RedisTick PROVE redis' \in [Keys -> Locks]
  BY DEF RedisTypeOK, Locks
<1>1. redis \in [Keys -> Locks] /\ FreeKey \in Locks
  BY DEF RedisTypeOK, FreeKey, Locks
<1>2. \A k \in Keys : redis'[k] \in Locks
  BY <1>1 DEF RedisTick, Locks
<1> QED
  BY <1>2 DEF RedisTick

-------------------------------------------------------------------------------
(* Types.  *)

LEMMA RowsTyped ==
  ASSUME NEW r \in Rows, NEW i \in Indexes
  PROVE  Dispatched(r, Script[i]) \in Rows
<1> DEFINE e == Script[i]
<1>1. e.milestone \in Milestones /\ e.amount \in Nat
  <2> DEFINE Events == [type : STRING, milestone : Milestones, amount : Nat, ledger : Nat \ {0}]
  <2>1. Script \in Seq(Events)
    BY ClusterAssumption
  <2> HIDE DEF Events
  <2>2. e \in Events
    BY <2>1 DEF Indexes
  <2> QED
    BY <2>2 DEF Events
<1> HIDE DEF e
<1>2. /\ \A to \in EscrowStatuses : SetStatus(r, to) \in Rows
      /\ \A to \in MilestoneStatuses : SetMilestone(r, e.milestone, to) \in Rows
      /\ OpenDispute(r) \in Rows
  BY <1>1 DEF Rows, SetStatus, SetMilestone, OpenDispute, EscrowStatuses, MilestoneStatuses,
         DisputeStatuses
<1>3. SubtractReleased(r, e.amount) \in Rows
  BY <1>1 DEF Rows, SubtractReleased
<1>4. [r EXCEPT !.score = e.amount] \in Rows
  BY <1>1 DEF Rows
<1>5. HandleDisputeRaised(r, e) \in Rows
  BY DEF HandleDisputeRaised, Rows, SetStatus, OpenDispute, EscrowStatuses, DisputeStatuses
<1>6. {"Cancelled", "Disputed", "Completed"} \subseteq EscrowStatuses /\
      {"Submitted", "Approved"} \subseteq MilestoneStatuses
  BY DEF EscrowStatuses, MilestoneStatuses
<1>7. Dispatched(r, e) \in Rows
  BY <1>2, <1>3, <1>4, <1>5, <1>6 DEF Dispatched, HandleEscrowCreated, HandleMilestoneAdded,
     HandleMilestoneSubmitted, HandleMilestoneApproved, HandleFundsReleased,
     HandleEscrowCancelled, HandleDisputeResolved, HandleReputationUpdated
<1> QED
  BY <1>7 DEF e

LEMMA ProcessTyped ==
  ASSUME NEW pc \in {"down", "idle"}, NEW c \in Ledgers
  PROVE  Process(pc, c) \in NodeStates
<1>1. 0 \in Ledgers
  BY KeysKnown DEF Ledgers
<1> QED
  BY <1>1 DEF Process, NodeStates

LEMMA TypeInit == Init => TypeOK
<1> SUFFICES ASSUME Init PROVE TypeOK
  OBVIOUS
<1>1. RedisTypeOK
  BY DEF Init, RedisInit, FreeKey, RedisTypeOK
<1>2. rows \in Rows
  BY DEF Init, Rows, EscrowStatuses, MilestoneStatuses, DisputeStatuses
<1>3. node \in [Nodes -> NodeStates] /\ latest \in Ledgers /\ cursor \in Ledgers
  BY KeysKnown, ProcessTyped DEF Init, Stopped, Ledgers
<1> QED
  BY <1>1, <1>2, <1>3, KeysKnown DEF Init, TypeOK

(* The end of a batch and the cursor after it are ledgers that have closed. *)
LEMMA NextBatchTyped ==
  ASSUME TypeOK, NEW n \in Nodes, NEW c \in Ledgers, NEW last \in Ledgers, NextBatch(n, c, last)
  PROVE  node' \in [Nodes -> NodeStates]
<1>a. node \in [Nodes -> NodeStates]
  BY DEF TypeOK
<1>1. CASE c >= last
  <2>1. node' = [node EXCEPT ![n] = [@ EXCEPT !.pc = "release", !.cursor = c, !.latest = 0, !.end = 0]]
    BY <1>1 DEF NextBatch
  <2>2. 0 \in Ledgers
    BY KeysKnown DEF Ledgers
  <2> QED
    BY <1>a, <2>1, <2>2 DEF NodeStates
<1>2. CASE ~(c >= last)
  <2> DEFINE end == IF c + BatchSize < last THEN c + BatchSize ELSE last
  <2>1. node' = [node EXCEPT ![n] = [@ EXCEPT !.pc = "lock", !.cursor = c, !.latest = last, !.end = end]]
    BY <1>2 DEF NextBatch
  <2>2. end \in Ledgers
    BY KeysKnown DEF Ledgers
  <2> HIDE DEF end
  <2> QED
    BY <1>a, <2>1, <2>2 DEF NodeStates
<1> QED
  BY <1>1, <1>2

LEMMA FaultsTyped ==
  ASSUME TypeOK, NEW fault \in {"failures", "crashes", "outages"}, Suffer(fault)
  PROVE  /\ faults' \in [failures : 0 .. MaxFaults, crashes : 0 .. MaxFaults,
                         outages : 0 .. MaxFaults]
         /\ fault # "outages" => faults'.outages = faults.outages
         /\ fault = "outages" => faults'.outages # 0
<1>a. /\ faults \in [failures : 0 .. MaxFaults, crashes : 0 .. MaxFaults, outages : 0 .. MaxFaults]
      /\ MaxFaults \in Nat
  BY KeysKnown DEF TypeOK
<1>b. /\ faults.failures + faults.crashes + faults.outages < MaxFaults
      /\ faults' = [faults EXCEPT ![fault] = @ + 1]
  BY DEF Suffer
<1>1. CASE fault = "failures"
  BY <1>a, <1>b, <1>1
<1>2. CASE fault = "crashes"
  BY <1>a, <1>b, <1>2
<1>3. CASE fault = "outages"
  BY <1>a, <1>b, <1>3
<1> QED
  BY <1>1, <1>2, <1>3

(* What a node's own steps leave of the types of the rest.  *)
LEMMA TypeWork ==
  ASSUME TypeOK, NEW n \in Nodes, Work(n)
  PROVE  TypeOK'
<1>a. /\ RedisTypeOK /\ node \in [Nodes -> NodeStates] /\ latest \in Ledgers /\ cursor \in Ledgers
      /\ node[n].cursor \in Ledgers /\ node[n].end \in Ledgers /\ node[n].latest \in Ledgers
  BY DEF TypeOK, NodeStates
<1>b. SUFFICES /\ RedisTypeOK' /\ node' \in [Nodes -> NodeStates] /\ cursor' \in Ledgers
               /\ rows' \in Rows /\ handled' \in [Indexes -> Nat]
  <2>1. cut' \in SUBSET Indexes
    BY DEF TypeOK, Work, StartNode, GetLatestLedger, AcquireBatch, GetEvents, Sought, DispatchEvent,
           ReleaseBatch, SaveCursor, ReleaseMain, AcquireMain
  <2> QED
    BY <2>1
    DEF TypeOK, Work, StartNode, GetLatestLedger, AcquireBatch, GetEvents, DispatchEvent,
         ReleaseBatch, SaveCursor, ReleaseMain, AcquireMain
<1>c. ASSUME UNCHANGED redis PROVE RedisTypeOK'
  BY <1>a, <1>c DEF RedisTypeOK
<1>d. rows \in Rows /\ handled \in [Indexes -> Nat]
  BY DEF TypeOK
<1>1. CASE StartNode(n)
  <2>1. Process("idle", cursor) \in NodeStates
    BY <1>a, ProcessTyped
  <2> QED
    BY <1>1, <1>a, <1>c, <1>d, <2>1 DEF StartNode
<1>2. CASE GetLatestLedger(n)
  BY <1>2, <1>a, <1>c, <1>d, NextBatchTyped DEF GetLatestLedger
<1>3. CASE AcquireBatch(n)
  <2>1. node' \in [Nodes -> NodeStates]
    BY <1>3, <1>a DEF AcquireBatch, Go, NodeStates
  <2>2. RedisTypeOK'
    <3>1. redis' = redis \/ SetIfAbsent(Batch(n), n)
      BY <1>3 DEF AcquireBatch
    <3>2. ASSUME SetIfAbsent(Batch(n), n), Batch(n) \notin Keys PROVE redis' = redis
      BY <1>a, <3>2 DEF SetIfAbsent, RedisTypeOK
    <3> QED
      BY <1>a, <3>1, <3>2, LocksTyped
  <2> QED
    BY <1>3, <1>a, <1>d, <2>1, <2>2 DEF AcquireBatch
<1>4. CASE GetEvents(n)
  <2>1. PICK S \in SUBSET Indexes : node' = [node EXCEPT ![n].pc = "dispatch", ![n].todo = S]
    BY <1>4 DEF GetEvents, Page, Sought
  <2> DEFINE q == [node[n] EXCEPT !.pc = "dispatch", !.todo = S]
  <2>2. node' = [node EXCEPT ![n] = q]
    BY <2>1
  <2>3. q \in NodeStates
    BY <1>a DEF NodeStates
  <2> HIDE DEF q
  <2>4. node' \in [Nodes -> NodeStates]
    BY <1>a, <2>2, <2>3
  <2> QED
    BY <1>4, <1>a, <1>c, <1>d, <2>4 DEF GetEvents
<1>5. CASE DispatchEvent(n)
  <2>1. PICK i \in node[n].todo :
           /\ rows' = Dispatched(rows, Script[i])
           /\ handled' = [handled EXCEPT ![i] = @ + 1]
           /\ node' = [node EXCEPT ![n].todo = @ \ {i}]
    BY <1>5 DEF DispatchEvent
  <2>2. i \in Indexes
    BY <1>a DEF NodeStates
  <2>3. rows' \in Rows /\ handled' \in [Indexes -> Nat]
    BY <1>d, <2>1, <2>2, RowsTyped
  <2>4. node' \in [Nodes -> NodeStates]
    BY <1>a, <2>1 DEF NodeStates
  <2> QED
    BY <1>5, <1>a, <1>c, <2>3, <2>4 DEF DispatchEvent
<1>6. CASE ReleaseBatch(n)
  <2>1. node' \in [Nodes -> NodeStates]
    <3>1. PICK pc \in {"save", "release"} : node' = [node EXCEPT ![n].pc = pc, ![n].todo = {}]
      BY <1>6 DEF ReleaseBatch
    <3> DEFINE q == [node[n] EXCEPT !.pc = pc, !.todo = {}]
    <3>2. node' = [node EXCEPT ![n] = q]
      BY <3>1
    <3>3. q \in NodeStates
      BY <1>a DEF NodeStates
    <3> HIDE DEF q
    <3> QED
      BY <1>a, <3>2, <3>3
  <2> QED
    BY <1>6, <1>a, <1>c, <1>d, <2>1, LocksTyped DEF ReleaseBatch
<1>7. CASE SaveCursor(n)
  BY <1>7, <1>a, <1>c, <1>d, NextBatchTyped DEF SaveCursor
<1>8. CASE ReleaseMain(n)
  <2>1. Process("idle", node[n].cursor) \in NodeStates
    BY <1>a, ProcessTyped
  <2>2. node' \in [Nodes -> NodeStates]
    BY <1>8, <1>a, <2>1 DEF ReleaseMain
  <2> QED
    BY <1>8, <1>a, <1>c, <1>d, <2>2, LocksTyped DEF ReleaseMain
<1>9. CASE AcquireMain(n)
  <2>1. node' \in [Nodes -> NodeStates]
    <3> DEFINE q == [node[n] EXCEPT !.pc = "latest", !.timer = TRUE]
    <3>1. node' = [node EXCEPT ![n] = q]
      BY <1>9 DEF AcquireMain
    <3>2. q \in NodeStates
      BY <1>a DEF NodeStates
    <3> HIDE DEF q
    <3> QED
      BY <1>a, <3>1, <3>2
  <2> QED
    BY <1>9, <1>a, <1>d, <2>1, KeysKnown, LocksTyped DEF AcquireMain
<1> QED
  BY <1>1, <1>2, <1>3, <1>4, <1>5, <1>6, <1>7, <1>8, <1>9 DEF Work

LEMMA TypeStep == TypeOK /\ [Next]_vars => TypeOK'
<1> SUFFICES ASSUME TypeOK, [Next]_vars PROVE TypeOK'
  OBVIOUS
<1>a. RedisTypeOK /\ node \in [Nodes -> NodeStates] /\ latest \in Ledgers
  BY DEF TypeOK
<1>1. CASE CloseLedger
  BY <1>1, <1>a, KeysKnown DEF CloseLedger, TypeOK, RedisTypeOK, Ledgers
<1>2. CASE Elapse
  <2>1. RedisTypeOK'
    BY <1>2, <1>a, TickTyped DEF Elapse
  <2> QED
    BY <1>2, <2>1 DEF Elapse, TypeOK
<1>3. CASE LoseRedis
  BY <1>3, FaultsTyped DEF LoseRedis, TypeOK, RedisTypeOK
<1>4. CASE FindRedis
  BY <1>4 DEF FindRedis, TypeOK, RedisTypeOK
<1>5. ASSUME NEW n \in Nodes, Work(n) PROVE TypeOK'
  BY <1>5, TypeWork
<1>6. ASSUME NEW n \in Nodes, RenewMain(n) PROVE TypeOK'
  <2>1. RedisTypeOK'
    BY <1>6, <1>a, LocksTyped, KeysKnown DEF RenewMain
  <2>2. node' \in [Nodes -> NodeStates]
    <3>1. Owns(Main, n) \in BOOLEAN
      BY DEF Owns
    <3>2. node' = [node EXCEPT ![n].timer = Owns(Main, n)]
      BY <1>6 DEF RenewMain
    <3> QED
      BY <1>a, <3>1, <3>2 DEF NodeStates
  <2> QED
    BY <1>6, <2>1, <2>2 DEF RenewMain, TypeOK
<1>7. ASSUME NEW n \in Nodes, FailTick(n) PROVE TypeOK'
  <2>1. node' \in [Nodes -> NodeStates]
    <3>1. /\ node[n].end \in Ledgers
          /\ \/ \E pc \in {"release", "abort"} : node' = [node EXCEPT ![n].pc = pc]
             \/ node' = [node EXCEPT ![n] = [@ EXCEPT !.pc = "release", !.cursor = node[n].end]]
      BY <1>7, <1>a DEF FailTick, Go, NodeStates
    <3>2. CASE \E pc \in {"release", "abort"} : node' = [node EXCEPT ![n].pc = pc]
      BY <1>a, <3>2 DEF NodeStates
    <3>3. CASE node' = [node EXCEPT ![n] = [@ EXCEPT !.pc = "release", !.cursor = node[n].end]]
      <4> DEFINE q == [node[n] EXCEPT !.pc = "release", !.cursor = node[n].end]
      <4>1. node' = [node EXCEPT ![n] = q]
        BY <3>3
      <4>2. q \in NodeStates
        <5>1. PICK c \in Ledgers : c = node[n].end
          BY <3>1
        <5>2. node[n] \in NodeStates
          BY <1>a
        <5>3. [node[n] EXCEPT !.pc = "release", !.cursor = c] \in NodeStates
          BY <5>2 DEF NodeStates
        <5> QED
          BY <5>1, <5>3
      <4> HIDE DEF q
      <4> QED
        BY <1>a, <4>1, <4>2
    <3> QED
      BY <3>1, <3>2, <3>3
  <2> QED
    BY <1>7, <2>1, FaultsTyped DEF FailTick, TypeOK, RedisTypeOK
<1>8. ASSUME NEW n \in Nodes, CrashNode(n) PROVE TypeOK'
  <2>1. Stopped \in NodeStates
    BY KeysKnown, ProcessTyped DEF Stopped, Ledgers
  <2> QED
    BY <1>8, <1>a, <2>1, FaultsTyped DEF CrashNode, TypeOK, RedisTypeOK
<1>9. CASE UNCHANGED vars
  BY <1>9 DEF vars, TypeOK, RedisTypeOK
<1> QED
  BY <1>1, <1>2, <1>3, <1>4, <1>5, <1>6, <1>7, <1>8, <1>9 DEF Next

(* Locks, cursors, batches and rows keep their types: no batch reaches past *)
(* the last ledger and no cursor past a batch.                              *)
THEOREM ClusterTypeCorrect == Spec => []TypeOK
<1> QED
  BY TypeInit, TypeStep, PTL DEF Spec

-------------------------------------------------------------------------------
(* One node in a tick.  While Redis answers, whoever works in a tick holds *)
(* the cluster's lock and a timer that renews it: the timer is due before  *)
(* the lock runs out if it lives for two units of time at least.           *)

Guarded(n) == InTick(n) => Owns(Main, n) /\ node[n].timer

TickInv == faults.outages = 0 => redisUp /\ \A n \in Nodes : Guarded(n)

LEMMA GuardedAlone == TypeOK /\ TickInv => OneNodeInTick
<1> QED
  BY DEF TickInv, Guarded, OneNodeInTick, Owns

(* A step of one node that leaves the lock and its own place in or out of a *)
(* tick alone keeps every node guarded.                                     *)
LEMMA StaysGuarded ==
  ASSUME TypeOK, NEW n \in Nodes, \A o \in Nodes : Guarded(o),
         \A o \in Nodes : o # n => node'[o] = node[o],
         redis'[Main].owner = redis[Main].owner,
         InTick(n)' => InTick(n) /\ node'[n].timer = node[n].timer
  PROVE  \A o \in Nodes : Guarded(o)'
<1> SUFFICES ASSUME NEW o \in Nodes PROVE Guarded(o)'
  OBVIOUS
<1>1. CASE o = n
  BY <1>1 DEF Guarded, Owns
<1>2. CASE o # n
  BY <1>2 DEF Guarded, Owns, InTick
<1> QED
  BY <1>1, <1>2

LEMMA MainStays ==
  ASSUME TypeOK, NEW n \in Nodes, NEW k, k # Main,
         SetIfAbsent(k, n) \/ ReleaseScript(k, n) \/ UNCHANGED redis
  PROVE  redis'[Main] = redis[Main]
<1>1. redis \in [Keys -> Locks] /\ Main \in Keys
  BY KeysKnown DEF TypeOK, RedisTypeOK, Locks
<1> QED
  BY <1>1 DEF SetIfAbsent, ReleaseScript

LEMMA WorkGuarded ==
  ASSUME TypeOK, NEW n \in Nodes, Work(n), redisUp, \A o \in Nodes : Guarded(o)
  PROVE  \A o \in Nodes : Guarded(o)'
<1>a. node \in [Nodes -> NodeStates] /\ redis \in [Keys -> Locks] /\ Main \in Keys
      /\ Nobody \notin Nodes
  BY KeysKnown DEF TypeOK, RedisTypeOK, Locks
<1>1. CASE StartNode(n)
  <2>1. redis' = redis /\ node' = [node EXCEPT ![n] = Process("idle", cursor)]
    BY <1>1 DEF StartNode
  <2>2. ~InTick(n)' /\ \A o \in Nodes : o # n => node'[o] = node[o]
    BY <1>a, <2>1 DEF InTick, Process
  <2> QED
    BY <2>1, <2>2, StaysGuarded
<1>2. CASE GetLatestLedger(n) \/ SaveCursor(n)
  <2>1. redis' = redis /\ InTick(n)
    BY <1>2 DEF GetLatestLedger, SaveCursor, InTick
  <2>2. \E c, last : NextBatch(n, c, last)
    BY <1>2 DEF GetLatestLedger, SaveCursor
  <2>3. node'[n].timer = node[n].timer /\ \A o \in Nodes : o # n => node'[o] = node[o]
    BY <1>a, <2>2 DEF NextBatch, NodeStates
  <2> QED
    BY <2>1, <2>3, StaysGuarded
<1>3. CASE AcquireBatch(n)
  <2>1. redis' = redis \/ SetIfAbsent(Batch(n), n)
    BY <1>3 DEF AcquireBatch
  <2>2. redis'[Main] = redis[Main]
    BY <2>1, MainStays, BatchIsNotMain DEF Batch
  <2>3. InTick(n) /\ node'[n].timer = node[n].timer /\ \A o \in Nodes : o # n => node'[o] = node[o]
    BY <1>3, <1>a DEF AcquireBatch, Go, InTick, NodeStates
  <2> QED
    BY <2>2, <2>3, StaysGuarded
<1>4. CASE GetEvents(n)
  <2>1. redis' = redis /\ InTick(n) /\ node'[n].timer = node[n].timer
        /\ \A o \in Nodes : o # n => node'[o] = node[o]
    BY <1>4, <1>a DEF GetEvents, InTick, NodeStates
  <2> QED
    BY <2>1, StaysGuarded
<1>5. CASE DispatchEvent(n)
  <2>1. redis' = redis /\ InTick(n) /\ node'[n].timer = node[n].timer
        /\ \A o \in Nodes : o # n => node'[o] = node[o]
    BY <1>5, <1>a DEF DispatchEvent, InTick, NodeStates
  <2> QED
    BY <2>1, StaysGuarded
<1>6. CASE ReleaseBatch(n)
  <2>1. redis' = redis \/ ReleaseScript(Batch(n), n)
    BY <1>6 DEF ReleaseBatch
  <2>2. redis'[Main] = redis[Main]
    BY <2>1, MainStays, BatchIsNotMain DEF Batch
  <2>3. InTick(n)
    BY <1>6 DEF ReleaseBatch, BatchDone, InTick
  <2>4. node'[n].timer = node[n].timer /\ \A o \in Nodes : o # n => node'[o] = node[o]
    BY <1>6, <1>a DEF ReleaseBatch, NodeStates
  <2> QED
    BY <2>2, <2>3, <2>4, StaysGuarded
<1>7. CASE ReleaseMain(n)
  <2>1. ~InTick(n)' /\ \A o \in Nodes : o # n => node'[o] = node[o]
    BY <1>7, <1>a DEF ReleaseMain, InTick, Process
  <2>2. Owns(Main, n)
    BY <1>7 DEF ReleaseMain, Guarded, InTick
  <2>3. \A o \in Nodes : o # n => ~InTick(o)
    BY <2>2 DEF Guarded, Owns
  <2> QED
    BY <2>1, <2>3 DEF Guarded, InTick
<1>8. CASE AcquireMain(n)
  <2>1. \A o \in Nodes : ~InTick(o)
    BY <1>8, <1>a DEF AcquireMain, SetIfAbsent, IsFree, Owns, Guarded
  <2>2. Owns(Main, n)'
    BY <1>8, <1>a DEF AcquireMain, SetIfAbsent, Owns
  <2>3. node'[n].timer = TRUE /\ \A o \in Nodes : o # n => node'[o] = node[o]
    BY <1>8, <1>a DEF AcquireMain, NodeStates
  <2> QED
    BY <2>1, <2>2, <2>3 DEF Guarded, InTick
<1> QED
  BY <1>1, <1>2, <1>3, <1>4, <1>5, <1>6, <1>7, <1>8 DEF Work

LEMMA TickStep == Ttl[Main] >= 2 /\ TypeOK /\ TickInv /\ [Next]_vars => TickInv'
<1> SUFFICES ASSUME Ttl[Main] >= 2, TypeOK, TickInv, [Next]_vars, faults'.outages = 0
             PROVE  redisUp' /\ \A o \in Nodes : Guarded(o)'
  BY DEF TickInv, Guarded, InTick, Owns
<1>a. /\ node \in [Nodes -> NodeStates] /\ redis \in [Keys -> Locks] /\ Main \in Keys
      /\ Ttl[Main] \in Nat
  BY KeysKnown DEF TypeOK, RedisTypeOK, Locks
<1>b. ASSUME faults' = faults \/ \E f \in {"failures", "crashes"} : Suffer(f)
      PROVE  redisUp /\ \A o \in Nodes : Guarded(o)
  <2>1. faults.outages = 0
    BY <1>b, FaultsTyped
  <2> QED
    BY <2>1 DEF TickInv
<1>1. CASE CloseLedger \/ FindRedis
  BY <1>1, <1>b DEF CloseLedger, FindRedis, Guarded, InTick, Owns
<1>2. CASE Elapse
  <2>1. /\ redisUp /\ \A o \in Nodes : Guarded(o)
        /\ redisUp' = redisUp /\ node' = node /\ RedisTick
        /\ \A o \in Nodes : node[o].timer => ~RenewalDue(Main, o)
    BY <1>2, <1>b DEF Elapse
  <2>2. ASSUME NEW o \in Nodes, InTick(o) PROVE Owns(Main, o)'
    <3>1. Owns(Main, o) /\ ~(2 * redis[Main].left <= Ttl[Main])
      BY <2>1, <2>2 DEF Guarded, RenewalDue
    <3>2. redis[Main].left \in Nat /\ ~(redis[Main].left <= 1)
      BY <1>a, <3>1 DEF Locks
    <3>3. redis'[Main] = [redis[Main] EXCEPT !.left = @ - 1]
      BY <1>a, <2>1, <3>2 DEF RedisTick
    <3> QED
      BY <1>a, <3>1, <3>3 DEF Owns, Locks
  <2> QED
    BY <2>1, <2>2 DEF Guarded, InTick
<1>3. CASE LoseRedis
  <2>1. faults'.outages # 0
    BY <1>3, FaultsTyped DEF LoseRedis
  <2> QED
    BY <2>1
<1>4. ASSUME NEW n \in Nodes, Work(n)
      PROVE  redisUp' /\ \A o \in Nodes : Guarded(o)'
  <2>1. faults' = faults /\ redisUp' = redisUp
    BY <1>4 DEF Work, StartNode, GetLatestLedger, AcquireBatch, GetEvents, DispatchEvent,
       ReleaseBatch, SaveCursor, ReleaseMain, AcquireMain
  <2> QED
    BY <1>4, <1>b, <2>1, WorkGuarded
<1>5. ASSUME NEW n \in Nodes, RenewMain(n)
      PROVE  redisUp' /\ \A o \in Nodes : Guarded(o)'
  <2>1. /\ redisUp' = redisUp /\ faults' = faults /\ RenewScript(Main, n)
        /\ node' = [node EXCEPT ![n].timer = Owns(Main, n)]
    BY <1>5 DEF RenewMain
  <2>2. redisUp /\ \A o \in Nodes : Guarded(o)
    BY <2>1, <1>b
  <2>3. redis'[Main].owner = redis[Main].owner
    BY <1>a, <2>1 DEF RenewScript, Locks
  <2>4. /\ node'[n].pc = node[n].pc /\ node'[n].timer = Owns(Main, n)
        /\ \A o \in Nodes : o # n => node'[o] = node[o]
    BY <1>a, <2>1 DEF NodeStates
  <2> QED
    BY <2>1, <2>2, <2>3, <2>4 DEF Guarded, InTick, Owns
<1>6. ASSUME NEW n \in Nodes, FailTick(n)
      PROVE  redisUp' /\ \A o \in Nodes : Guarded(o)'
  <2>1. redisUp' = redisUp /\ redis' = redis /\ InTick(n) /\ Suffer("failures")
    BY <1>6 DEF FailTick, InTick
  <2>2. redisUp /\ \A o \in Nodes : Guarded(o)
    BY <2>1, <1>b
  <2>3. node'[n].timer = node[n].timer /\ \A o \in Nodes : o # n => node'[o] = node[o]
    <3>1. CASE \E pc \in {"release", "abort"} : node' = [node EXCEPT ![n].pc = pc]
      BY <1>a, <3>1 DEF NodeStates
    <3>2. CASE node' = [node EXCEPT ![n] = [@ EXCEPT !.pc = "release", !.cursor = node[n].end]]
      BY <1>a, <3>2 DEF NodeStates
    <3> QED
      BY <1>6, <3>1, <3>2 DEF FailTick, Go
  <2> QED
    BY <2>1, <2>2, <2>3, StaysGuarded
<1>7. ASSUME NEW n \in Nodes, CrashNode(n)
      PROVE  redisUp' /\ \A o \in Nodes : Guarded(o)'
  <2>1. redisUp' = redisUp /\ redis' = redis /\ Suffer("crashes")
    BY <1>7 DEF CrashNode
  <2>2. redisUp /\ \A o \in Nodes : Guarded(o)
    BY <2>1, <1>b
  <2>3. ~InTick(n)' /\ \A o \in Nodes : o # n => node'[o] = node[o]
    BY <1>7, <1>a DEF CrashNode, InTick, Stopped, Process
  <2> QED
    BY <2>1, <2>2, <2>3, StaysGuarded
<1>8. CASE UNCHANGED vars
  BY <1>8, <1>b DEF vars, Guarded, InTick, Owns
<1> QED
  BY <1>1, <1>2, <1>3, <1>4, <1>5, <1>6, <1>7, <1>8 DEF Next

(* As long as Redis answers, no two nodes are in a tick at the same time,  *)
(* for any number of nodes: however long a tick takes, whoever dies, and   *)
(* whatever fails.  A lock that lives for one unit of time could run out   *)
(* before its renewal is due.                                              *)
THEOREM OneNodeHolds == Ttl[Main] >= 2 => (Spec => []OneNodeInTick)
<1>1. Init => TickInv
  BY DEF Init, TickInv, Guarded, InTick, Stopped, Process
<1>2. CASE Ttl[Main] >= 2
  <2>1. TypeOK /\ TickInv /\ [Next]_vars => TickInv'
    BY <1>2, TickStep
  <2> QED
    BY <1>1, <2>1, GuardedAlone, ClusterTypeCorrect, PTL DEF Spec
<1> QED
  BY <1>2

-------------------------------------------------------------------------------
(* Whose lock a step may take away.  *)

HeldHasTime == \A k \in Keys : ~IsFree(k) => redis[k].left > 0

LEMMA HeldStep ==
  ASSUME TypeOK, HeldHasTime, NEW k, NEW n \in Nodes,
         \/ SetIfAbsent(k, n)
         \/ ReleaseScript(k, n)
         \/ RenewScript(k, n)
         \/ RedisTick
         \/ UNCHANGED redis
  PROVE  HeldHasTime'
<1>a. redis \in [Keys -> Locks] /\ Ttl \in [Keys -> Nat \ {0}]
  BY KeysKnown DEF TypeOK, RedisTypeOK, Locks
<1>b. ASSUME NEW j \in Keys, redis'[j].owner # Nobody
      PROVE  redis'[j].left > 0
  <2>1. CASE redis'[j] = redis[j]
    BY <1>b, <2>1 DEF HeldHasTime, IsFree, Owns
  <2>2. CASE redis'[j] = FreeKey
    BY <1>b, <2>2 DEF FreeKey
  <2>3. CASE redis'[j].left = Ttl[j]
    BY <1>a, <2>3
  <2>4. CASE RedisTick /\ redis[j].left > 1
    BY <1>a, <2>4 DEF RedisTick, Locks
  <2>5. \/ redis'[j] = redis[j] \/ redis'[j] = FreeKey \/ redis'[j].left = Ttl[j]
        \/ RedisTick /\ redis[j].left > 1
    BY <1>a DEF SetIfAbsent, ReleaseScript, RenewScript, RedisTick, Locks
  <2> QED
    BY <2>1, <2>2, <2>3, <2>4, <2>5
<1> QED
  BY <1>b DEF HeldHasTime, IsFree, Owns

LEMMA HeldInv == TypeOK /\ HeldHasTime /\ [Next]_vars => HeldHasTime'
<1> SUFFICES ASSUME TypeOK, HeldHasTime, [Next]_vars PROVE HeldHasTime'
  OBVIOUS
<1>1. CASE UNCHANGED redis
  BY <1>1 DEF HeldHasTime, IsFree, Owns
<1>2. CASE Elapse
  <2>1. PICK k \in Keys : ~IsFree(k)
    BY <1>2 DEF Elapse
  <2>2. redis[k].owner \in Nodes
    BY <2>1 DEF TypeOK, RedisTypeOK, IsFree, Owns
  <2> QED
    BY <1>2, <2>2, HeldStep DEF Elapse
<1>3. ASSUME NEW n \in Nodes, Work(n) \/ RenewMain(n), redis' # redis PROVE HeldHasTime'
  <2>1. \E k : SetIfAbsent(k, n) \/ ReleaseScript(k, n) \/ RenewScript(k, n)
    BY <1>3 DEF Work, StartNode, GetLatestLedger, AcquireBatch, GetEvents, DispatchEvent,
       ReleaseBatch, SaveCursor, ReleaseMain, AcquireMain, RenewMain
  <2> QED
    BY <2>1, HeldStep
<1>4. \/ UNCHANGED redis \/ Elapse
      \/ \E n \in Nodes : Work(n) \/ RenewMain(n)
  BY DEF Next, vars, CloseLedger, LoseRedis, FindRedis, FailTick, CrashNode
<1> QED
  BY <1>1, <1>2, <1>3, <1>4

(* One step of the property: the lock k of node n is gone.  *)
LEMMA ReleaseStep ==
  ASSUME TypeOK, HeldHasTime, [Next]_vars, NEW k \in Keys, NEW n \in Nodes,
         Owns(k, n), redis'[k].owner # n
  PROVE  \/ node[n].pc \in {"dispatch", "abort", "release"} /\ node'[n] # node[n]
         \/ redis[k].left = 1 /\ node' = node
<1>a. /\ node \in [Nodes -> NodeStates] /\ redis \in [Keys -> Locks] /\ Nobody \notin Nodes
      /\ redis[k].left > 0
  BY KeysKnown DEF TypeOK, RedisTypeOK, Locks, HeldHasTime, IsFree, Owns
<1>b. redis' # redis
  BY DEF Owns
<1>1. CASE Elapse
  <2>1. node' = node /\ (redis[k].left <= 1 \/ redis'[k] = [redis[k] EXCEPT !.left = @ - 1])
    BY <1>1 DEF Elapse, RedisTick
  <2>2. redis[k].left <= 1
    BY <1>a, <2>1 DEF Owns, Locks
  <2> QED
    BY <1>a, <2>1, <2>2 DEF Locks
(* Who sets a key found it free, and who renews one keeps its owner.  *)
<1>2. ASSUME NEW m, NEW j, SetIfAbsent(j, m) \/ RenewScript(j, m) PROVE FALSE
  BY <1>a, <1>2 DEF SetIfAbsent, RenewScript, IsFree, Owns, Locks
(* Who deletes a key owned it.  *)
<1>3. ASSUME NEW m \in Nodes, NEW j, ReleaseScript(j, m) PROVE m = n
  BY <1>a, <1>3 DEF ReleaseScript, Owns
<1>4. ASSUME NEW m \in Nodes, ReleaseBatch(m)
      PROVE  node[n].pc \in {"dispatch", "abort"} /\ node'[n] # node[n]
  <2>1. ReleaseScript(Batch(m), m)
    BY <1>4, <1>b DEF ReleaseBatch
  <2>2. m = n
    BY <2>1, <1>3
  <2>3. node[n].pc \in {"dispatch", "abort"}
    BY <1>4, <2>2 DEF ReleaseBatch, BatchDone
  <2>4. node'[n].pc \in {"save", "release"}
    BY <1>4, <1>a, <2>2 DEF ReleaseBatch, NodeStates
  <2> QED
    BY <2>3, <2>4
<1>5. ASSUME NEW m \in Nodes, ReleaseMain(m)
      PROVE  node[n].pc = "release" /\ node'[n] # node[n]
  <2>1. ReleaseScript(Main, m)
    BY <1>5, <1>b DEF ReleaseMain
  <2>2. m = n
    BY <2>1, <1>3
  <2>3. node[n].pc = "release" /\ node'[n].pc = "idle"
    BY <1>5, <1>a, <2>2 DEF ReleaseMain, Process
  <2> QED
    BY <2>3
<1>6. \/ Elapse
      \/ \E m \in Nodes : ReleaseBatch(m) \/ ReleaseMain(m)
      \/ \E m, j : SetIfAbsent(j, m) \/ RenewScript(j, m)
  BY <1>b DEF Next, vars, Work, CloseLedger, LoseRedis, FindRedis, FailTick, CrashNode, StartNode,
     GetLatestLedger, AcquireBatch, GetEvents, DispatchEvent, SaveCursor, AcquireMain, RenewMain
<1> QED
  BY <1>1, <1>2, <1>4, <1>5, <1>6

(* Nobody else's release takes a lock away: a node loses it by its own, or *)
(* because its time is up, whatever outage let another node take it over.  *)
THEOREM OnlyOwnerReleasesHolds == Spec => OnlyOwnerReleases
<1>1. Init => HeldHasTime
  BY DEF Init, RedisInit, HeldHasTime, IsFree, Owns, FreeKey
<1>2. TypeOK /\ HeldHasTime /\ [Next]_vars =>
        [\A k \in Keys : \A n \in Nodes :
           Owns(k, n) /\ ~(redis'[k].owner = n) =>
             \/ node[n].pc \in {"dispatch", "abort", "release"} /\ node'[n] # node[n]
             \/ redis[k].left = 1 /\ node' = node]_vars
  BY ReleaseStep
<1> QED
  BY <1>1, <1>2, HeldInv, ClusterTypeCorrect, PTL DEF Spec, OnlyOwnerReleases

-------------------------------------------------------------------------------
(* No event is lost.  A node passes over a batch whose lock is taken, so   *)
(* the batches of a dead node must be free before the cluster's lock is:   *)
(* half the life of that lock must be as long as the life of a batch's.    *)

HalfOutlivesBatch == Ttl[Main] >= 2 /\ \A k \in Keys : k # Main => 2 * Ttl[k] <= Ttl[Main]

Batching == {"events", "dispatch", "abort"}

(* While a node works in a tick the cluster's lock has half its life left. *)
HalfLeft == \A n \in Nodes : InTick(n) => 2 * redis[Main].left + 1 >= Ttl[Main]

(* A batch's lock is held by the owner of the cluster's lock, for no longer *)
(* than that one, and a node in a tick is at work on that batch.            *)
HeldBatch(k) ==
  k # Main /\ ~IsFree(k) =>
    /\ redis[k].owner = redis[Main].owner
    /\ redis[k].left <= redis[Main].left
    /\ \A n \in Nodes : InTick(n) => node[n].pc \in Batching /\ k = Batch(n)

(* A batch lies between the cursor and the latest ledger the tick knows.   *)
Framed(n) ==
  node[n].pc \in {"lock", "events", "dispatch", "save"} =>
    /\ node[n].cursor < node[n].end /\ node[n].end <= node[n].cursor + BatchSize
    /\ node[n].end <= node[n].latest /\ node[n].latest <= latest

ClearedTo(c) == \A i \in Indexes : Cleared(i) \/ Script[i].ledger > c

(* What a node has behind it was applied, left out by a page, or is in its *)
(* hands.                                                                  *)
Accounted(n) ==
  /\ node[n].pc # "down" => ClearedTo(node[n].cursor)
  /\ node[n].pc = "save" => ClearedTo(node[n].end)
  /\ node[n].pc = "dispatch" =>
       \A i \in Indexes : Cleared(i) \/ i \in node[n].todo \/ Script[i].ledger > node[n].end

FrameInv == \A n \in Nodes : Framed(n)
LockInv == HalfLeft /\ \A k \in Keys : HeldBatch(k)
DataInv == ClearedTo(cursor) /\ \A n \in Nodes : Accounted(n)

LossInv == faults.outages = 0 => LockInv /\ DataInv

LEMMA EventsTyped ==
  ASSUME NEW i \in Indexes
  PROVE  Script[i].ledger \in Nat \ {0}
<1> DEFINE Events == [type : STRING, milestone : Milestones, amount : Nat, ledger : Nat \ {0}]
<1>1. Script \in Seq(Events)
  BY ClusterAssumption
<1> HIDE DEF Events
<1>2. Script[i] \in Events
  BY <1>1 DEF Indexes
<1> QED
  BY <1>2 DEF Events

LEMMA FrameStep == TypeOK /\ FrameInv /\ [Next]_vars => FrameInv'
<1> SUFFICES ASSUME TypeOK, FrameInv, [Next]_vars, NEW o \in Nodes PROVE Framed(o)'
  BY DEF FrameInv
<1>a. /\ node \in [Nodes -> NodeStates] /\ latest \in Nat /\ Framed(o)
      /\ \A n \in Nodes : node[n].cursor \in Nat /\ node[n].end \in Nat /\ node[n].latest \in Nat
      /\ BatchSize \in Nat \ {0} /\ LastLedger \in Nat
  BY KeysKnown DEF TypeOK, FrameInv, NodeStates, Ledgers
<1>1. CASE node'[o] = node[o] /\ latest' >= latest /\ latest' \in Nat
  BY <1>a, <1>1 DEF Framed
<1>2. CASE node'[o].pc \notin {"lock", "events", "dispatch", "save"}
  BY <1>2 DEF Framed
<1>3. CASE /\ latest' = latest /\ node[o].pc \in {"lock", "events", "dispatch", "save"}
           /\ node'[o].cursor = node[o].cursor /\ node'[o].end = node[o].end
           /\ node'[o].latest = node[o].latest
  BY <1>a, <1>3 DEF Framed
<1>4. ASSUME NEW c \in Nat, NEW last \in Nat, NextBatch(o, c, last), last <= latest,
             latest' = latest
      PROVE  Framed(o)'
  <2>1. CASE c >= last
    <3>1. node'[o].pc = "release"
      BY <1>4, <1>a, <2>1 DEF NextBatch, NodeStates
    <3> QED
      BY <3>1 DEF Framed
  <2>2. CASE ~(c >= last)
    <3> DEFINE end == IF c + BatchSize < last THEN c + BatchSize ELSE last
    <3>1. node' = [node EXCEPT ![o] = [@ EXCEPT !.pc = "lock", !.cursor = c, !.latest = last, !.end = end]]
      BY <1>4, <2>2 DEF NextBatch
    <3>2. c < end /\ end <= c + BatchSize /\ end <= last
      BY <1>a, <2>2
    <3> HIDE DEF end
    <3>3. node'[o].cursor = c /\ node'[o].latest = last /\ node'[o].end = end
      BY <1>a, <3>1 DEF NodeStates
    <3> QED
      BY <1>4, <3>2, <3>3 DEF Framed
  <2> QED
    BY <2>1, <2>2
<1>5. CASE CloseLedger
  BY <1>5, <1>a, <1>1 DEF CloseLedger
<1>6. CASE Elapse \/ LoseRedis \/ FindRedis \/ UNCHANGED vars
  BY <1>6, <1>a, <1>1 DEF Elapse, LoseRedis, FindRedis, vars
<1>7. ASSUME NEW n \in Nodes, Work(n) \/ RenewMain(n) \/ FailTick(n) \/ CrashNode(n), n # o
      PROVE  Framed(o)'
  <2>1. latest' = latest
    BY <1>7 DEF Work, StartNode, GetLatestLedger, AcquireBatch, GetEvents, DispatchEvent,
       ReleaseBatch, SaveCursor, ReleaseMain, AcquireMain, RenewMain, FailTick, CrashNode
  <2>2. node'[o] = node[o]
    BY <1>7, <1>a DEF Work, StartNode, GetLatestLedger, AcquireBatch, GetEvents, DispatchEvent,
       ReleaseBatch, SaveCursor, ReleaseMain, AcquireMain, RenewMain, FailTick, CrashNode, NextBatch, Go
  <2> QED
    BY <1>a, <1>1, <2>1, <2>2
<1>8. CASE StartNode(o) \/ ReleaseMain(o) \/ AcquireMain(o) \/ CrashNode(o)
  <2>1. node'[o].pc \in {"idle", "latest", "down"}
    BY <1>8, <1>a DEF StartNode, ReleaseMain, AcquireMain, CrashNode, Process, Stopped, NodeStates
  <2> QED
    BY <1>2, <2>1
<1>9. CASE GetLatestLedger(o)
  BY <1>9, <1>a, <1>4 DEF GetLatestLedger
<1>10. CASE SaveCursor(o)
  BY <1>10, <1>a, <1>4 DEF SaveCursor, Framed
<1>11. CASE AcquireBatch(o) \/ GetEvents(o) \/ DispatchEvent(o)
  <2>1. node'[o].cursor = node[o].cursor /\ node'[o].end = node[o].end /\ node'[o].latest = node[o].latest
    BY <1>11, <1>a DEF AcquireBatch, GetEvents, DispatchEvent, Go, NodeStates
  <2> QED
    BY <1>11, <1>3, <2>1 DEF AcquireBatch, GetEvents, DispatchEvent
<1>12. CASE ReleaseBatch(o)
  <2>1. node'[o].cursor = node[o].cursor /\ node'[o].end = node[o].end /\ node'[o].latest = node[o].latest
        /\ node'[o].pc = IF node[o].pc = "dispatch" THEN "save" ELSE "release"
    BY <1>12, <1>a DEF ReleaseBatch, NodeStates
  <2> QED
    BY <1>12, <1>2, <1>3, <2>1 DEF ReleaseBatch
<1>13. CASE RenewMain(o)
  <2>1. /\ node'[o].cursor = node[o].cursor /\ node'[o].end = node[o].end
        /\ node'[o].latest = node[o].latest /\ node'[o].pc = node[o].pc /\ latest' = latest
    BY <1>13, <1>a DEF RenewMain, NodeStates
  <2> QED
    BY <1>2, <1>3, <2>1
<1>14. CASE FailTick(o)
  <2>1. node'[o].pc \in {"release", "abort"}
    <3>1. CASE \E pc \in {"release", "abort"} : node' = [node EXCEPT ![o].pc = pc]
      BY <1>a, <3>1 DEF NodeStates
    <3>2. CASE node' = [node EXCEPT ![o] = [@ EXCEPT !.pc = "release", !.cursor = node[o].end]]
      BY <1>a, <3>2 DEF NodeStates
    <3> QED
      BY <1>14, <3>1, <3>2 DEF FailTick, Go
  <2> QED
    BY <1>2, <2>1
<1> QED
  BY <1>5, <1>6, <1>7, <1>8, <1>9, <1>10, <1>11, <1>12, <1>13, <1>14 DEF Next, Work

(* No batch is locked while the node of the tick is between two batches.   *)
LEMMA NoBatchLocked ==
  ASSUME LockInv, NEW n \in Nodes, InTick(n), node[n].pc \notin Batching,
         NEW k \in Keys, k # Main
  PROVE  IsFree(k)
<1> QED
  BY DEF LockInv, HeldBatch

(* A step that leaves the locks alone, and the batch of the node that has one. *)
LEMMA LocksKept ==
  ASSUME LockInv, NEW n \in Nodes, redis' = redis,
         \A o \in Nodes : o # n => node'[o] = node[o],
         InTick(n)' =>
           /\ InTick(n)
           /\ node[n].pc \in Batching =>
                /\ node'[n].pc \in Batching
                /\ node'[n].cursor = node[n].cursor /\ node'[n].end = node[n].end
  PROVE  LockInv'
<1>1. HalfLeft'
  <2> SUFFICES ASSUME NEW o \in Nodes, InTick(o)' PROVE (2 * redis[Main].left + 1 >= Ttl[Main])'
    BY DEF HalfLeft
  <2>1. InTick(o)
    BY DEF InTick
  <2> QED
    BY <2>1 DEF LockInv, HalfLeft
<1>2. ASSUME NEW k \in Keys PROVE HeldBatch(k)'
  <2> SUFFICES ASSUME k # Main, ~IsFree(k), NEW o \in Nodes, InTick(o)'
               PROVE  node'[o].pc \in Batching /\ k = Batch(o)'
    BY DEF LockInv, HeldBatch, IsFree, Owns
  <2>1. InTick(o)
    BY DEF InTick
  <2>2. node[o].pc \in Batching /\ k = Batch(o)
    BY <2>1 DEF LockInv, HeldBatch
  <2>3. CASE o = n
    BY <2>2, <2>3 DEF Batch
  <2>4. CASE o # n
    BY <2>2, <2>4 DEF Batch
  <2> QED
    BY <2>3, <2>4
<1> QED
  BY <1>1, <1>2 DEF LockInv

LEMMA BatchKnown ==
  ASSUME TypeOK, NEW n \in Nodes, Framed(n), node[n].pc = "lock"
  PROVE  Batch(n) \in Keys /\ Batch(n) # Main
<1> DEFINE from == node[n].cursor + 1
           to   == node[n].end
<1>1. /\ node[n].cursor \in Ledgers /\ to \in Ledgers /\ node[n].cursor < to
      /\ to <= node[n].cursor + BatchSize /\ LastLedger \in Nat /\ BatchSize \in Nat \ {0}
  BY KeysKnown DEF TypeOK, NodeStates, Framed
<1>2. from \in Ledgers /\ 0 < from /\ from <= to /\ to < from + BatchSize
  BY <1>1 DEF Ledgers
<1> HIDE DEF from, to
<1>3. <<from, to>> \in Ranges
  BY <1>1, <1>2 DEF Ranges
<1>4. BatchKey(from, to) \in Keys
  BY <1>3, ClusterAssumption
<1> QED
  BY <1>4, BatchIsNotMain DEF Batch, from, to

(* What holds before a step of a node while Redis answers.  *)
Settled == TypeOK /\ HeldHasTime /\ FrameInv /\ redisUp /\ LockInv /\ \A o \in Nodes : Guarded(o)

(* Whoever does not own the cluster's lock is in no tick.  *)
LEMMA OthersOut ==
  ASSUME Settled, NEW n \in Nodes, Owns(Main, n) \/ IsFree(Main), NEW o \in Nodes, o # n
  PROVE  ~InTick(o)
<1> QED
  BY LockAssumption DEF Settled, Guarded, IsFree, Owns

LEMMA WorkLocked ==
  ASSUME HalfOutlivesBatch, Settled, NEW n \in Nodes, Work(n)
  PROVE  LockInv'
<1>a. /\ node \in [Nodes -> NodeStates] /\ redis \in [Keys -> Locks] /\ Main \in Keys
      /\ Nobody \notin Nodes /\ Ttl \in [Keys -> Nat \ {0}]
  BY KeysKnown DEF Settled, TypeOK, RedisTypeOK, Locks
<1>b. TypeOK /\ redisUp /\ FrameInv /\ LockInv /\ HalfLeft /\ \A k \in Keys : HeldBatch(k)
  BY DEF Settled, LockInv
<1>c. InTick(n) => Owns(Main, n)
  BY DEF Settled, Guarded
<1>1. CASE StartNode(n)
  <2>1. redis' = redis /\ node' = [node EXCEPT ![n] = Process("idle", cursor)]
    BY <1>1 DEF StartNode
  <2>2. ~InTick(n)' /\ \A o \in Nodes : o # n => node'[o] = node[o]
    BY <1>a, <2>1 DEF InTick, Process
  <2> QED
    BY <1>b, <2>1, <2>2, LocksKept
<1>2. CASE GetLatestLedger(n) \/ SaveCursor(n)
  <2>1. redis' = redis /\ InTick(n) /\ node[n].pc \notin Batching
    BY <1>2 DEF GetLatestLedger, SaveCursor, InTick, Batching
  <2>2. \E c, last : NextBatch(n, c, last)
    BY <1>2 DEF GetLatestLedger, SaveCursor
  <2>3. \A o \in Nodes : o # n => node'[o] = node[o]
    BY <1>a, <2>2 DEF NextBatch
  <2> QED
    BY <1>b, <2>1, <2>3, LocksKept
<1>3. CASE AcquireBatch(n)
  <2> DEFINE b == Batch(n)
  <2>1. InTick(n) /\ node[n].pc = "lock" /\ node[n].pc \notin Batching
    BY <1>3 DEF AcquireBatch, InTick, Batching
  <2>2. b \in Keys /\ b # Main
    BY <1>b, <2>1, BatchKnown DEF FrameInv
  <2>3. \A k \in Keys : k # Main => IsFree(k)
    BY <1>b, <2>1, NoBatchLocked
  <2>4. SetIfAbsent(b, n) /\ Go(n, "events")
    BY <1>3, <1>b, <2>2, <2>3 DEF AcquireBatch
  <2>5. /\ node'[n].pc = "events" /\ Batch(n)' = b
        /\ \A o \in Nodes : o # n => node'[o] = node[o]
    BY <1>a, <2>4 DEF Go, NodeStates, Batch
  <2> HIDE DEF b
  <2>6. /\ redis'[b].owner = n /\ redis'[b].left = Ttl[b]
        /\ \A k \in Keys : k # b => redis'[k] = redis[k]
    BY <1>a, <2>2, <2>4 DEF SetIfAbsent
  <2>7. 2 * redis[Main].left + 1 >= Ttl[Main] /\ redis[Main].owner = n
    BY <1>b, <1>c, <2>1 DEF HalfLeft, Owns
  <2>8. Ttl[b] <= redis[Main].left
    <3>1. 2 * Ttl[b] <= Ttl[Main] /\ Ttl[b] \in Nat /\ Ttl[Main] \in Nat /\ redis[Main].left \in Nat
      BY <1>a, <2>2 DEF HalfOutlivesBatch, Locks
    <3> QED
      BY <2>7, <3>1
  <2>9. \A o \in Nodes : InTick(o)' => o = n
    <3>1. ASSUME NEW o \in Nodes, o # n PROVE ~InTick(o)'
      <4>1. ~InTick(o)
        BY <1>c, <2>1, <3>1, OthersOut
      <4> QED
        BY <2>5, <3>1, <4>1 DEF InTick
    <3> QED
      BY <3>1
  <2>10. HalfLeft'
    BY <1>a, <2>2, <2>6, <2>7 DEF HalfLeft
  <2>11. ASSUME NEW k \in Keys PROVE HeldBatch(k)'
    <3>1. CASE k = b
      <4>1. redis'[Main] = redis[Main]
        BY <1>a, <2>2, <2>6
      <4>2. node'[n].pc \in Batching
        BY <2>5 DEF Batching
      <4> QED
        BY <2>5, <2>6, <2>7, <2>8, <2>9, <3>1, <4>1, <4>2 DEF HeldBatch
    <3>2. CASE k # b
      BY <2>3, <2>6, <3>2 DEF HeldBatch, IsFree, Owns
    <3> QED
      BY <3>1, <3>2
  <2> QED
    BY <2>10, <2>11 DEF LockInv
<1>4. CASE GetEvents(n) \/ DispatchEvent(n)
  <2>1. redis' = redis /\ InTick(n)
    BY <1>4 DEF GetEvents, DispatchEvent, InTick
  <2>2. /\ node'[n].pc = "dispatch" /\ node'[n].cursor = node[n].cursor /\ node'[n].end = node[n].end
        /\ \A o \in Nodes : o # n => node'[o] = node[o]
    <3>1. CASE GetEvents(n)
      BY <1>a, <3>1 DEF GetEvents, NodeStates
    <3>2. CASE DispatchEvent(n)
      <4>1. PICK i : node' = [node EXCEPT ![n].todo = @ \ {i}]
        BY <3>2 DEF DispatchEvent
      <4>2. node[n].pc = "dispatch"
        BY <3>2 DEF DispatchEvent
      <4> QED
        BY <1>a, <4>1, <4>2 DEF NodeStates
    <3> QED
      BY <1>4, <3>1, <3>2
  <2> QED
    BY <1>b, <2>1, <2>2, LocksKept DEF Batching
<1>5. CASE ReleaseBatch(n)
  <2>1. /\ InTick(n) /\ ReleaseScript(Batch(n), n)
        /\ node'[n].pc \in {"save", "release"} /\ \A o \in Nodes : o # n => node'[o] = node[o]
    BY <1>5, <1>a, <1>b DEF ReleaseBatch, BatchDone, InTick, NodeStates
  <2>2. Batch(n) # Main
    BY BatchIsNotMain DEF Batch
  <2>3. redis'[Main] = redis[Main]
    BY <1>b, <2>1, <2>2, MainStays
  <2>4. ASSUME NEW k \in Keys, k # Main PROVE redis'[k].owner = Nobody
    <3>1. CASE IsFree(k)
      BY <1>a, <2>1, <3>1 DEF ReleaseScript, IsFree, Owns, FreeKey
    <3>2. CASE ~IsFree(k)
      <4>1. k = Batch(n) /\ Owns(k, n)
        BY <1>b, <1>c, <2>1, <2>4, <3>2 DEF HeldBatch, Owns
      <4> QED
        BY <1>a, <2>1, <4>1 DEF ReleaseScript, FreeKey
    <3> QED
      BY <3>1, <3>2
  <2>5. HalfLeft'
    BY <1>b, <2>1, <2>3 DEF HalfLeft, InTick
  <2> QED
    BY <2>4, <2>5 DEF LockInv, HeldBatch, IsFree, Owns
<1>6. CASE ReleaseMain(n)
  <2>1. /\ InTick(n) /\ node[n].pc \notin Batching /\ ReleaseScript(Main, n)
        /\ node' = [node EXCEPT ![n] = Process("idle", node[n].cursor)]
    BY <1>6, <1>b DEF ReleaseMain, InTick, Batching
  <2>2. \A k \in Keys : k # Main => IsFree(k)
    BY <1>b, <2>1, NoBatchLocked
  <2>3. \A k \in Keys : k # Main => redis'[k].owner = Nobody
    BY <1>a, <2>1, <2>2 DEF ReleaseScript, IsFree, Owns
  <2>4. \A o \in Nodes : ~InTick(o)'
    <3>1. ASSUME NEW o \in Nodes, o # n PROVE ~InTick(o)'
      <4>1. ~InTick(o)
        BY <1>c, <2>1, <3>1, OthersOut
      <4> QED
        BY <1>a, <2>1, <3>1, <4>1 DEF InTick
    <3>2. ~InTick(n)'
      BY <1>a, <2>1 DEF InTick, Process
    <3> QED
      BY <3>1, <3>2
  <2> QED
    BY <2>3, <2>4 DEF LockInv, HeldBatch, HalfLeft, IsFree, Owns
<1>7. CASE AcquireMain(n)
  <2>1. IsFree(Main) /\ redis' = [redis EXCEPT ![Main] = [owner |-> n, left |-> Ttl[Main]]]
    BY <1>7 DEF AcquireMain, SetIfAbsent
  <2>2. ASSUME NEW k \in Keys, k # Main PROVE redis'[k].owner = Nobody
    <3>1. IsFree(k)
      BY <1>b, <2>1, <2>2 DEF HeldBatch, IsFree, Owns
    <3> QED
      BY <1>a, <2>1, <2>2, <3>1 DEF IsFree, Owns
  <2>3. redis'[Main].left = Ttl[Main] /\ Ttl[Main] \in Nat
    BY <1>a, <2>1
  <2>4. 2 * Ttl[Main] + 1 >= Ttl[Main]
    BY <2>3
  <2> QED
    BY <2>2, <2>3, <2>4 DEF LockInv, HeldBatch, HalfLeft, IsFree, Owns
<1> QED
  BY <1>1, <1>2, <1>3, <1>4, <1>5, <1>6, <1>7 DEF Work

LEMMA RestLocked ==
  ASSUME HalfOutlivesBatch, Settled, [Next]_vars, ~ \E n \in Nodes : Work(n)
  PROVE  LockInv'
<1>a. /\ node \in [Nodes -> NodeStates] /\ redis \in [Keys -> Locks] /\ Main \in Keys
      /\ Nobody \notin Nodes /\ Ttl \in [Keys -> Nat \ {0}]
  BY KeysKnown DEF Settled, TypeOK, RedisTypeOK, Locks
<1>b. TypeOK /\ redisUp /\ LockInv /\ HalfLeft /\ HeldHasTime /\ \A k \in Keys : HeldBatch(k)
  BY DEF Settled, LockInv
<1>1. CASE UNCHANGED <<redis, node>>
  BY <1>1, <1>b DEF LockInv, HalfLeft, HeldBatch, IsFree, Owns, InTick, Batch
<1>2. CASE Elapse
  <2>1. node' = node /\ RedisTick /\ \A n \in Nodes : ~(node[n].timer /\ RenewalDue(Main, n))
    BY <1>2, <1>b DEF Elapse
  <2>2. ASSUME NEW n \in Nodes, InTick(n)
        PROVE  /\ 2 * redis[Main].left > Ttl[Main]
               /\ redis'[Main] = [redis[Main] EXCEPT !.left = @ - 1]
    <3>1. ~(2 * redis[Main].left <= Ttl[Main])
      BY <2>1, <2>2 DEF Settled, Guarded, RenewalDue
    <3>2. 2 * redis[Main].left > Ttl[Main] /\ redis[Main].left > 1
      BY <1>a, <3>1 DEF Locks, HalfOutlivesBatch
    <3> QED
      BY <1>a, <2>1, <3>2 DEF RedisTick, Locks
  <2>3. HalfLeft'
    <3> SUFFICES ASSUME NEW n \in Nodes, InTick(n)'
                 PROVE  2 * redis'[Main].left + 1 >= Ttl[Main]
      BY DEF HalfLeft
    <3>1. InTick(n)
      BY <2>1 DEF InTick
    <3>2. redis'[Main].left = redis[Main].left - 1 /\ 2 * redis[Main].left > Ttl[Main]
      BY <1>a, <2>2, <3>1 DEF Locks
    <3>3. redis[Main].left \in Nat /\ Ttl[Main] \in Nat
      BY <1>a DEF Locks
    <3> QED
      BY <3>2, <3>3
  <2>4. ASSUME NEW k \in Keys PROVE HeldBatch(k)'
    <3> SUFFICES ASSUME k # Main, redis'[k].owner # Nobody PROVE HeldBatch(k)'
      BY DEF HeldBatch, IsFree, Owns
    <3>1. redis[k].left > 1 /\ redis'[k] = [redis[k] EXCEPT !.left = @ - 1]
      BY <1>a, <2>1 DEF RedisTick, FreeKey, Locks
    <3>2. ~IsFree(k)
      BY <1>a, <3>1 DEF IsFree, Owns, Locks
    <3>3. redis[k].owner = redis[Main].owner /\ redis[k].left <= redis[Main].left
      BY <1>b, <3>2 DEF HeldBatch
    <3>4. redis'[Main] = [redis[Main] EXCEPT !.left = @ - 1]
      BY <1>a, <2>1, <3>1, <3>3 DEF RedisTick, Locks
    <3>5. redis'[k].owner = redis'[Main].owner /\ redis'[k].left <= redis'[Main].left
      BY <1>a, <3>1, <3>3, <3>4 DEF Locks
    <3>6. \A n \in Nodes : InTick(n)' => node'[n].pc \in Batching /\ k = Batch(n)'
      BY <1>b, <2>1, <3>2 DEF HeldBatch, InTick, Batch
    <3> QED
      BY <3>5, <3>6 DEF HeldBatch
  <2> QED
    BY <2>3, <2>4 DEF LockInv
<1>3. ASSUME NEW n \in Nodes, RenewMain(n) PROVE LockInv'
  <2>1. /\ RenewScript(Main, n) /\ (RenewalDue(Main, n) \/ ~Owns(Main, n))
        /\ \A o \in Nodes : /\ node'[o].pc = node[o].pc /\ node'[o].cursor = node[o].cursor
                            /\ node'[o].end = node[o].end
    BY <1>3, <1>a DEF RenewMain, NodeStates
  <2>2. \A o \in Nodes : InTick(o)' = InTick(o) /\ Batch(o)' = Batch(o)
    BY <2>1 DEF InTick, Batch
  <2>3. /\ \A k \in Keys : k # Main => redis'[k] = redis[k]
        /\ redis'[Main].owner = redis[Main].owner /\ redis'[Main].left \in Nat
        /\ redis'[Main].left >= redis[Main].left
    <3>1. CASE ~Owns(Main, n)
      BY <1>a, <2>1, <3>1 DEF RenewScript, Locks
    <3>2. CASE RenewalDue(Main, n)
      <4>1. redis' = [redis EXCEPT ![Main].left = Ttl[Main]]
        BY <2>1, <3>2 DEF RenewScript, RenewalDue
      <4>2. 2 * redis[Main].left <= Ttl[Main] /\ redis[Main].left \in Nat /\ Ttl[Main] \in Nat
        BY <1>a, <3>2 DEF RenewalDue, Locks
      <4>3. redis[Main].left <= Ttl[Main]
        BY <4>2
      <4>4. redis'[Main].owner = redis[Main].owner /\ redis'[Main].left = Ttl[Main]
        BY <1>a, <4>1 DEF Locks
      <4> QED
        BY <1>a, <4>1, <4>2, <4>3, <4>4
    <3> QED
      BY <2>1, <3>1, <3>2
  <2>4. redis[Main].left \in Nat /\ Ttl[Main] \in Nat /\ \A k \in Keys : redis[k].left \in Nat
    BY <1>a DEF Locks
  <2>5. HalfLeft'
    <3> SUFFICES ASSUME NEW o \in Nodes, InTick(o) PROVE 2 * redis'[Main].left + 1 >= Ttl[Main]
      BY <2>2 DEF HalfLeft
    <3>1. 2 * redis[Main].left + 1 >= Ttl[Main]
      BY <1>b DEF HalfLeft
    <3> QED
      BY <2>3, <2>4, <3>1
  <2>6. ASSUME NEW k \in Keys PROVE HeldBatch(k)'
    <3> SUFFICES ASSUME k # Main, ~IsFree(k) PROVE HeldBatch(k)'
      BY <2>3 DEF HeldBatch, IsFree, Owns
    <3>1. redis[k].owner = redis[Main].owner /\ redis[k].left <= redis[Main].left
      BY <1>b DEF HeldBatch
    <3>2. redis'[k].owner = redis'[Main].owner /\ redis'[k].left <= redis'[Main].left
      BY <2>3, <2>4, <3>1
    <3>3. \A o \in Nodes : InTick(o)' => node'[o].pc \in Batching /\ k = Batch(o)'
      BY <1>b, <2>1, <2>2 DEF HeldBatch
    <3> QED
      BY <3>2, <3>3 DEF HeldBatch
  <2> QED
    BY <2>5, <2>6 DEF LockInv
<1>4. ASSUME NEW n \in Nodes, FailTick(n) PROVE LockInv'
  <2>1. redis' = redis /\ InTick(n)
    BY <1>4 DEF FailTick, InTick
  <2>2. CASE node[n].pc \in {"events", "dispatch"} /\ Go(n, "abort")
    <3>1. /\ node'[n].pc = "abort" /\ node'[n].cursor = node[n].cursor /\ node'[n].end = node[n].end
          /\ \A o \in Nodes : o # n => node'[o] = node[o]
      BY <1>a, <2>2 DEF Go, NodeStates
    <3> QED
      BY <1>b, <2>1, <3>1, LocksKept DEF Batching
  <2>3. CASE node[n].pc \in {"latest", "save"} /\ \A o \in Nodes : o # n => node'[o] = node[o]
    <3>1. node[n].pc \notin Batching
      BY <2>3 DEF Batching
    <3> QED
      BY <1>b, <2>1, <2>3, <3>1, LocksKept
  <2>4. \/ node[n].pc \in {"events", "dispatch"} /\ Go(n, "abort")
        \/ node[n].pc \in {"latest", "save"} /\ \A o \in Nodes : o # n => node'[o] = node[o]
    <3>1. CASE node[n].pc = "latest" /\ Go(n, "release")
      BY <1>a, <3>1 DEF Go
    <3>2. CASE node[n].pc = "save" /\ node' = [node EXCEPT ![n] = [@ EXCEPT !.pc = "release", !.cursor = node[n].end]]
      BY <1>a, <3>2
    <3> QED
      BY <1>4, <3>1, <3>2 DEF FailTick
  <2> QED
    BY <2>2, <2>3, <2>4
<1>5. ASSUME NEW n \in Nodes, CrashNode(n) PROVE LockInv'
  <2>1. redis' = redis
    BY <1>5 DEF CrashNode
  <2>2. ~InTick(n)' /\ \A o \in Nodes : o # n => node'[o] = node[o]
    BY <1>5, <1>a DEF CrashNode, InTick, Stopped, Process
  <2> QED
    BY <1>b, <2>1, <2>2, LocksKept
<1>6. UNCHANGED <<redis, node>> \/ Elapse
      \/ \E n \in Nodes : RenewMain(n) \/ FailTick(n) \/ CrashNode(n)
  BY DEF Next, vars, CloseLedger, LoseRedis, FindRedis
<1> QED
  BY <1>1, <1>2, <1>3, <1>4, <1>5, <1>6

(* An event that was applied, or left out, stays so.  *)
LEMMA ClearedStays ==
  ASSUME TypeOK, [Next]_vars, NEW i \in Indexes, Cleared(i)
  PROVE  Cleared(i)'
<1>1. handled \in [Indexes -> Nat]
  BY DEF TypeOK
<1>2. ASSUME NEW n \in Nodes, DispatchEvent(n) PROVE Cleared(i)'
  <2>1. PICK j : handled' = [handled EXCEPT ![j] = @ + 1]
    BY <1>2 DEF DispatchEvent
  <2>2. cut' = cut
    BY <1>2 DEF DispatchEvent
  <2> QED
    BY <1>1, <2>1, <2>2 DEF Cleared
<1>3. ASSUME NEW n \in Nodes, GetEvents(n) PROVE Cleared(i)'
  <2>1. handled' = handled /\ cut \subseteq cut'
    BY <1>3 DEF GetEvents
  <2> QED
    BY <2>1 DEF Cleared
<1>4. UNCHANGED <<handled, cut>> \/ \E n \in Nodes : DispatchEvent(n) \/ GetEvents(n)
  BY DEF Next, vars, Work, CloseLedger, Elapse, LoseRedis, FindRedis, FailTick, CrashNode, StartNode,
     GetLatestLedger, AcquireBatch, ReleaseBatch, SaveCursor, ReleaseMain, AcquireMain, RenewMain
<1> QED
  BY <1>2, <1>3, <1>4 DEF Cleared

LEMMA ClearedToStays ==
  ASSUME TypeOK, [Next]_vars, NEW c, ClearedTo(c)
  PROVE  \A i \in Indexes : Cleared(i)' \/ Script[i].ledger > c
<1> QED
  BY ClearedStays DEF ClearedTo

(* What is behind a node that does no step of its own.  *)
LEMMA AccountedStays ==
  ASSUME TypeOK, [Next]_vars, NEW o \in Nodes, Accounted(o),
         \/ node'[o] = node[o]
         \/ /\ node'[o].pc = node[o].pc /\ node'[o].cursor = node[o].cursor
            /\ node'[o].end = node[o].end /\ node'[o].todo = node[o].todo
  PROVE  Accounted(o)'
<1>1. /\ node'[o].pc = node[o].pc /\ node'[o].cursor = node[o].cursor
      /\ node'[o].end = node[o].end /\ node'[o].todo = node[o].todo
  OBVIOUS
<1>2. node'[o].pc # "down" => ClearedTo(node[o].cursor)
  BY <1>1 DEF Accounted
<1>3. node'[o].pc = "save" => ClearedTo(node[o].end)
  BY <1>1 DEF Accounted
<1>4. node'[o].pc = "dispatch" =>
        \A i \in Indexes : Cleared(i)' \/ i \in node[o].todo \/ Script[i].ledger > node[o].end
  BY <1>1, ClearedStays DEF Accounted
<1> QED
  BY <1>1, <1>2, <1>3, <1>4, ClearedToStays DEF Accounted, ClearedTo

(* A batch is never skipped: its lock is free when a node asks for it.     *)
LEMMA BatchTaken ==
  ASSUME Settled, NEW n \in Nodes, AcquireBatch(n)
  PROVE  Go(n, "events")
<1>1. Batch(n) \in Keys /\ Batch(n) # Main
  BY BatchKnown DEF AcquireBatch, Settled, FrameInv
<1>2. InTick(n) /\ node[n].pc \notin Batching
  BY DEF AcquireBatch, InTick, Batching
<1>3. IsFree(Batch(n)) /\ redisUp
  BY <1>1, <1>2, NoBatchLocked DEF Settled
<1> QED
  BY <1>3 DEF AcquireBatch

LEMMA NextBatchAccounted ==
  ASSUME TypeOK, [Next]_vars, NEW n \in Nodes, NEW c, NEW last, NextBatch(n, c, last), ClearedTo(c)
  PROVE  Accounted(n)'
<1>1. node \in [Nodes -> NodeStates]
  BY DEF TypeOK
<1>2. node'[n].pc \in {"release", "lock"} /\ node'[n].cursor = c
  BY <1>1 DEF NextBatch, NodeStates
<1> QED
  BY <1>2, ClearedToStays DEF Accounted, ClearedTo

LEMMA WorkAccounted ==
  ASSUME Settled, [Next]_vars, DataInv, NEW n \in Nodes, Work(n)
  PROVE  Accounted(n)'
<1>a. TypeOK /\ node \in [Nodes -> NodeStates] /\ Accounted(n) /\ ClearedTo(cursor) /\ Framed(n)
  BY DEF Settled, TypeOK, DataInv, FrameInv
<1>b. ASSUME node[n].pc # "down", node'[n].cursor = node[n].cursor, node'[n].pc \notin {"save", "dispatch"}
      PROVE  Accounted(n)'
  BY <1>a, <1>b, ClearedToStays DEF Accounted, ClearedTo
<1>1. CASE StartNode(n)
  <2>1. node'[n].pc = "idle" /\ node'[n].cursor = cursor
    BY <1>1, <1>a DEF StartNode, Process
  <2> QED
    BY <1>a, <2>1, ClearedToStays DEF Accounted, ClearedTo
<1>2. CASE GetLatestLedger(n)
  BY <1>2, <1>a, NextBatchAccounted DEF GetLatestLedger, Accounted
<1>3. CASE AcquireBatch(n)
  <2>1. Go(n, "events") /\ node[n].pc = "lock"
    BY <1>3, BatchTaken DEF AcquireBatch
  <2>2. node'[n].pc = "events" /\ node'[n].cursor = node[n].cursor
    BY <1>a, <2>1 DEF Go, NodeStates
  <2> QED
    BY <1>b, <2>1, <2>2
<1>4. CASE GetEvents(n)
  <2>1. /\ node[n].pc = "events" /\ node'[n].pc = "dispatch"
        /\ node'[n].cursor = node[n].cursor /\ node'[n].end = node[n].end
        /\ node'[n].todo = Page(Sought(n)) /\ Sought(n) \ Page(Sought(n)) \subseteq cut'
    BY <1>4, <1>a DEF GetEvents, NodeStates
  <2>2. ClearedTo(node[n].cursor) /\ node[n].end <= latest
        /\ node[n].cursor \in Nat /\ node[n].end \in Nat /\ latest \in Nat
    <3>1. node[n].cursor \in Nat /\ node[n].end \in Nat /\ latest \in Nat /\ node[n].latest \in Nat
      BY <1>a DEF NodeStates, Ledgers, TypeOK
    <3> QED
      BY <1>a, <2>1, <3>1 DEF Accounted, Framed
  <2>3. \A i \in Indexes : Cleared(i) => Cleared(i)'
    BY <1>a, ClearedStays
  <2>4. ASSUME NEW i \in Indexes
        PROVE  Cleared(i)' \/ i \in node'[n].todo \/ Script[i].ledger > node'[n].end
    <3>1. Script[i].ledger \in Nat
      BY EventsTyped
    <3>2. CASE Script[i].ledger \in (node[n].cursor + 1) .. node[n].end
      <4>1. Script[i].ledger <= latest
        BY <2>2, <3>1, <3>2
      <4>2. i \in Sought(n)
        BY <3>2, <4>1 DEF Sought
      <4> QED
        BY <2>1, <4>2 DEF Cleared
    <3>3. CASE ~(Script[i].ledger > node[n].cursor)
      BY <2>2, <2>3, <3>3 DEF ClearedTo
    <3>4. CASE Script[i].ledger > node[n].end
      BY <2>1, <3>4
    <3> QED
      BY <2>2, <3>1, <3>2, <3>3, <3>4
  <2> QED
    BY <2>1, <2>2, <2>3, <2>4 DEF Accounted, ClearedTo
<1>5. CASE DispatchEvent(n)
  <2>1. node[n].pc = "dispatch"
    BY <1>5 DEF DispatchEvent
  <2>2. PICK i \in node[n].todo :
           handled' = [handled EXCEPT ![i] = @ + 1] /\ node' = [node EXCEPT ![n].todo = @ \ {i}]
    BY <1>5 DEF DispatchEvent
  <2>3. /\ node'[n].pc = "dispatch" /\ node'[n].cursor = node[n].cursor
        /\ node'[n].end = node[n].end /\ node'[n].todo = node[n].todo \ {i}
    BY <1>a, <2>1, <2>2 DEF NodeStates
  <2>4. Cleared(i)'
    <3>1. i \in Indexes /\ handled \in [Indexes -> Nat]
      BY <1>a DEF TypeOK, NodeStates
    <3> QED
      BY <2>2, <3>1 DEF Cleared
  <2>5. \A j \in Indexes : Cleared(j) => Cleared(j)'
    BY <1>a, ClearedStays
  <2>6. \A j \in Indexes : Cleared(j)' \/ j \in node'[n].todo \/ Script[j].ledger > node'[n].end
    BY <1>a, <2>1, <2>3, <2>4, <2>5 DEF Accounted
  <2>7. ClearedTo(node[n].cursor)
    BY <1>a, <2>1 DEF Accounted
  <2> QED
    BY <2>3, <2>5, <2>6, <2>7 DEF Accounted, ClearedTo
<1>6. CASE ReleaseBatch(n)
  <2>1. node' = [node EXCEPT ![n].pc = IF @ = "dispatch" THEN "save" ELSE "release", ![n].todo = {}]
    BY <1>6 DEF ReleaseBatch
  <2>2. node'[n].cursor = node[n].cursor /\ node'[n].end = node[n].end
        /\ node'[n].pc = IF node[n].pc = "dispatch" THEN "save" ELSE "release"
    BY <1>a, <2>1 DEF NodeStates
  <2>3. CASE node[n].pc = "dispatch"
    <3>1. node[n].todo = {}
      BY <1>6, <2>3 DEF ReleaseBatch, BatchDone
    <3>2. ClearedTo(node[n].end) /\ ClearedTo(node[n].cursor)
      BY <1>a, <2>3, <3>1 DEF Accounted, ClearedTo
    <3>3. node'[n].pc = "save"
      BY <2>2, <2>3
    <3> QED
      BY <1>a, <2>2, <3>2, <3>3, ClearedToStays DEF Accounted, ClearedTo
  <2>4. CASE node[n].pc # "dispatch"
    BY <1>6, <1>b, <2>2, <2>4 DEF ReleaseBatch, BatchDone
  <2> QED
    BY <2>3, <2>4
<1>7. CASE SaveCursor(n)
  BY <1>7, <1>a, NextBatchAccounted DEF SaveCursor, Accounted
<1>8. CASE ReleaseMain(n)
  <2>1. node[n].pc = "release" /\ node'[n].pc = "idle" /\ node'[n].cursor = node[n].cursor
    BY <1>8, <1>a DEF ReleaseMain, Process
  <2> QED
    BY <1>b, <2>1
<1>9. CASE AcquireMain(n)
  <2>1. node[n].pc = "idle" /\ node'[n].pc = "latest" /\ node'[n].cursor = node[n].cursor
    BY <1>9, <1>a DEF AcquireMain, NodeStates
  <2> QED
    BY <1>b, <2>1
<1> QED
  BY <1>1, <1>2, <1>3, <1>4, <1>5, <1>6, <1>7, <1>8, <1>9 DEF Work

LEMMA DataStep ==
  ASSUME Settled, [Next]_vars, DataInv
  PROVE  DataInv'
<1>a. TypeOK /\ node \in [Nodes -> NodeStates] /\ ClearedTo(cursor) /\ \A n \in Nodes : Accounted(n)
  BY DEF Settled, TypeOK, DataInv
<1>1. ClearedTo(cursor)'
  <2>1. CASE cursor' = cursor
    BY <1>a, <2>1, ClearedToStays DEF ClearedTo
  <2>2. ASSUME NEW n \in Nodes, SaveCursor(n) PROVE ClearedTo(cursor)'
    <3>1. cursor' = node[n].end /\ ClearedTo(node[n].end)
      BY <1>a, <2>2 DEF SaveCursor, Accounted
    <3> QED
      BY <1>a, <3>1, ClearedToStays DEF ClearedTo
  <2>3. cursor' = cursor \/ \E n \in Nodes : SaveCursor(n)
    BY DEF Next, vars, Work, CloseLedger, Elapse, LoseRedis, FindRedis, FailTick, CrashNode, StartNode,
       GetLatestLedger, AcquireBatch, GetEvents, DispatchEvent, ReleaseBatch, ReleaseMain, AcquireMain,
       RenewMain
  <2> QED
    BY <2>1, <2>2, <2>3
<1>2. ASSUME NEW o \in Nodes PROVE Accounted(o)'
  <2>1. CASE node'[o] = node[o]
    BY <1>a, <2>1, AccountedStays
  <2>2. CASE Work(o)
    BY <2>2, WorkAccounted
  <2>3. CASE RenewMain(o)
    <3>1. /\ node'[o].pc = node[o].pc /\ node'[o].cursor = node[o].cursor
          /\ node'[o].end = node[o].end /\ node'[o].todo = node[o].todo
      BY <1>a, <2>3 DEF RenewMain, NodeStates
    <3> QED
      BY <1>a, <3>1, AccountedStays
  <2>4. CASE FailTick(o)
    <3>1. CASE node[o].pc # "save"
      <4>1. node[o].pc # "down" /\ \E pc \in {"release", "abort"} : Go(o, pc)
        BY <2>4, <3>1 DEF FailTick
      <4>2. node'[o].pc \in {"release", "abort"} /\ node'[o].cursor = node[o].cursor
        BY <1>a, <4>1 DEF Go, NodeStates
      <4> QED
        BY <1>a, <4>1, <4>2, ClearedToStays DEF Accounted, ClearedTo
    <3>2. CASE node[o].pc = "save"
      <4>1. node' = [node EXCEPT ![o] = [@ EXCEPT !.pc = "release", !.cursor = node[o].end]]
        BY <2>4, <3>2 DEF FailTick
      <4>2. node'[o].pc = "release" /\ node'[o].cursor = node[o].end
        BY <1>a, <4>1 DEF NodeStates
      <4> QED
        BY <1>a, <3>2, <4>2, ClearedToStays DEF Accounted, ClearedTo
    <3> QED
      BY <3>1, <3>2
  <2>5. CASE CrashNode(o)
    <3>1. node'[o].pc = "down"
      BY <1>a, <2>5 DEF CrashNode, Stopped, Process
    <3> QED
      BY <3>1 DEF Accounted
  <2>6. ASSUME NEW n \in Nodes, n # o, Work(n) \/ RenewMain(n) \/ FailTick(n) \/ CrashNode(n)
        PROVE  node'[o] = node[o]
    BY <1>a, <2>6 DEF Work, StartNode, GetLatestLedger, AcquireBatch, GetEvents, DispatchEvent,
       ReleaseBatch, SaveCursor, ReleaseMain, AcquireMain, RenewMain, FailTick, CrashNode, NextBatch, Go
  <2>7. \/ node' = node
        \/ \E n \in Nodes : Work(n) \/ RenewMain(n) \/ FailTick(n) \/ CrashNode(n)
    BY DEF Next, vars, CloseLedger, Elapse, LoseRedis, FindRedis
  <2> QED
    BY <2>1, <2>2, <2>3, <2>4, <2>5, <2>6, <2>7
<1> QED
  BY <1>1, <1>2 DEF DataInv

(* An outage is never undone.  *)
LEMMA OutagesStay ==
  ASSUME TypeOK, [Next]_vars, faults'.outages = 0
  PROVE  faults.outages = 0
<1>1. CASE LoseRedis
  BY <1>1, FaultsTyped DEF LoseRedis
<1>2. ASSUME NEW n \in Nodes, FailTick(n) \/ CrashNode(n) PROVE faults.outages = 0
  BY <1>2, FaultsTyped DEF FailTick, CrashNode
<1>3. faults' = faults \/ LoseRedis \/ \E n \in Nodes : FailTick(n) \/ CrashNode(n)
  BY DEF Next, vars, Work, CloseLedger, Elapse, FindRedis, StartNode, GetLatestLedger, AcquireBatch,
     GetEvents, DispatchEvent, ReleaseBatch, SaveCursor, ReleaseMain, AcquireMain, RenewMain
<1> QED
  BY <1>1, <1>2, <1>3

LEMMA LossStep ==
  HalfOutlivesBatch /\ TypeOK /\ HeldHasTime /\ FrameInv /\ TickInv /\ LossInv /\ [Next]_vars => LossInv'
<1> SUFFICES ASSUME HalfOutlivesBatch, TypeOK, HeldHasTime, FrameInv, TickInv, LossInv, [Next]_vars,
                    faults'.outages = 0
             PROVE  LockInv' /\ DataInv'
  BY DEF LossInv
<1>1. faults.outages = 0
  BY OutagesStay
<1>2. Settled /\ DataInv
  BY <1>1 DEF Settled, TickInv, LossInv
<1>3. LockInv'
  BY <1>2, WorkLocked, RestLocked
<1> QED
  BY <1>2, <1>3, DataStep

LEMMA LossCovers == LossInv => NothingLost
<1> SUFFICES ASSUME LossInv, faults.outages = 0, NEW i \in Indexes, ~Cleared(i)
             PROVE  /\ Script[i].ledger > cursor
                    /\ \A n \in Nodes : node[n].pc # "down" => Script[i].ledger > node[n].cursor
  BY DEF NothingLost, Cleared
<1> QED
  BY DEF LossInv, DataInv, Accounted, ClearedTo

(* Whatever requests fail and nodes die, no event is behind the stored     *)
(* cursor, or behind a node's, before it was applied, unless the page of an *)
(* answer left it out, for any nodes, events, batch size and page, as long *)
(* as Redis answers.  A dead node's batch is free again before another node *)
(* gets into a tick, because half the life of the cluster's lock (300 s) is *)
(* no shorter than that of a batch's lock (30 s).                           *)
THEOREM NothingLostHolds == HalfOutlivesBatch => (Spec => []NothingLost)
<1>1. Init => TickInv /\ HeldHasTime /\ FrameInv
  BY DEF Init, TickInv, Guarded, InTick, Stopped, Process, RedisInit, HeldHasTime, IsFree, Owns,
     FreeKey, FrameInv, Framed
<1>2. Init => LossInv
  <2> SUFFICES ASSUME Init PROVE LockInv /\ DataInv
    BY DEF LossInv
  <2>1. \A n \in Nodes : ~InTick(n) /\ node[n].pc = "down"
    BY DEF Init, InTick, Stopped, Process
  <2>2. LockInv
    BY <2>1 DEF LockInv, HalfLeft, HeldBatch, Init, RedisInit, IsFree, Owns, FreeKey
  <2>3. ClearedTo(cursor)
    BY EventsTyped DEF ClearedTo, Init
  <2> QED
    BY <2>1, <2>2, <2>3 DEF DataInv, Accounted
<1>3. CASE HalfOutlivesBatch
  <2>1. TypeOK /\ HeldHasTime /\ TickInv /\ FrameInv /\ LossInv /\ [Next]_vars =>
          HeldHasTime' /\ TickInv' /\ FrameInv' /\ LossInv'
    BY <1>3, HeldInv, TickStep, FrameStep, LossStep DEF HalfOutlivesBatch
  <2> QED
    BY <1>1, <1>2, <2>1, LossCovers, ClusterTypeCorrect, PTL DEF Spec
<1> QED
  BY <1>3
===============================================================================
