---------------------------- MODULE PipelineProofs ----------------------------
(***************************************************************************)
(* Proofs about the indexer of the API server and its webhooks, for any    *)
(* script of events, any number of overlapping ticks, crashes and          *)
(* failures, any subscribers and number of attempts.                       *)
(***************************************************************************)
EXTENDS Pipeline, SumProofs, FiniteSetTheorems

(***************************************************************************)
(* The indexer's types.                                                    *)
(***************************************************************************)

(* A handler keeps the rows typed. *)
LEMMA AppliedType ==
  ASSUME NEW r \in Rows, NEW i \in Indexes
  PROVE  Applied(r, Script[i]) \in Rows
  <1> DEFINE e == Script[i]
  <1>1. e.milestone \in Milestones /\ e.amount \in Nat
    <2> DEFINE S == [type : STRING, milestone : Milestones, amount : Nat]
    <2>1. Script \in Seq(S)
      BY ScriptAssumption
    <2> HIDE DEF S
    <2>2. Script[i] \in S
      BY <2>1 DEF Indexes
    <2> QED BY <2>2 DEF S
  <1> HIDE DEF e
  <1>2. /\ r.status \in EscrowStatuses /\ r.balance \in Int
        /\ r.milestone \in [Milestones -> MilestoneStatuses]
        /\ r.dispute \in DisputeStatuses /\ r.score \in Nat
    BY DEF Rows
  <1>3. \A s \in EscrowStatuses : SetStatus(r, s) \in Rows
    BY DEF SetStatus, Rows
  <1>4. \A s \in MilestoneStatuses : SetMilestone(r, e.milestone, s) \in Rows
    BY <1>1, <1>2 DEF SetMilestone, Rows, MilestoneStatuses
  <1>5. InsertEscrow(r, e.amount) \in Rows /\ SubtractReleased(r, e.amount) \in Rows
    <2>1. [r EXCEPT !.status = "Active", !.balance = e.amount] \in Rows
      <3>1. [r EXCEPT !.status = "Active"] \in Rows
        BY DEF Rows, EscrowStatuses
      <3>2. \A q \in Rows : [q EXCEPT !.balance = e.amount] \in Rows
        BY <1>1 DEF Rows
      <3> QED BY <3>1, <3>2
    <2>2. [r EXCEPT !.balance = r.balance - e.amount] \in Rows
      BY <1>1, <1>2 DEF Rows
    <2>3. [r EXCEPT !.balance = r.balance] \in Rows
      BY <1>2 DEF Rows
    <2> QED BY <2>1, <2>2, <2>3 DEF InsertEscrow, SubtractReleased
  <1>6. InsertMilestone(r, e.milestone) \in Rows
    BY <1>1, <1>2 DEF InsertMilestone, Rows, MilestoneStatuses
  <1>7. \A q \in Rows : OpenDispute(q) \in Rows /\ CloseDispute(q) \in Rows
    BY DEF OpenDispute, CloseDispute, Rows, DisputeStatuses
  <1>8. [r EXCEPT !.score = e.amount] \in Rows
    BY <1>1 DEF Rows
  <1>9. Applied(r, e) \in Rows
    BY <1>3, <1>4, <1>5, <1>6, <1>7, <1>8 DEF Applied, HandleEscrowCreated,
       HandleMilestoneAdded, HandleMilestoneSubmitted, HandleMilestoneApproved,
       HandleMilestoneRejected, HandleMilestoneDisputed, HandleFundsReleased,
       HandleEscrowCancelled, HandleDisputeRaised, HandleDisputeResolved,
       HandleReputationUpdated, EscrowStatuses, MilestoneStatuses
  <1> QED BY <1>9 DEF e

(* An event without handler changes no row. *)
LEMMA UnhandledKeeps ==
  ASSUME NEW r, NEW i \in Indexes, ~Handled(i)
  PROVE  Applied(r, Script[i]) = r
  BY DEF Handled, HandledTypes, Applied

(* A tick's next event is the least of those it has to do. *)
IsNext(t, i) == i \in ticks[t].todo /\ \A j \in ticks[t].todo : i <= j

LEMMA NextEventLeast ==
  ASSUME IndexerTypeOK, NEW t \in Slots, ticks[t].todo # {}
  PROVE  /\ IsNext(t, NextEvent(t)) /\ NextEvent(t) \in Indexes
         /\ \A i : IsNext(t, i) => i = NextEvent(t)
  <1>1. ticks[t].todo \subseteq Indexes
    BY DEF IndexerTypeOK, Ticks
  <1>2. Indexes \subseteq Nat
    BY ScriptAssumption DEF Indexes
  <1>3. \E i \in ticks[t].todo : \A j \in ticks[t].todo : i <= j
    BY <1>1, <1>2, Least
  <1>4. IsNext(t, NextEvent(t))
    BY <1>1, <1>3 DEF NextEvent, IsNext
  <1>5. \A i : IsNext(t, i) => i \in Indexes /\ i \in Nat
    BY <1>1, <1>2 DEF IsNext
  <1>6. ASSUME NEW i, IsNext(t, i)
        PROVE  i = NextEvent(t)
    <2>1. i <= NextEvent(t) /\ NextEvent(t) <= i
      BY <1>4, <1>6 DEF IsNext
    <2>2. i \in Nat /\ NextEvent(t) \in Nat
      BY <1>4, <1>5, <1>6
    <2> QED BY <2>1, <2>2
  <1> QED BY <1>4, <1>5, <1>6

(* The event a tick announces is recorded. *)
Announcing(t, i) == ticks[t].pc = "announce" /\ IsNext(t, i)
AnnouncesLogged ==
  \A t \in Slots : ticks[t].pc = "announce" => \E i \in logged : IsNext(t, i)

(* What a step does to the tick that takes it. *)
LEMMA TickTypes ==
  ASSUME IndexerTypeOK, NEW t \in Slots, TickStep(t) \/ StartTick(t)
  PROVE  ticks' \in [Slots -> Ticks]
  <1>0. ticks \in [Slots -> Ticks] /\ ticks[t] \in Ticks /\ server.ledger \in Nat
        /\ chain.latest \in Nat
    BY DEF IndexerTypeOK
  <1>1. CASE EndTick(t)
    BY <1>0, <1>1 DEF EndTick, NoTick, Ticks
  <1>2. CASE StartTick(t)
    <2>1. [ticks[t] EXCEPT !.pc = "fetch", !.from = server.ledger] \in Ticks
      BY <1>0 DEF Ticks
    <2> QED BY <1>0, <1>2, <2>1 DEF StartTick
  <1>3. CASE GetContractEvents(t)
    <2>1. EventsFrom(ticks[t].from) \in SUBSET Indexes
      BY DEF EventsFrom, Emitted
    <2>2. [ticks[t] EXCEPT !.pc = "latest", !.from = 0, !.seen = chain.latest,
             !.todo = EventsFrom(ticks[t].from)] \in Ticks
      BY <1>0, <2>1 DEF Ticks
    <2> QED BY <1>0, <1>3, <2>2 DEF GetContractEvents
  <1>4. CASE GetLatestLedger(t)
    <2>1. [ticks[t] EXCEPT !.pc = "dispatch", !.seen = 0, !.latest = chain.latest] \in Ticks
      BY <1>0 DEF Ticks
    <2> QED BY <1>0, <1>4, <2>1 DEF GetLatestLedger
  <1>5. \A i : [ticks[t] EXCEPT !.todo = @ \ {i}] \in Ticks
    BY <1>0 DEF Ticks
  <1>6. CASE PassEvent(t)
    BY <1>0, <1>5, <1>6 DEF PassEvent, Done
  <1>7. CASE CommitEvent(t)
    <2>1. [ticks[t] EXCEPT !.pc = "announce"] \in Ticks
      BY <1>0 DEF Ticks
    <2> QED BY <1>0, <1>7, <2>1 DEF CommitEvent
  <1>8. CASE AnnounceEvent(t)
    <2>1. Done(t)[t] \in Ticks /\ Done(t) \in [Slots -> Ticks]
      BY <1>0, <1>5 DEF Done
    <2>2. [Done(t)[t] EXCEPT !.pc = "dispatch"] \in Ticks
      BY <2>1 DEF Ticks
    <2> QED BY <1>8, <2>1, <2>2 DEF AnnounceEvent
  <1>9. CASE AdvanceLedger(t)
    <2>1. [ticks[t] EXCEPT !.pc = "save"] \in Ticks
      BY <1>0 DEF Ticks
    <2> QED BY <1>0, <1>1, <1>9, <2>1 DEF AdvanceLedger
  <1> QED BY <1>1, <1>2, <1>3, <1>4, <1>6, <1>7, <1>8, <1>9 DEF TickStep, FailTick, SaveCursor

LEMMA ServerTypes ==
  ASSUME IndexerTypeOK, NEW t \in Slots, TickStep(t) \/ StartTick(t)
  PROVE  /\ server' \in [up : BOOLEAN, ledger : Nat, timer : BOOLEAN]
         /\ cursor' \in Nat /\ chain' = chain
         /\ faults' \in [crashes : 0 .. MaxCrashes, failures : 0 .. MaxFailures]
  <1>0. /\ server \in [up : BOOLEAN, ledger : Nat, timer : BOOLEAN] /\ ticks[t].latest \in Nat
        /\ cursor \in Nat
        /\ faults \in [crashes : 0 .. MaxCrashes, failures : 0 .. MaxFailures]
    BY DEF IndexerTypeOK, Ticks
  <1>1. server' \in [up : BOOLEAN, ledger : Nat, timer : BOOLEAN]
    <2>1. server' = server \/ server' = [server EXCEPT !.timer = TRUE]
          \/ server' = [server EXCEPT !.ledger = ticks[t].latest]
      <3>1. CASE EndTick(t)
        BY <3>1 DEF EndTick
      <3>2. CASE AdvanceLedger(t)
        BY <3>1, <3>2 DEF AdvanceLedger
      <3>3. CASE ~EndTick(t) /\ ~AdvanceLedger(t)
        BY <3>3 DEF TickStep, StartTick, GetContractEvents, GetLatestLedger, PassEvent,
           CommitEvent, AnnounceEvent, FailTick, SaveCursor
      <3> QED BY <3>1, <3>2, <3>3
    <2> QED BY <1>0, <2>1
  <1>2. cursor' = cursor \/ cursor' = ticks[t].latest
    BY DEF TickStep, StartTick, GetContractEvents, GetLatestLedger, PassEvent, CommitEvent,
       AnnounceEvent, FailTick, AdvanceLedger, SaveCursor
  <1>3. chain' = chain
    BY DEF TickStep, StartTick, GetContractEvents, GetLatestLedger, PassEvent, CommitEvent,
       AnnounceEvent, FailTick, AdvanceLedger, SaveCursor
  <1>4. faults' \in [crashes : 0 .. MaxCrashes, failures : 0 .. MaxFailures]
    <2>1. CASE faults' = faults
      BY <1>0, <2>1
    <2>2. CASE faults.failures < MaxFailures /\ faults' = [faults EXCEPT !.failures = @ + 1]
      BY <1>0, <2>2, IndexerBounds
    <2>3. CASE FailTick(t)
      <3>1. \/ faults' = faults
            \/ faults.failures < MaxFailures /\ faults' = [faults EXCEPT !.failures = @ + 1]
        BY <2>3 DEF FailTick
      <3> QED BY <2>1, <2>2, <3>1
    <2>4. CASE ~FailTick(t)
      <3>1. faults' = faults
        BY <2>4 DEF TickStep, StartTick, GetContractEvents, GetLatestLedger, PassEvent,
           CommitEvent, AnnounceEvent, AdvanceLedger, SaveCursor
      <3> QED BY <2>1, <3>1
    <2> QED BY <2>3, <2>4
  <1> QED BY <1>0, <1>1, <1>2, <1>3, <1>4

(* The ledgers that close add to the chain. *)
LEMMA ChainGrows ==
  ASSUME IndexerTypeOK, CloseLedger
  PROVE  /\ chain'.latest = chain.latest + 1 /\ chain'.latest \in Nat
         /\ chain'.ledgerOf \in Seq(Nat)
         /\ Len(chain.ledgerOf) <= Len(chain'.ledgerOf) /\ Len(chain'.ledgerOf) <= Len(Script)
         /\ \A i \in 1 .. Len(chain.ledgerOf) : chain'.ledgerOf[i] = chain.ledgerOf[i]
         /\ \A i \in 1 .. Len(chain'.ledgerOf) :
              i > Len(chain.ledgerOf) => chain'.ledgerOf[i] = chain'.latest
  <1> DEFINE old == chain.ledgerOf
  <1>1. PICK n \in 0 .. MaxPerLedger :
          /\ Len(old) + n <= Len(Script)
          /\ chain' = [latest   |-> chain.latest + 1,
                       ledgerOf |-> old \o [k \in 1 .. n |-> chain.latest + 1]]
    BY DEF CloseLedger
  <1> DEFINE new == [k \in 1 .. n |-> chain.latest + 1]
  <1>2. old \in Seq(Nat) /\ chain.latest \in Nat /\ n \in Nat /\ Len(old) \in Nat
    BY IndexerBounds DEF IndexerTypeOK
  <1>3. new \in Seq(Nat) /\ Len(new) = n /\ \A k \in 1 .. n : new[k] = chain.latest + 1
    BY <1>2
  <1>4. chain'.latest = chain.latest + 1 /\ chain'.ledgerOf = old \o new
    BY <1>1
  <1> HIDE DEF old, new
  <1>5. /\ old \o new \in Seq(Nat) /\ Len(old \o new) = Len(old) + n
        /\ \A i \in 1 .. Len(old) + n :
             (old \o new)[i] = IF i <= Len(old) THEN old[i] ELSE new[i - Len(old)]
    BY <1>2, <1>3
  <1>6. \A i \in 1 .. Len(old) + n : i > Len(old) => new[i - Len(old)] = chain.latest + 1
    BY <1>2, <1>3
  <1>7. /\ chain'.latest = chain.latest + 1 /\ chain'.latest \in Nat
        /\ chain'.ledgerOf \in Seq(Nat)
        /\ Len(chain'.ledgerOf) = Len(old) + n /\ Len(chain'.ledgerOf) <= Len(Script)
    BY <1>1, <1>2, <1>4, <1>5 DEF old
  <1>8. \A i \in 1 .. Len(old) : chain'.ledgerOf[i] = old[i]
    BY <1>2, <1>4, <1>5
  <1>9. \A i \in 1 .. Len(chain'.ledgerOf) : i > Len(old) => chain'.ledgerOf[i] = chain'.latest
    BY <1>2, <1>4, <1>5, <1>6, <1>7
  <1> QED BY <1>2, <1>7, <1>8, <1>9 DEF old

(* Events stay emitted and what a tick has to do was emitted. *)
TodoEmitted == \A t \in Slots : ticks[t].todo \subseteq Emitted

LEMMA IndexerTypes ==
  IndexerTypeOK /\ TodoEmitted /\ [IndexerNext]_indexerVars => (IndexerTypeOK /\ TodoEmitted)'
  <1> SUFFICES ASSUME IndexerTypeOK, TodoEmitted, [IndexerNext]_indexerVars
               PROVE  (IndexerTypeOK /\ TodoEmitted)'
    OBVIOUS
  <1>1. CASE CloseLedger
    <2>1. Emitted \subseteq Emitted'
      <3>1. Len(chain.ledgerOf) \in Nat /\ Len(chain'.ledgerOf) \in Nat
            /\ Len(chain.ledgerOf) <= Len(chain'.ledgerOf)
        BY <1>1, ChainGrows DEF IndexerTypeOK
      <3>2. Indexes \subseteq Nat
        BY ScriptAssumption DEF Indexes
      <3> SUFFICES ASSUME NEW i \in Emitted PROVE i \in Emitted'
        OBVIOUS
      <3>3. i \in Indexes /\ i \in Nat /\ i <= Len(chain.ledgerOf)
        BY <3>2 DEF Emitted
      <3>4. i <= Len(chain'.ledgerOf)
        BY <3>1, <3>3
      <3> QED BY <3>3, <3>4 DEF Emitted
    <2> QED BY <1>1, <2>1, ChainGrows DEF CloseLedger, IndexerTypeOK, TodoEmitted
  <1>2. CASE CrashIndexer
    <2>1. ticks' \in [Slots -> Ticks] /\ TodoEmitted'
      BY <1>2 DEF CrashIndexer, NoTick, Ticks, TodoEmitted
    <2>2. faults' \in [crashes : 0 .. MaxCrashes, failures : 0 .. MaxFailures]
      <3>1. /\ faults.crashes < MaxCrashes /\ faults' = [faults EXCEPT !.crashes = @ + 1]
            /\ faults \in [crashes : 0 .. MaxCrashes, failures : 0 .. MaxFailures]
        BY <1>2 DEF CrashIndexer, IndexerTypeOK
      <3>2. MaxCrashes \in Nat /\ MaxFailures \in Nat
        BY IndexerBounds
      <3>3. faults.crashes + 1 \in 0 .. MaxCrashes
        BY <3>1, <3>2
      <3> QED BY <3>1, <3>3
    <2>3. server' \in [up : BOOLEAN, ledger : Nat, timer : BOOLEAN]
      BY <1>2 DEF CrashIndexer, IndexerTypeOK
    <2> QED BY <1>2, <2>1, <2>2, <2>3 DEF CrashIndexer, IndexerTypeOK, Emitted
  <1>3. CASE StartIndexer
    BY <1>3 DEF StartIndexer, IndexerTypeOK, TodoEmitted, Emitted
  <1>4. ASSUME NEW t \in Slots, TickStep(t) \/ StartTick(t)
        PROVE  (IndexerTypeOK /\ TodoEmitted)'
    <2>1. Emitted' = Emitted
      BY <1>4, ServerTypes DEF Emitted
    <2>2. CASE CommitEvent(t)
      <3>1. NextEvent(t) \in Emitted /\ NextEvent(t) \in Indexes
        BY <2>2, NextEventLeast DEF CommitEvent, TodoEmitted, IsNext
      <3>2. rows' \in Rows /\ logged' \subseteq Emitted
        BY <2>2, <3>1, AppliedType DEF CommitEvent, IndexerTypeOK
      <3>3. \A u \in Slots : ticks'[u].todo = ticks[u].todo
        BY <2>2 DEF CommitEvent, IndexerTypeOK, Ticks
      <3> QED BY <1>4, <2>1, <3>2, <3>3, TickTypes, ServerTypes DEF IndexerTypeOK, TodoEmitted
    <2>3. CASE ~CommitEvent(t)
      <3>1. UNCHANGED <<rows, logged>>
        BY <1>4, <2>3 DEF TickStep, StartTick, GetContractEvents, GetLatestLedger, PassEvent,
           AnnounceEvent, FailTick, AdvanceLedger, SaveCursor
      <3>2. \A u \in Slots : ticks'[u].todo \subseteq ticks[u].todo \cup Emitted
        <4>1. \A u \in Slots \ {t} : ticks'[u] = ticks[u]
          BY <1>4, <2>3 DEF TickStep, StartTick, GetContractEvents, GetLatestLedger, PassEvent,
             AnnounceEvent, FailTick, AdvanceLedger, SaveCursor, EndTick, Done, IndexerTypeOK
        <4>2. ticks'[t].todo \subseteq ticks[t].todo \cup Emitted
          <5>1. CASE GetContractEvents(t)
            BY <5>1 DEF GetContractEvents, EventsFrom, IndexerTypeOK, Ticks
          <5>2. CASE EndTick(t)
            BY <5>2 DEF EndTick, NoTick, IndexerTypeOK
          <5>3. CASE StartTick(t)
            BY <5>3 DEF StartTick, IndexerTypeOK, Ticks
          <5>4. CASE GetLatestLedger(t)
            BY <5>4 DEF GetLatestLedger, IndexerTypeOK, Ticks
          <5>5. CASE PassEvent(t) \/ AnnounceEvent(t)
            BY <5>5 DEF PassEvent, AnnounceEvent, Done, IndexerTypeOK, Ticks
          <5>6. CASE AdvanceLedger(t) /\ ~EndTick(t)
            <6>1. ticks' = [ticks EXCEPT ![t].pc = "save"]
              BY <5>6 DEF AdvanceLedger
            <6> QED BY <6>1 DEF IndexerTypeOK, Ticks
          <5> QED BY <1>4, <2>3, <5>1, <5>2, <5>3, <5>4, <5>5, <5>6 DEF TickStep, FailTick,
                SaveCursor
        <4> QED BY <4>1, <4>2
      <3> QED BY <1>4, <2>1, <3>1, <3>2, TickTypes, ServerTypes DEF IndexerTypeOK, TodoEmitted
    <2> QED BY <2>2, <2>3
  <1>5. CASE UNCHANGED indexerVars
    BY <1>5 DEF indexerVars, IndexerTypeOK, TodoEmitted, Emitted
  <1> QED BY <1>1, <1>2, <1>3, <1>4, <1>5 DEF IndexerNext

(***************************************************************************)
(* Replaying the chain.                                                    *)
(***************************************************************************)

(* Replay is the function its definition describes: up to any length there is *)
(* one that obeys the two equations.                                          *)
Replays(n, f) ==
  f = [k \in 0 .. n |-> IF k = 0 THEN EmptyRows ELSE Applied(f[k - 1], Script[k])]

LEMMA ReplayExists ==
  ASSUME NEW n \in Nat
  PROVE  \E f : Replays(n, f)
  <1> DEFINE T == {x \in Nat : \E f : Replays(x, f)}
  <1>1. 0 \in T
    <2> DEFINE f == [k \in 0 .. 0 |-> EmptyRows]
    <2>1. Replays(0, f)
      BY DEF Replays
    <2> QED BY <2>1
  <1>2. ASSUME NEW x \in T
        PROVE  x + 1 \in T
    <2>1. x \in Nat
      OBVIOUS
    <2>2. PICK f : Replays(x, f)
      OBVIOUS
    <2> DEFINE g == [k \in 0 .. (x + 1) |->
                       IF k = x + 1 THEN Applied(f[x], Script[x + 1]) ELSE f[k]]
               h == [k \in 0 .. (x + 1) |->
                       IF k = 0 THEN EmptyRows ELSE Applied(g[k - 1], Script[k])]
    <2>3. \A k \in 0 .. x : f[k] = IF k = 0 THEN EmptyRows ELSE Applied(f[k - 1], Script[k])
      BY <2>2 DEF Replays
    <2>4. \A k \in 0 .. x : g[k] = f[k]
      BY <2>1
    <2>5. ASSUME NEW k \in 0 .. (x + 1)
          PROVE  g[k] = IF k = 0 THEN EmptyRows ELSE Applied(g[k - 1], Script[k])
      <3>1. CASE k = x + 1
        <4>1. g[k] = Applied(f[x], Script[k]) /\ k # 0 /\ k - 1 = x
          BY <2>1, <3>1
        <4> QED BY <2>1, <2>4, <4>1
      <3>2. CASE k # x + 1
        <4>1. k \in 0 .. x /\ (k # 0 => k - 1 \in 0 .. x)
          BY <2>1, <3>2
        <4> HIDE DEF g
        <4> QED BY <2>3, <2>4, <4>1
      <3> QED BY <3>1, <3>2
    <2>6. g = h
      BY <2>5
    <2>7. Replays(x + 1, g)
      BY <2>6 DEF Replays
    <2> QED BY <2>1, <2>7
  <1> HIDE DEF T
  <1>3. T \subseteq Nat
    BY DEF T
  <1>4. T = Nat
    BY <1>1, <1>2, <1>3, SetInduction
  <1> QED BY <1>4 DEF T

LEMMA ReplayRecursion ==
  /\ Replay[0] = EmptyRows
  /\ \A k \in 1 .. Len(Script) : Replay[k] = Applied(Replay[k - 1], Script[k])
  <1>1. Len(Script) \in Nat
    BY ScriptAssumption
  <1>2. Replays(Len(Script), Replay)
    BY <1>1, ReplayExists DEF Replays, Replay
  <1> QED BY <1>1, <1>2 DEF Replays

(* Events without handler do not count. *)
LEMMA ReplaySame ==
  ASSUME NEW k \in 0 .. Len(Script), NEW n \in k .. Len(Script),
         \A i \in (k + 1) .. n : ~Handled(i)
  PROVE  Replay[n] = Replay[k]
  <1> DEFINE T == {x \in Nat : k + x <= n => Replay[k + x] = Replay[k]}
  <1>0. k \in Nat /\ n \in Nat /\ Len(Script) \in Nat /\ n - k \in Nat /\ n <= Len(Script)
    BY ScriptAssumption
  <1>1. 0 \in T
    BY <1>0
  <1>2. ASSUME NEW x \in T
        PROVE  x + 1 \in T
    <2>1. x \in Nat
      OBVIOUS
    <2>2. CASE k + (x + 1) <= n
      <3> DEFINE i == k + (x + 1)
      <3>1. i \in (k + 1) .. n /\ i \in 1 .. Len(Script) /\ i - 1 = k + x /\ k + x <= n
        BY <1>0, <2>1, <2>2
      <3>2. Replay[k + x] = Replay[k]
        BY <3>1
      <3> HIDE DEF i
      <3>3. Replay[i] = Applied(Replay[i - 1], Script[i])
        BY <3>1, ReplayRecursion
      <3>4. Applied(Replay[i - 1], Script[i]) = Replay[i - 1]
        BY <3>1, UnhandledKeeps DEF Indexes
      <3>5. Replay[i] = Replay[k]
        BY <3>1, <3>2, <3>3, <3>4
      <3> QED BY <2>1, <3>5 DEF i
    <2> QED BY <2>1, <2>2
  <1> HIDE DEF T
  <1>3. T \subseteq Nat
    BY DEF T
  <1>4. T = Nat
    BY <1>1, <1>2, <1>3, SetInduction
  <1>5. n - k \in T /\ k + (n - k) = n
    BY <1>0, <1>4
  <1>6. k + (n - k) <= n => Replay[k + (n - k)] = Replay[k]
    BY <1>5 DEF T
  <1> QED BY <1>0, <1>5, <1>6

(***************************************************************************)
(* The database is a prefix of the chain.                                  *)
(***************************************************************************)

(* The events of the chain that the database lacks. *)
Missing == {i \in Emitted : Handled(i) /\ i \notin logged}

(* Where a tick looked for events, and what it may not have seen: an event that *)
(* is missing is on its list, or comes after all of the list in a ledger that   *)
(* it will not move the cursor past.                                            *)
Bounded(t) ==
  /\ ticks[t].from <= chain.latest /\ ticks[t].seen <= chain.latest
  /\ ticks[t].latest <= chain.latest

After(t, j) == \A i \in ticks[t].todo : i < j

Watches(t) ==
  \A j \in Missing :
    /\ ticks[t].pc = "fetch" => ticks[t].from <= chain.ledgerOf[j]
    /\ ticks[t].pc = "latest" =>
         j \in ticks[t].todo \/ (After(t, j) /\ ticks[t].seen < chain.ledgerOf[j])
    /\ ticks[t].pc \in {"dispatch", "announce"} =>
         j \in ticks[t].todo \/ (After(t, j) /\ ticks[t].latest <= chain.ledgerOf[j])
    /\ ticks[t].pc = "save" => ticks[t].latest <= chain.ledgerOf[j]

NothingBehind ==
  /\ cursor <= chain.latest /\ server.ledger <= chain.latest
  /\ \A j \in Missing : cursor <= chain.ledgerOf[j] /\ server.ledger <= chain.ledgerOf[j]

IndexInv ==
  /\ NothingBehind
  /\ \A t \in Slots : Bounded(t) /\ Watches(t)
  /\ MirrorsPrefix

(* The indexer keeps up with the chain: one answer holds what a tick asks for, *)
(* and at most one ledger closes between its two questions.                    *)
KeepsUp ==
  \A t \in Slots :
    /\ ticks[t].pc = "fetch" =>
         Cardinality({i \in Emitted : chain.ledgerOf[i] >= ticks[t].from}) <= PageLimit
    /\ ticks[t].pc = "latest" => chain.latest <= ticks[t].seen + 1

LEMMA EmittedLedgers ==
  ASSUME IndexerTypeOK, NEW i \in Emitted
  PROVE  i \in Nat \ {0} /\ i \in 1 .. Len(chain.ledgerOf) /\ chain.ledgerOf[i] \in Nat
  <1>1. chain.ledgerOf \in Seq(Nat) /\ Len(chain.ledgerOf) \in Nat
    BY DEF IndexerTypeOK
  <1>2. i \in 1 .. Len(Script) /\ i <= Len(chain.ledgerOf) /\ Len(Script) \in Nat
    BY ScriptAssumption DEF Emitted, Indexes
  <1>3. i \in 1 .. Len(chain.ledgerOf)
    BY <1>1, <1>2
  <1> DEFINE ledgers == chain.ledgerOf
  <1>4. ledgers[i] \in Nat
    <2> HIDE DEF ledgers
    <2>1. ledgers \in Seq(Nat) /\ i \in 1 .. Len(ledgers)
      BY <1>1, <1>3 DEF ledgers
    <2> QED BY <2>1
  <1> QED BY <1>2, <1>3, <1>4

LEMMA CloseKeeps ==
  ASSUME IndexerTypeOK, TodoEmitted, IndexInv, CloseLedger
  PROVE  IndexInv'
  <1>1. UNCHANGED <<rows, logged, cursor, server, ticks>>
    BY DEF CloseLedger
  <1>2. /\ chain.latest \in Nat /\ chain'.latest = chain.latest + 1
        /\ Len(chain.ledgerOf) \in Nat /\ Len(chain'.ledgerOf) \in Nat
        /\ Len(chain.ledgerOf) <= Len(chain'.ledgerOf)
    BY ChainGrows DEF IndexerTypeOK
  <1>3. ASSUME NEW j \in Missing'
        PROVE  \/ j \in Missing /\ chain'.ledgerOf[j] = chain.ledgerOf[j]
               \/ j > Len(chain.ledgerOf) /\ chain'.ledgerOf[j] = chain.latest + 1
    <2>1. j \in Indexes /\ j \in 1 .. Len(chain'.ledgerOf) /\ Handled(j) /\ j \notin logged
      BY <1>1, <1>2, ScriptAssumption DEF Missing, Emitted, Indexes, Handled
    <2>2. CASE j <= Len(chain.ledgerOf)
      BY <1>2, <2>1, <2>2, ChainGrows DEF Missing, Emitted
    <2>3. CASE j > Len(chain.ledgerOf)
      BY <1>2, <2>1, <2>3, ChainGrows
    <2> QED BY <1>2, <2>1, <2>2, <2>3
  <1>4. NothingBehind'
    <2>1. cursor \in Nat /\ server.ledger \in Nat
      BY DEF IndexerTypeOK
    <2> QED BY <1>1, <1>2, <1>3, <2>1 DEF IndexInv, NothingBehind
  <1>5. ASSUME NEW t \in Slots
        PROVE  Bounded(t)' /\ Watches(t)'
    <2>1. /\ ticks[t].from \in Nat /\ ticks[t].seen \in Nat /\ ticks[t].latest \in Nat
          /\ ticks'[t] = ticks[t] /\ Bounded(t) /\ Watches(t)
      BY <1>1 DEF IndexerTypeOK, Ticks, IndexInv
    <2>3. Bounded(t)'
      BY <1>1, <1>2, <2>1 DEF Bounded
    <2>4. \A j \in Nat : j > Len(chain.ledgerOf) => After(t, j)
      <3>1. \A i \in ticks[t].todo : i \in Nat /\ i <= Len(chain.ledgerOf)
        BY <1>2, EmittedLedgers DEF TodoEmitted
      <3> QED BY <1>2, <3>1 DEF After
    <2>5. ASSUME NEW j \in Missing'
          PROVE  /\ ticks'[t].pc = "fetch" => ticks'[t].from <= chain'.ledgerOf[j]
                 /\ ticks'[t].pc = "latest" =>
                      j \in ticks'[t].todo \/ (After(t, j)' /\ ticks'[t].seen < chain'.ledgerOf[j])
                 /\ ticks'[t].pc \in {"dispatch", "announce"} =>
                      \/ j \in ticks'[t].todo
                      \/ After(t, j)' /\ ticks'[t].latest <= chain'.ledgerOf[j]
                 /\ ticks'[t].pc = "save" => ticks'[t].latest <= chain'.ledgerOf[j]
      <3>1. After(t, j)' <=> After(t, j)
        BY <2>1 DEF After
      <3>2. CASE j \in Missing /\ chain'.ledgerOf[j] = chain.ledgerOf[j]
        BY <2>1, <3>1, <3>2 DEF Watches
      <3>3. CASE j > Len(chain.ledgerOf) /\ chain'.ledgerOf[j] = chain.latest + 1
        <4>1. j \in Nat
          BY ScriptAssumption DEF Missing, Emitted, Indexes
        <4>2. After(t, j)
          BY <2>4, <3>3, <4>1
        <4> QED BY <1>2, <2>1, <3>1, <3>3, <4>2 DEF Bounded
      <3> QED BY <1>3, <3>2, <3>3
    <2>6. Watches(t)'
      BY <2>5 DEF Watches
    <2> QED BY <2>3, <2>6
  <1>6. MirrorsPrefix'
    BY <1>1, <1>2 DEF IndexInv, MirrorsPrefix, Handled
  <1> QED BY <1>4, <1>5, <1>6 DEF IndexInv

(* A tick's step leaves the other ticks and the chain alone and records what  *)
(* it records for good.                                                       *)
LEMMA TickLeaves ==
  ASSUME IndexerTypeOK, NEW t \in Slots, TickStep(t) \/ StartTick(t)
  PROVE  /\ \A u \in Slots \ {t} : ticks'[u] = ticks[u]
         /\ chain' = chain /\ Emitted' = Emitted
         /\ logged \subseteq logged' /\ Missing' \subseteq Missing
  <1>1. \A u \in Slots \ {t} : ticks'[u] = ticks[u]
    BY DEF TickStep, StartTick, GetContractEvents, GetLatestLedger, PassEvent, CommitEvent,
       AnnounceEvent, FailTick, AdvanceLedger, SaveCursor, EndTick, Done, IndexerTypeOK
  <1>2. chain' = chain
    BY ServerTypes
  <1>3. logged \subseteq logged'
    BY DEF TickStep, StartTick, GetContractEvents, GetLatestLedger, PassEvent, CommitEvent,
       AnnounceEvent, FailTick, AdvanceLedger, SaveCursor
  <1> QED BY <1>1, <1>2, <1>3 DEF Emitted, Missing, Handled

(* A tick starts to announce an event as it records it: no other tick announces *)
(* that event.                                                                   *)
LEMMA TellsLess ==
  ASSUME IndexerTypeOK, [IndexerNext]_indexerVars, \A t \in Slots : ~CommitEvent(t)
  PROVE  /\ logged' = logged
         /\ \A u \in Slots : ticks'[u].pc = "announce" =>
              ticks[u].pc = "announce" /\ ticks'[u].todo = ticks[u].todo
  <1>0. ticks \in [Slots -> Ticks]
    BY DEF IndexerTypeOK
  <1>1. CASE CloseLedger \/ StartIndexer \/ UNCHANGED indexerVars
    BY <1>1 DEF CloseLedger, StartIndexer, indexerVars
  <1>2. CASE CrashIndexer
    BY <1>2 DEF CrashIndexer, NoTick
  <1>3. ASSUME NEW t \in Slots, StartTick(t) \/ TickStep(t)
        PROVE  /\ logged' = logged
               /\ \A u \in Slots : ticks'[u].pc = "announce" =>
                    ticks[u].pc = "announce" /\ ticks'[u].todo = ticks[u].todo
    <2>1. logged' = logged
      BY <1>3 DEF TickStep, StartTick, GetContractEvents, GetLatestLedger, PassEvent,
         AnnounceEvent, FailTick, AdvanceLedger, SaveCursor
    <2>2. ticks'[t].pc # "announce"
      <3>1. CASE EndTick(t)
        BY <1>0, <3>1 DEF EndTick, NoTick
      <3>2. CASE StartTick(t) \/ GetContractEvents(t) \/ GetLatestLedger(t)
        BY <1>0, <3>2 DEF StartTick, GetContractEvents, GetLatestLedger, Ticks
      <3>3. CASE PassEvent(t)
        BY <1>0, <3>3 DEF PassEvent, Done, Running, Ticks
      <3>4. CASE AnnounceEvent(t)
        <4>1. Done(t) \in [Slots -> Ticks]
          BY <1>0 DEF Done, Ticks
        <4>2. ticks' = [Done(t) EXCEPT ![t].pc = "dispatch"]
          BY <3>4 DEF AnnounceEvent
        <4> QED BY <4>1, <4>2 DEF Ticks
      <3>5. CASE AdvanceLedger(t) /\ ~EndTick(t)
        BY <1>0, <3>5 DEF AdvanceLedger, Ticks
      <3> QED BY <1>3, <3>1, <3>2, <3>3, <3>4, <3>5 DEF TickStep, FailTick, SaveCursor
    <2>3. \A u \in Slots \ {t} : ticks'[u] = ticks[u]
      BY <1>3, TickLeaves
    <2> QED BY <2>1, <2>2, <2>3
  <1> QED BY <1>1, <1>2, <1>3 DEF IndexerNext

(* A commit: the tick announces what it recorded. *)
LEMMA TellsNext ==
  ASSUME IndexerTypeOK, NEW t \in Slots, CommitEvent(t)
  PROVE  /\ IsNext(t, NextEvent(t)) /\ NextEvent(t) \notin logged
         /\ logged' = logged \cup {NextEvent(t)}
         /\ ticks'[t].pc = "announce" /\ \A i : IsNext(t, i)' <=> IsNext(t, i)
         /\ \A u \in Slots \ {t} : ticks'[u] = ticks[u]
  <1>1. ticks' = [ticks EXCEPT ![t].pc = "announce"] /\ ticks \in [Slots -> Ticks]
    BY DEF CommitEvent, IndexerTypeOK
  <1>2. ticks'[t].pc = "announce" /\ ticks'[t].todo = ticks[t].todo
    BY <1>1 DEF Ticks
  <1>3. \A u \in Slots \ {t} : ticks'[u] = ticks[u]
    BY <1>1
  <1>4. IsNext(t, NextEvent(t)) /\ NextEvent(t) \notin logged
        /\ logged' = logged \cup {NextEvent(t)}
    BY NextEventLeast DEF CommitEvent, AlreadyIndexed
  <1>5. \A i : IsNext(t, i)' <=> IsNext(t, i)
    BY <1>2 DEF IsNext
  <1> QED BY <1>2, <1>3, <1>4, <1>5

LEMMA AnnouncesKept ==
  IndexerTypeOK /\ AnnouncesLogged /\ [IndexerNext]_indexerVars => AnnouncesLogged'
  <1> SUFFICES ASSUME IndexerTypeOK, AnnouncesLogged, [IndexerNext]_indexerVars
               PROVE  AnnouncesLogged'
    OBVIOUS
  <1>1. ASSUME NEW t \in Slots, CommitEvent(t)
        PROVE  AnnouncesLogged'
    <2>1. \E i \in logged' : IsNext(t, i)'
      BY <1>1, TellsNext
    <2>2. \A u \in Slots \ {t} : \A i : IsNext(u, i)' <=> IsNext(u, i)
      BY <1>1, TellsNext DEF IsNext
    <2> QED BY <1>1, <2>1, <2>2, TellsNext DEF AnnouncesLogged
  <1>2. CASE \A t \in Slots : ~CommitEvent(t)
    <2>1. \A u \in Slots : ticks'[u].pc = "announce" =>
            ticks[u].pc = "announce" /\ \A i : IsNext(u, i)' <=> IsNext(u, i)
      BY <1>2, TellsLess DEF IsNext
    <2> QED BY <1>2, <2>1, TellsLess DEF AnnouncesLogged
  <1> QED BY <1>1, <1>2

(* An answer that is not full leaves out nothing. *)
LEMMA WholePage ==
  ASSUME IndexerTypeOK, NEW ledger \in Nat,
         Cardinality({i \in Emitted : chain.ledgerOf[i] >= ledger}) <= PageLimit
  PROVE  EventsFrom(ledger) = {i \in Emitted : chain.ledgerOf[i] >= ledger}
  <1> DEFINE found == {i \in Emitted : chain.ledgerOf[i] >= ledger}
  <1>0. IsFiniteSet(found) /\ Cardinality(found) \in Nat /\ PageLimit \in Nat
    <2>1. Len(Script) \in Nat
      BY ScriptAssumption
    <2>2. IsFiniteSet(1 .. Len(Script))
      BY <2>1, FS_Interval
    <2>3. found \subseteq 1 .. Len(Script)
      BY DEF Emitted, Indexes
    <2> HIDE DEF found
    <2> QED BY <2>2, <2>3, FS_Subset, FS_CardinalityType, IndexerBounds
  <1>1. ASSUME NEW i \in found
        PROVE  Cardinality({j \in found : j < i}) < PageLimit
    <2> DEFINE earlier == {j \in found : j < i}
    <2>1. i \notin earlier /\ earlier \subseteq found /\ earlier \cup {i} \subseteq found
      BY ScriptAssumption DEF Emitted, Indexes
    <2> HIDE DEF earlier, found
    <2>2. IsFiniteSet(earlier) /\ Cardinality(earlier) \in Nat
      BY <1>0, <2>1, FS_Subset, FS_CardinalityType
    <2>3. Cardinality(earlier \cup {i}) = Cardinality(earlier) + 1
      BY <2>1, <2>2, FS_AddElement
    <2>4. Cardinality(earlier \cup {i}) <= Cardinality(found)
      BY <1>0, <2>1, FS_Subset
    <2> QED BY <1>0, <2>2, <2>3, <2>4 DEF earlier, found
  <1>2. EventsFrom(ledger) = {i \in found : Cardinality({j \in found : j < i}) < PageLimit}
    BY DEF EventsFrom
  <1> HIDE DEF found
  <1>3. EventsFrom(ledger) = found
    BY <1>1, <1>2
  <1> QED BY <1>3 DEF found

(* A tick's commit appends to the prefix: the events before the one it commits *)
(* are recorded already or have no handler.                                    *)
LEMMA CommitKeepsPrefix ==
  ASSUME IndexerTypeOK, TodoEmitted, IndexInv, NEW t \in Slots, CommitEvent(t)
  PROVE  MirrorsPrefix'
  <1> DEFINE n == NextEvent(t)
  <1>1. PICK k \in 0 .. Len(chain.ledgerOf) :
          /\ logged = {i \in 1 .. k : Handled(i)}
          /\ rows = Replay[k]
    BY DEF IndexInv, MirrorsPrefix
  <1>2. IsNext(t, n) /\ n \in Indexes /\ n \in Emitted /\ Handled(n) /\ n \notin logged
    BY NextEventLeast DEF CommitEvent, TodoEmitted, IsNext, AlreadyIndexed
  <1>3. /\ rows' = Applied(rows, Script[n]) /\ logged' = logged \cup {n}
        /\ chain' = chain /\ ticks[t].pc = "dispatch"
    BY DEF CommitEvent, Running
  <1> HIDE DEF n
  <1>4. /\ k \in Nat /\ n \in Nat \ {0} /\ Len(Script) \in Nat /\ Len(chain.ledgerOf) \in Nat
        /\ n <= Len(chain.ledgerOf) /\ n <= Len(Script) /\ Len(chain.ledgerOf) <= Len(Script)
        /\ k <= Len(chain.ledgerOf)
    <2>1. Len(Script) \in Nat /\ Len(chain.ledgerOf) \in Nat /\ Len(chain.ledgerOf) <= Len(Script)
      BY ScriptAssumption DEF IndexerTypeOK
    <2>2. n \in 1 .. Len(Script) /\ n <= Len(chain.ledgerOf)
      BY <1>2 DEF Indexes, Emitted
    <2> QED BY <1>1, <2>1, <2>2
  <1>5. k < n
    BY <1>1, <1>2, <1>4
  <1>6. ASSUME NEW j \in (k + 1) .. (n - 1)
        PROVE  ~Handled(j)
    <2>1. j \in Nat /\ j > k /\ j < n
      BY <1>4
    <2>2. SUFFICES ASSUME Handled(j) PROVE FALSE
      OBVIOUS
    <2>3. j \in Missing
      BY <1>1, <1>4, <2>1, <2>2 DEF Missing, Emitted, Indexes
    <2>4. j \in ticks[t].todo \/ After(t, j)
      BY <1>3, <2>3 DEF IndexInv, Watches
    <2>5. n <= j \/ n < j
      BY <1>2, <2>4 DEF IsNext, After
    <2> QED BY <1>4, <2>1, <2>5
  <1>7. Replay[n - 1] = Replay[k]
    <2>1. k \in 0 .. Len(Script) /\ n - 1 \in k .. Len(Script)
      BY <1>4, <1>5
    <2> QED BY <1>6, <2>1, ReplaySame
  <1>8. Replay[n] = rows'
    <2>1. n \in 1 .. Len(Script)
      BY <1>4
    <2> QED BY <1>1, <1>3, <1>7, <2>1, ReplayRecursion
  <1>9. logged' = {i \in 1 .. n : Handled(i)}
    <2>1. ASSUME NEW i \in 1 .. n, Handled(i)
          PROVE  i \in logged \/ i = n
      <3>1. i \in 1 .. k \/ i \in (k + 1) .. (n - 1) \/ i = n
        BY <1>4, <1>5
      <3> QED BY <1>1, <1>6, <2>1, <3>1
    <2>2. \A i \in logged \cup {n} : i \in 1 .. n /\ Handled(i)
      BY <1>1, <1>2, <1>4, <1>5
    <2> QED BY <1>3, <2>1, <2>2
  <1>10. n \in 0 .. Len(chain'.ledgerOf)
    BY <1>3, <1>4
  <1>11. \A i : Handled(i)' <=> Handled(i)
    BY DEF Handled
  <1> QED BY <1>8, <1>9, <1>10, <1>11 DEF MirrorsPrefix

LEMMA TickKeepsPrefix ==
  ASSUME IndexerTypeOK, TodoEmitted, IndexInv, NEW t \in Slots, TickStep(t) \/ StartTick(t)
  PROVE  MirrorsPrefix'
  <1>1. CASE CommitEvent(t)
    BY <1>1, CommitKeepsPrefix
  <1>2. CASE ~CommitEvent(t)
    <2>1. UNCHANGED <<rows, logged, chain>>
      BY <1>2 DEF TickStep, StartTick, GetContractEvents, GetLatestLedger, PassEvent,
         AnnounceEvent, FailTick, AdvanceLedger, SaveCursor
    <2> QED BY <2>1 DEF IndexInv, MirrorsPrefix, Handled
  <1> QED BY <1>1, <1>2

(* The ledger in memory and the cursor move to a ledger behind which nothing   *)
(* is missing.                                                                 *)
LEMMA TickKeepsBehind ==
  ASSUME IndexerTypeOK, IndexInv, NEW t \in Slots, TickStep(t) \/ StartTick(t)
  PROVE  NothingBehind'
  <1>1. chain' = chain /\ Missing' \subseteq Missing
    BY TickLeaves
  <1>2. NothingBehind /\ Bounded(t) /\ Watches(t)
    BY DEF IndexInv
  <1>3. cursor' <= chain.latest /\ \A j \in Missing : cursor' <= chain.ledgerOf[j]
    <2>1. CASE SaveCursor(t)
      BY <1>2, <2>1 DEF SaveCursor, Running, Bounded, Watches
    <2>2. CASE ~SaveCursor(t)
      <3>1. cursor' = cursor
        BY <2>2 DEF TickStep, StartTick, GetContractEvents, GetLatestLedger, PassEvent,
           CommitEvent, AnnounceEvent, FailTick, AdvanceLedger
      <3> QED BY <1>2, <3>1 DEF NothingBehind
    <2> QED BY <2>1, <2>2
  <1>4. server'.ledger <= chain.latest /\ \A j \in Missing : server'.ledger <= chain.ledgerOf[j]
    <2>0. server \in [up : BOOLEAN, ledger : Nat, timer : BOOLEAN]
      BY DEF IndexerTypeOK
    <2>1. CASE server'.ledger = server.ledger
      BY <1>2, <2>1 DEF NothingBehind
    <2>2. CASE AdvanceLedger(t) /\ ~EndTick(t)
      <3>1. server'.ledger = ticks[t].latest /\ ticks[t].pc = "dispatch" /\ ticks[t].todo = {}
        BY <2>0, <2>2 DEF AdvanceLedger, Running
      <3> QED BY <1>2, <3>1 DEF Bounded, Watches
    <2>3. CASE EndTick(t)
      <3>1. server'.ledger = server.ledger
        BY <2>0, <2>3 DEF EndTick
      <3> QED BY <2>1, <3>1
    <2>4. CASE ~EndTick(t) /\ ~AdvanceLedger(t)
      <3>1. server' = server
        BY <2>4 DEF TickStep, StartTick, GetContractEvents, GetLatestLedger, PassEvent,
           CommitEvent, AnnounceEvent, FailTick, SaveCursor
      <3> QED BY <2>1, <3>1
    <2> QED BY <2>2, <2>3, <2>4
  <1> QED BY <1>1, <1>3, <1>4 DEF NothingBehind

(* A tick keeps track of what it has not seen.                                 *)
LEMMA TickKeepsOthers ==
  ASSUME IndexerTypeOK, IndexInv, NEW t \in Slots, TickStep(t) \/ StartTick(t),
         NEW u \in Slots \ {t}
  PROVE  Bounded(u)' /\ Watches(u)'
  <1>1. /\ ticks'[u] = ticks[u] /\ chain' = chain
        /\ logged \subseteq logged' /\ Missing' \subseteq Missing
    BY TickLeaves
  <1>2. Bounded(u) /\ Watches(u)
    BY DEF IndexInv
  <1>3. Bounded(u)'
    BY <1>1, <1>2 DEF Bounded
  <1>4. \A j : After(u, j)' <=> After(u, j)
    BY <1>1 DEF After
  <1>5. Watches(u)'
    BY <1>1, <1>2, <1>4 DEF Watches
  <1> QED BY <1>3, <1>5

(* What a tick looks like when it is over, and after it is done with an event. *)
LEMMA EndedWatches ==
  ASSUME IndexerTypeOK, NEW t \in Slots, ticks'[t] = NoTick, chain' = chain
  PROVE  Bounded(t)' /\ Watches(t)'
  <1>1. chain'.latest \in Nat
    BY DEF IndexerTypeOK
  <1>2. /\ ticks'[t].pc = "idle" /\ ticks'[t].from = 0 /\ ticks'[t].seen = 0
        /\ ticks'[t].latest = 0
    BY DEF NoTick
  <1>3. Bounded(t)'
    BY <1>1, <1>2 DEF Bounded
  <1>4. Watches(t)'
    BY <1>2 DEF Watches
  <1> QED BY <1>3, <1>4

LEMMA DoneWatches ==
  ASSUME IndexerTypeOK, IndexInv, NEW t \in Slots, NEW n, ~Handled(n) \/ n \in logged,
         ticks[t].pc \in {"dispatch", "announce"},
         ticks'[t] = [ticks[t] EXCEPT !.pc = "dispatch", !.todo = @ \ {n}],
         chain' = chain, Missing' \subseteq Missing, logged \subseteq logged'
  PROVE  Bounded(t)' /\ Watches(t)'
  <1>1. Bounded(t) /\ Watches(t) /\ ticks[t] \in Ticks
    BY DEF IndexInv, IndexerTypeOK
  <1>2. /\ ticks'[t].pc = "dispatch" /\ ticks'[t].todo = ticks[t].todo \ {n}
        /\ ticks'[t].from = ticks[t].from /\ ticks'[t].seen = ticks[t].seen
        /\ ticks'[t].latest = ticks[t].latest
    BY <1>1 DEF Ticks
  <1>3. Bounded(t)'
    BY <1>1, <1>2 DEF Bounded
  <1>4. ASSUME NEW j \in Missing'
        PROVE  j \in ticks'[t].todo \/ (After(t, j)' /\ ticks'[t].latest <= chain'.ledgerOf[j])
    <2>1. j \in Missing /\ j # n
      BY DEF Missing
    <2>2. j \in ticks[t].todo \/ (After(t, j) /\ ticks[t].latest <= chain.ledgerOf[j])
      BY <1>1, <2>1 DEF Watches
    <2>3. After(t, j) => After(t, j)'
      BY <1>2 DEF After
    <2> QED BY <1>2, <2>1, <2>2, <2>3
  <1>5. Watches(t)'
    BY <1>2, <1>4 DEF Watches
  <1> QED BY <1>3, <1>5

LEMMA TickKeepsItself ==
  ASSUME IndexerTypeOK, TodoEmitted, AnnouncesLogged, KeepsUp, IndexInv, NEW t \in Slots,
         TickStep(t) \/ StartTick(t)
  PROVE  Bounded(t)' /\ Watches(t)'
  <1>1. /\ chain' = chain /\ Emitted' = Emitted
        /\ logged \subseteq logged' /\ Missing' \subseteq Missing
    BY TickLeaves
  <1>2. NothingBehind /\ Bounded(t) /\ Watches(t)
    BY DEF IndexInv
  <1>3. /\ ticks \in [Slots -> Ticks] /\ ticks[t] \in Ticks /\ chain.latest \in Nat
        /\ server.ledger \in Nat
    BY DEF IndexerTypeOK
  <1>4. CASE EndTick(t)
    <2>1. ticks'[t] = NoTick
      BY <1>3, <1>4 DEF EndTick
    <2> QED BY <1>1, <2>1, EndedWatches
  <1>5. CASE StartTick(t)
    <2>1. ticks'[t] = [ticks[t] EXCEPT !.pc = "fetch", !.from = server.ledger]
      BY <1>3, <1>5 DEF StartTick
    <2>2. /\ ticks'[t].pc = "fetch" /\ ticks'[t].from = server.ledger
          /\ ticks'[t].seen = ticks[t].seen /\ ticks'[t].latest = ticks[t].latest
      BY <1>3, <2>1 DEF Ticks
    <2>3. Bounded(t)'
      BY <1>1, <1>2, <2>2 DEF Bounded, NothingBehind
    <2>4. Watches(t)'
      BY <1>1, <1>2, <2>2 DEF Watches, NothingBehind
    <2> QED BY <2>3, <2>4
  <1>6. CASE GetContractEvents(t)
    <2>1. ticks'[t] = [ticks[t] EXCEPT !.pc = "latest", !.from = 0, !.seen = chain.latest,
                         !.todo = EventsFrom(ticks[t].from)] /\ ticks[t].pc = "fetch"
      BY <1>3, <1>6 DEF GetContractEvents, Running
    <2>2. /\ ticks'[t].pc = "latest" /\ ticks'[t].from = 0 /\ ticks'[t].seen = chain.latest
          /\ ticks'[t].latest = ticks[t].latest /\ ticks'[t].todo = EventsFrom(ticks[t].from)
      BY <1>3, <2>1 DEF Ticks
    <2>3. Bounded(t)'
      BY <1>1, <1>2, <1>3, <2>2 DEF Bounded
    <2>4. ASSUME NEW j \in Missing'
          PROVE  j \in ticks'[t].todo
      <3>1. j \in Emitted /\ ticks[t].from <= chain.ledgerOf[j] /\ ticks[t].from \in Nat
        BY <1>1, <1>2, <1>3, <2>1 DEF Watches, Missing, Ticks
      <3>2. chain.ledgerOf[j] \in Nat
        BY <3>1, EmittedLedgers
      <3>3. Cardinality({i \in Emitted : chain.ledgerOf[i] >= ticks[t].from}) <= PageLimit
        BY <2>1 DEF KeepsUp
      <3> QED BY <2>2, <3>1, <3>2, <3>3, WholePage
    <2>5. Watches(t)'
      BY <2>2, <2>4 DEF Watches
    <2> QED BY <2>3, <2>5
  <1>7. CASE GetLatestLedger(t)
    <2>1. ticks'[t] = [ticks[t] EXCEPT !.pc = "dispatch", !.seen = 0, !.latest = chain.latest]
          /\ ticks[t].pc = "latest"
      BY <1>3, <1>7 DEF GetLatestLedger, Running
    <2>2. /\ ticks'[t].pc = "dispatch" /\ ticks'[t].from = ticks[t].from /\ ticks'[t].seen = 0
          /\ ticks'[t].latest = chain.latest /\ ticks'[t].todo = ticks[t].todo
          /\ ticks[t].seen \in Nat
      BY <1>3, <2>1 DEF Ticks
    <2>3. Bounded(t)'
      BY <1>1, <1>2, <1>3, <2>2 DEF Bounded
    <2>4. ASSUME NEW j \in Missing'
          PROVE  j \in ticks'[t].todo \/ (After(t, j)' /\ ticks'[t].latest <= chain'.ledgerOf[j])
      <3>1. j \in Missing /\ chain.ledgerOf[j] \in Nat
        BY <1>1, EmittedLedgers DEF Missing
      <3>2. j \in ticks[t].todo \/ (After(t, j) /\ ticks[t].seen < chain.ledgerOf[j])
        BY <1>2, <2>1, <3>1 DEF Watches
      <3>3. chain.latest <= ticks[t].seen + 1
        BY <2>1 DEF KeepsUp
      <3>4. After(t, j)' <=> After(t, j)
        BY <2>2 DEF After
      <3> QED BY <1>1, <1>3, <2>2, <3>1, <3>2, <3>3, <3>4
    <2>5. Watches(t)'
      BY <2>2, <2>4 DEF Watches
    <2> QED BY <2>3, <2>5
  <1>8. CASE PassEvent(t)
    <2>1. ticks'[t] = [ticks[t] EXCEPT !.todo = @ \ {NextEvent(t)}]
      BY <1>3, <1>8 DEF PassEvent, Done
    <2>2. ticks[t].pc = "dispatch"
      BY <1>8 DEF PassEvent, Running
    <2>3. ticks'[t] = [ticks[t] EXCEPT !.pc = "dispatch", !.todo = @ \ {NextEvent(t)}]
      BY <1>3, <2>1, <2>2 DEF Ticks
    <2>4. ~Handled(NextEvent(t)) \/ NextEvent(t) \in logged
      BY <1>8 DEF PassEvent, AlreadyIndexed
    <2> QED BY <1>1, <2>2, <2>3, <2>4, DoneWatches
  <1>9. CASE CommitEvent(t)
    <2>1. ticks'[t] = [ticks[t] EXCEPT !.pc = "announce"]
      BY <1>3, <1>9 DEF CommitEvent
    <2>2. ticks[t].pc = "dispatch" /\ IsNext(t, NextEvent(t)) /\ NextEvent(t) \in logged'
      BY <1>9, NextEventLeast DEF CommitEvent, Running
    <2>3. /\ ticks'[t].pc = "announce" /\ ticks'[t].from = ticks[t].from
          /\ ticks'[t].seen = ticks[t].seen /\ ticks'[t].latest = ticks[t].latest
          /\ ticks'[t].todo = ticks[t].todo
      BY <1>3, <2>1 DEF Ticks
    <2>4. Bounded(t)'
      BY <1>1, <1>2, <2>2, <2>3 DEF Bounded
    <2>5. \A j : After(t, j)' <=> After(t, j)
      BY <2>3 DEF After
    <2>6. Watches(t)'
      BY <1>1, <1>2, <2>2, <2>3, <2>5 DEF Watches
    <2> QED BY <2>4, <2>6
  <1>10. CASE AnnounceEvent(t)
    <2>1. ticks[t].pc = "announce" /\ ticks' = [Done(t) EXCEPT ![t].pc = "dispatch"]
      BY <1>10 DEF AnnounceEvent, Running
    <2>2. ticks'[t] = [ticks[t] EXCEPT !.pc = "dispatch", !.todo = @ \ {NextEvent(t)}]
      <3>1. /\ Done(t)[t] = [ticks[t] EXCEPT !.todo = @ \ {NextEvent(t)}]
            /\ Done(t) \in [Slots -> Ticks]
        BY <1>3 DEF Done, Ticks
      <3>2. ticks'[t] = [Done(t)[t] EXCEPT !.pc = "dispatch"]
        BY <2>1, <3>1
      <3> QED BY <1>3, <3>1, <3>2 DEF Ticks
    <2>3. NextEvent(t) \in logged
      <3>1. PICK i \in logged : IsNext(t, i)
        BY <2>1 DEF AnnouncesLogged
      <3> QED BY <3>1, NextEventLeast DEF IsNext
    <2> QED BY <1>1, <2>1, <2>2, <2>3, DoneWatches
  <1>11. CASE AdvanceLedger(t) /\ ~EndTick(t)
    <2>1. /\ ticks'[t] = [ticks[t] EXCEPT !.pc = "save"] /\ ticks[t].pc = "dispatch"
          /\ ticks[t].todo = {}
      BY <1>3, <1>11 DEF AdvanceLedger, Running
    <2>2. /\ ticks'[t].pc = "save" /\ ticks'[t].from = ticks[t].from
          /\ ticks'[t].seen = ticks[t].seen /\ ticks'[t].latest = ticks[t].latest
      BY <1>3, <2>1 DEF Ticks
    <2>3. Bounded(t)'
      BY <1>1, <1>2, <2>2 DEF Bounded
    <2>4. Watches(t)'
      BY <1>1, <1>2, <2>1, <2>2 DEF Watches
    <2> QED BY <2>3, <2>4
  <1> QED BY <1>4, <1>5, <1>6, <1>7, <1>8, <1>9, <1>10, <1>11 DEF TickStep, FailTick, SaveCursor

(* The prefix invariant is inductive. *)
LEMMA IndexKept ==
  IndexerTypeOK /\ TodoEmitted /\ AnnouncesLogged /\ KeepsUp /\ IndexInv
    /\ [IndexerNext]_indexerVars => IndexInv'
  <1> SUFFICES ASSUME IndexerTypeOK, TodoEmitted, AnnouncesLogged, KeepsUp, IndexInv,
                      [IndexerNext]_indexerVars
               PROVE  IndexInv'
    OBVIOUS
  <1>1. CASE CloseLedger
    BY <1>1, CloseKeeps
  <1>2. CASE CrashIndexer
    <2>1. /\ UNCHANGED <<chain, rows, logged, cursor>> /\ server'.ledger = server.ledger
          /\ \A t \in Slots : ticks'[t] = NoTick
      BY <1>2 DEF CrashIndexer, IndexerTypeOK
    <2>2. Missing' = Missing
      BY <2>1 DEF Missing, Emitted, Handled
    <2>3. NothingBehind'
      BY <2>1, <2>2 DEF IndexInv, NothingBehind
    <2>4. \A t \in Slots : Bounded(t)' /\ Watches(t)'
      BY <2>1, EndedWatches
    <2>5. MirrorsPrefix'
      BY <2>1 DEF IndexInv, MirrorsPrefix, Handled
    <2> QED BY <2>3, <2>4, <2>5 DEF IndexInv
  <1>3. CASE StartIndexer
    <2>1. UNCHANGED <<chain, rows, logged, cursor, ticks>> /\ server'.ledger = cursor
      BY <1>3 DEF StartIndexer
    <2>2. Missing' = Missing
      BY <2>1 DEF Missing, Emitted, Handled
    <2>3. NothingBehind'
      BY <2>1, <2>2 DEF IndexInv, NothingBehind
    <2>4. ASSUME NEW t \in Slots
          PROVE  Bounded(t)' /\ Watches(t)'
      BY <2>1, <2>2 DEF IndexInv, Bounded, Watches, After
    <2>5. MirrorsPrefix'
      BY <2>1 DEF IndexInv, MirrorsPrefix, Handled
    <2> QED BY <2>3, <2>4, <2>5 DEF IndexInv
  <1>4. ASSUME NEW t \in Slots, TickStep(t) \/ StartTick(t)
        PROVE  IndexInv'
    BY <1>4, TickKeepsPrefix, TickKeepsBehind, TickKeepsOthers, TickKeepsItself DEF IndexInv
  <1>5. CASE UNCHANGED indexerVars
    <2>1. UNCHANGED <<chain, rows, logged, cursor, server, ticks>>
      BY <1>5 DEF indexerVars
    <2> QED BY <2>1 DEF IndexInv, NothingBehind, Bounded, Watches, After, MirrorsPrefix,
          Missing, Emitted, Handled
  <1> QED BY <1>1, <1>2, <1>3, <1>4, <1>5 DEF IndexerNext

(* The server's steps, seen from the indexer. *)
LEMMA StepsOfIndexer == [Next]_vars => [IndexerNext]_indexerVars
  <1> SUFFICES ASSUME [Next]_vars
               PROVE  [IndexerNext]_indexerVars
    OBVIOUS
  <1>1. CASE IndexerStep
    BY <1>1 DEF IndexerStep, IndexerNext, TickStep
  <1>2. ASSUME NEW t \in Slots, Announce(t)
        PROVE  IndexerNext
    BY <1>2 DEF Announce, IndexerNext, TickStep
  <1>3. CASE Crash
    BY <1>3 DEF Crash, IndexerNext
  <1>4. CASE WebhookStep
    BY <1>4 DEF WebhookStep
  <1>5. CASE UNCHANGED vars
    BY <1>5 DEF vars
  <1> QED BY <1>1, <1>2, <1>3, <1>4, <1>5 DEF Next

LEMMA IndexerStarts == Init => IndexerTypeOK /\ TodoEmitted /\ AnnouncesLogged /\ IndexInv
  <1> SUFFICES ASSUME Init
               PROVE  IndexerTypeOK /\ TodoEmitted /\ AnnouncesLogged /\ IndexInv
    OBVIOUS
  <1>1. /\ chain = [latest |-> 0, ledgerOf |-> <<>>] /\ rows = EmptyRows /\ logged = {}
        /\ cursor = 0 /\ server = [up |-> FALSE, ledger |-> 0, timer |-> FALSE]
        /\ ticks = [t \in Slots |-> NoTick] /\ faults = [crashes |-> 0, failures |-> 0]
    BY DEF Init, IndexerInit
  <1>2. Len(chain.ledgerOf) = 0 /\ chain.ledgerOf \in Seq(Nat) /\ chain.latest = 0
    BY <1>1
  <1>3. Len(Script) \in Nat /\ Emitted = {}
    BY <1>2, ScriptAssumption DEF Emitted, Indexes
  <1>4. EmptyRows \in Rows
    BY DEF EmptyRows, Rows, EscrowStatuses, MilestoneStatuses, DisputeStatuses
  <1>5. IndexerTypeOK
    <2>1. NoTick \in Ticks
      BY DEF NoTick, Ticks
    <2>2. faults \in [crashes : 0 .. MaxCrashes, failures : 0 .. MaxFailures]
      BY <1>1, IndexerBounds
    <2> QED BY <1>1, <1>2, <1>3, <1>4, <2>1, <2>2 DEF IndexerTypeOK
  <1>6. TodoEmitted /\ AnnouncesLogged
    BY <1>1 DEF TodoEmitted, AnnouncesLogged, NoTick
  <1>7. NothingBehind /\ \A t \in Slots : Bounded(t) /\ Watches(t)
    BY <1>1, <1>2, <1>3 DEF NothingBehind, Bounded, Watches, Missing, NoTick
  <1>8. MirrorsPrefix
    <2>1. rows = Replay[0] /\ logged = {i \in 1 .. 0 : Handled(i)} /\ 0 \in 0 .. Len(chain.ledgerOf)
      BY <1>1, <1>2, ReplayRecursion
    <2> QED BY <2>1 DEF MirrorsPrefix
  <1> QED BY <1>5, <1>6, <1>7, <1>8 DEF IndexInv

(* Whatever ticks overlap, fail or are replayed, the database is a prefix of  *)
(* the chain, each event applied once and in order, as long as the indexer    *)
(* keeps up with the chain (services/eventIndexer.js).                        *)
THEOREM DatabaseMirrors == Spec /\ []KeepsUp => []MirrorsPrefix
  <1>1. Init => IndexerTypeOK /\ TodoEmitted /\ AnnouncesLogged /\ IndexInv
    BY IndexerStarts
  <1>2. IndexerTypeOK /\ TodoEmitted /\ AnnouncesLogged /\ IndexInv /\ KeepsUp /\ [Next]_vars
        => (IndexerTypeOK /\ TodoEmitted /\ AnnouncesLogged /\ IndexInv)'
    BY StepsOfIndexer, IndexerTypes, AnnouncesKept, IndexKept
  <1>3. IndexInv => MirrorsPrefix
    BY DEF IndexInv
  <1> QED BY <1>1, <1>2, <1>3, PTL DEF Spec

(* Under the same condition the cursor passes no event the database lacks.    *)
THEOREM CursorSkipsNothing == Spec /\ []KeepsUp => []NothingSkipped
  <1>1. Init => IndexerTypeOK /\ TodoEmitted /\ AnnouncesLogged /\ IndexInv
    BY IndexerStarts
  <1>2. IndexerTypeOK /\ TodoEmitted /\ AnnouncesLogged /\ IndexInv /\ KeepsUp /\ [Next]_vars
        => (IndexerTypeOK /\ TodoEmitted /\ AnnouncesLogged /\ IndexInv)'
    BY StepsOfIndexer, IndexerTypes, AnnouncesKept, IndexKept
  <1>3. IndexerTypeOK /\ IndexInv => NothingSkipped
    <2> SUFFICES ASSUME IndexerTypeOK, IndexInv, NEW i \in Emitted, Handled(i),
                        chain.ledgerOf[i] < cursor
                 PROVE  i \in logged
      BY DEF NothingSkipped
    <2>1. chain.ledgerOf[i] \in Nat /\ cursor \in Nat
      BY EmittedLedgers DEF IndexerTypeOK
    <2>2. i \notin Missing
      BY <2>1 DEF IndexInv, NothingBehind
    <2> QED BY <2>2 DEF Missing
  <1> QED BY <1>1, <1>2, <1>3, PTL DEF Spec

(***************************************************************************)
(* The webhooks' types and the history of a delivery.                      *)
(***************************************************************************)

(* A call that is about to sign or queue holds the row it created, which has  *)
(* no job yet.                                                                *)
CallInv ==
  \A e \in Events : queueing[e].at \in {"sign", "enqueue"} =>
    /\ queueing[e].row \in DOMAIN delivery
    /\ delivery[queueing[e].row].event = e /\ delivery[queueing[e].row].job = "none"

(* The requests of the attempt under way. *)
Asked(q) == IF q.job \in {"accepted", "refused", "reported", "thrown", "over"} THEN 1 ELSE 0

(* What a delivery's counts say after n stalls. *)
JobOK(q, n) ==
  /\ q.posts <= q.made + Asked(q) + n
  /\ q.posts >= q.made + Asked(q)
  /\ IF q.job = "dead" THEN q.made = Attempts ELSE q.made < Attempts
  /\ q.job = "accepted" => q.received > 0
  /\ q.status = "success" => q.received > 0
  /\ q.status = "failed" => q.posts >= Attempts

JobInv == \A d \in DOMAIN delivery : JobOK(delivery[d], stalls)

(* A row that is replaced by another. *)
LEMMA RowReplaced ==
  ASSUME delivery \in Seq(Deliveries), NEW d \in DOMAIN delivery, NEW r \in Deliveries,
         delivery' = [delivery EXCEPT ![d] = r]
  PROVE  /\ delivery' \in Seq(Deliveries) /\ DOMAIN delivery' = DOMAIN delivery
         /\ delivery'[d] = r /\ \A c \in DOMAIN delivery \ {d} : delivery'[c] = delivery[c]
  <1> DEFINE n == Len(delivery)
  <1>1. n \in Nat /\ DOMAIN delivery = 1 .. n /\ delivery \in [1 .. n -> Deliveries]
    OBVIOUS
  <1> HIDE DEF n
  <1>2. delivery' \in [1 .. n -> Deliveries]
    BY <1>1
  <1>3. delivery' \in Seq(Deliveries)
    BY <1>1, <1>2
  <1> QED BY <1>1, <1>3

(* What happens to a delivery's row when its job takes a step. *)
Steps(d, r) ==
  /\ delivery' = [delivery EXCEPT ![d] = r]
  /\ r \in Deliveries /\ r.event = delivery[d].event /\ r.to = delivery[d].to
  /\ delivery[d].job # "none"
  /\ JobOK(delivery[d], stalls) => JobOK(r, stalls')

LEMMA JobSteps ==
  ASSUME WebhookTypeOK, NEW d \in DOMAIN delivery, WorkerStep(d) \/ FailUpdate(d) \/ StallJob(d)
  PROVE  /\ UNCHANGED <<subscription, queueing>> /\ stalls <= stalls' /\ stalls' \in 0 .. MaxStalls
         /\ \E r : Steps(d, r)
  <1> DEFINE q == delivery[d]
  <1>1. /\ q \in Deliveries /\ stalls \in Nat /\ stalls <= MaxStalls /\ MaxStalls \in Nat
        /\ Attempts \in Nat /\ Attempts > 0
    BY WebhookAssumption DEF WebhookTypeOK
  <1>2. q.made \in Nat /\ q.posts \in Nat /\ q.received \in Nat
    BY <1>1 DEF Deliveries
  <1>3. UNCHANGED <<subscription, queueing>> /\ stalls <= stalls' /\ stalls' \in 0 .. MaxStalls
    BY <1>1 DEF WorkerStep, PostWebhook, RecordOutcome, FinishJob, FailUpdate, StallJob
  <1>4. CASE PostWebhook(d)
    <2>1. PICK answer \in {"accepted", "refused"} :
            delivery' = [delivery EXCEPT
              ![d].job = answer, ![d].posts = @ + 1,
              ![d].received = IF answer = "accepted" THEN @ + 1 ELSE @]
      BY <1>4 DEF PostWebhook
    <2> DEFINE r == [q EXCEPT !.job = answer, !.posts = @ + 1,
                              !.received = IF answer = "accepted" THEN @ + 1 ELSE @]
    <2>2. delivery' = [delivery EXCEPT ![d] = r]
      BY <1>1, <2>1 DEF Deliveries
    <2>3. q.job = "waiting" /\ stalls' = stalls
      BY <1>4 DEF PostWebhook
    <2>4. r \in Deliveries
      <3> DEFINE posts == q.posts + 1
                 received == IF answer = "accepted" THEN q.received + 1 ELSE q.received
      <3>1. posts \in Nat /\ received \in Nat
        BY <1>2
      <3>2. r = [q EXCEPT !.job = answer, !.posts = posts, !.received = received]
        BY <1>1 DEF Deliveries
      <3> HIDE DEF r, posts, received
      <3> QED BY <1>1, <3>1, <3>2 DEF Deliveries
    <2>5. /\ r.event = q.event /\ r.to = q.to /\ r.job = answer /\ r.posts = q.posts + 1
          /\ r.received = IF answer = "accepted" THEN q.received + 1 ELSE q.received
          /\ r.made = q.made /\ r.status = q.status
      BY <1>1 DEF Deliveries
    <2> HIDE DEF r
    <2>6. Asked(q) = 0 /\ Asked(r) = 1
      BY <2>3, <2>5 DEF Asked
    <2>7. JobOK(q, stalls) => JobOK(r, stalls')
      BY <1>1, <1>2, <2>3, <2>5, <2>6 DEF JobOK
    <2>8. Steps(d, r)
      BY <2>2, <2>3, <2>4, <2>5, <2>7 DEF Steps
    <2> QED BY <1>3, <2>8
  <1>5. CASE RecordOutcome(d)
    <2> DEFINE job == IF q.job = "accepted" /\ q.status # "deleted" THEN "reported" ELSE "thrown"
               status == CASE q.status = "deleted" -> q.status
                           [] q.job = "accepted" -> "success"
                           [] OTHER -> IF IsTerminal(d) THEN "failed" ELSE "pending"
               r == [q EXCEPT !.job = job, !.status = status]
    <2>1. q.job \in {"accepted", "refused"} /\ stalls' = stalls
      BY <1>5 DEF RecordOutcome
    <2>2. delivery' = [delivery EXCEPT ![d] = r]
      <3>1. delivery' = [delivery EXCEPT
              ![d].job = IF @ = "accepted" /\ delivery[d].status # "deleted" THEN "reported"
                         ELSE "thrown",
              ![d].status = CASE @ = "deleted" -> @
                              [] delivery[d].job = "accepted" -> "success"
                              [] OTHER -> IF IsTerminal(d) THEN "failed" ELSE "pending"]
        BY <1>5 DEF RecordOutcome
      <3>2. delivery' = [delivery EXCEPT ![d].job = job, ![d].status = status]
        BY <1>1, <3>1 DEF Deliveries
      <3> HIDE DEF job, status
      <3> QED BY <1>1, <3>2 DEF Deliveries
    <2>3. /\ job \in {"reported", "thrown"}
          /\ \/ status = q.status /\ status = "deleted"
             \/ status = "success" /\ q.job = "accepted"
             \/ status = "failed" /\ q.made + 1 >= Attempts
             \/ status = "pending"
      BY DEF IsTerminal
    <2> HIDE DEF job, status
    <2>4. r \in Deliveries
      BY <1>1, <1>2, <2>3 DEF Deliveries
    <2>5. /\ r.event = q.event /\ r.to = q.to /\ r.job = job /\ r.posts = q.posts
          /\ r.received = q.received /\ r.made = q.made /\ r.status = status
      BY <1>1 DEF Deliveries
    <2> HIDE DEF r
    <2>6. Asked(q) = 1 /\ Asked(r) = 1
      BY <2>1, <2>3, <2>5 DEF Asked
    <2>7. JobOK(q, stalls) => JobOK(r, stalls')
      BY <1>1, <1>2, <2>1, <2>3, <2>5, <2>6 DEF JobOK
    <2>8. Steps(d, r)
      BY <2>1, <2>2, <2>4, <2>5, <2>7 DEF Steps
    <2> QED BY <1>3, <2>8
  <1>6. CASE FailUpdate(d)
    <2>1. /\ q.job \in {"accepted", "refused"} /\ stalls' = stalls + 1
          /\ \E kept \in {q.status, IF IsTerminal(d) THEN "failed" ELSE "pending"} :
               delivery' = [delivery EXCEPT ![d].job = "thrown", ![d].status = kept]
      BY <1>6 DEF FailUpdate
    <2>2. PICK kept \in {q.status, IF IsTerminal(d) THEN "failed" ELSE "pending"} :
            delivery' = [delivery EXCEPT ![d].job = "thrown", ![d].status = kept]
      BY <2>1
    <2> DEFINE r == [q EXCEPT !.job = "thrown", !.status = kept]
    <2>3. delivery' = [delivery EXCEPT ![d] = r]
      BY <1>1, <2>2 DEF Deliveries
    <2>4. kept = q.status \/ kept = "pending" \/ (kept = "failed" /\ q.made + 1 >= Attempts)
      BY <2>2 DEF IsTerminal
    <2>5. r \in Deliveries
      BY <1>1, <1>2, <2>4 DEF Deliveries
    <2>6. /\ r.event = q.event /\ r.to = q.to /\ r.job = "thrown" /\ r.posts = q.posts
          /\ r.received = q.received /\ r.made = q.made /\ r.status = kept
      BY <1>1 DEF Deliveries
    <2> HIDE DEF r
    <2>7. Asked(q) = 1 /\ Asked(r) = 1
      BY <2>1, <2>6 DEF Asked
    <2>8. JobOK(q, stalls) => JobOK(r, stalls')
      BY <1>1, <1>2, <2>1, <2>4, <2>6, <2>7 DEF JobOK
    <2>9. Steps(d, r)
      BY <2>1, <2>3, <2>5, <2>6, <2>8 DEF Steps
    <2> QED BY <1>3, <2>9
  <1>7. CASE FinishJob(d)
    <2> DEFINE job == CASE q.job = "reported" -> "over"
                        [] OTHER -> IF IsTerminal(d) THEN "dead" ELSE "waiting"
               made == IF q.job = "thrown" THEN q.made + 1 ELSE q.made
               r == [q EXCEPT !.job = job, !.made = made]
    <2>1. q.job \in {"reported", "thrown"} /\ stalls' = stalls
      BY <1>7 DEF FinishJob
    <2>2. delivery' = [delivery EXCEPT ![d] = r]
      BY <1>1, <1>7 DEF FinishJob, Deliveries
    <2>3. \/ q.job = "reported" /\ job = "over" /\ made = q.made
          \/ q.job = "thrown" /\ job = "dead" /\ made = q.made + 1 /\ q.made + 1 >= Attempts
          \/ q.job = "thrown" /\ job = "waiting" /\ made = q.made + 1 /\ ~(q.made + 1 >= Attempts)
      BY <2>1 DEF IsTerminal
    <2> HIDE DEF job, made
    <2>4. r \in Deliveries
      <3>1. made \in Nat /\ job \in {"over", "dead", "waiting"}
        BY <1>2, <2>3
      <3> QED BY <1>1, <3>1 DEF Deliveries
    <2>5. /\ r.event = q.event /\ r.to = q.to /\ r.job = job /\ r.posts = q.posts
          /\ r.received = q.received /\ r.made = made /\ r.status = q.status
      BY <1>1 DEF Deliveries
    <2> HIDE DEF r
    <2>6. Asked(q) = 1 /\ Asked(r) = IF q.job = "reported" THEN 1 ELSE 0
      BY <2>1, <2>3, <2>5 DEF Asked
    <2>7. JobOK(q, stalls) => JobOK(r, stalls')
      BY <1>1, <1>2, <2>1, <2>3, <2>5, <2>6 DEF JobOK
    <2>8. Steps(d, r)
      BY <2>1, <2>2, <2>4, <2>5, <2>7 DEF Steps
    <2> QED BY <1>3, <2>8
  <1>8. CASE StallJob(d)
    <2> DEFINE r == [q EXCEPT !.job = "waiting"]
    <2>1. q.job \in {"accepted", "refused", "reported", "thrown"} /\ stalls' = stalls + 1
      BY <1>8 DEF StallJob
    <2>2. delivery' = [delivery EXCEPT ![d] = r]
      BY <1>1, <1>8 DEF StallJob, Deliveries
    <2>3. r \in Deliveries
      BY <1>1, <1>2 DEF Deliveries
    <2>4. /\ r.event = q.event /\ r.to = q.to /\ r.job = "waiting" /\ r.posts = q.posts
          /\ r.received = q.received /\ r.made = q.made /\ r.status = q.status
      BY <1>1 DEF Deliveries
    <2> HIDE DEF r
    <2>5. Asked(q) = 1 /\ Asked(r) = 0
      BY <2>1, <2>4 DEF Asked
    <2>6. JobOK(q, stalls) => JobOK(r, stalls')
      BY <1>1, <1>2, <2>1, <2>4, <2>5 DEF JobOK
    <2>7. Steps(d, r)
      BY <2>1, <2>2, <2>3, <2>4, <2>6 DEF Steps
    <2> QED BY <1>3, <2>7
  <1> QED BY <1>4, <1>5, <1>6, <1>7, <1>8 DEF WorkerStep

(* A subscription is deleted: its deliveries' rows go, nothing else changes. *)
LEMMA RowsDeleted ==
  ASSUME WebhookTypeOK, NEW s \in Subscribers, DeleteSubscription(s)
  PROVE  /\ subscription' \in [Subscribers -> {"none", "active", "deleted"}]
         /\ delivery' \in Seq(Deliveries) /\ DOMAIN delivery' = DOMAIN delivery
         /\ UNCHANGED <<queueing, stalls>>
         /\ \A d \in DOMAIN delivery :
              \/ delivery'[d] = delivery[d]
              \/ delivery'[d] = [delivery[d] EXCEPT !.status = "deleted"]
  <1> DEFINE n == Len(delivery)
             gone(d) == [delivery[d] EXCEPT !.status = "deleted"]
  <1>1. n \in Nat /\ DOMAIN delivery = 1 .. n /\ \A d \in 1 .. n : delivery[d] \in Deliveries
    BY DEF WebhookTypeOK
  <1>2. delivery' = [d \in DOMAIN delivery |->
                       IF delivery[d].to = s THEN gone(d) ELSE delivery[d]]
    BY DEF DeleteSubscription
  <1>3. \A d \in 1 .. n : gone(d) \in Deliveries
    BY <1>1 DEF Deliveries
  <1> HIDE DEF n, gone
  <1>4. delivery' \in [1 .. n -> Deliveries] /\ DOMAIN delivery' = 1 .. n
    BY <1>1, <1>2, <1>3
  <1>5. delivery' \in Seq(Deliveries)
    BY <1>1, <1>4
  <1>6. \A d \in DOMAIN delivery : delivery'[d] = delivery[d] \/ delivery'[d] = gone(d)
    BY <1>2
  <1>7. subscription' \in [Subscribers -> {"none", "active", "deleted"}]
        /\ UNCHANGED <<queueing, stalls>>
    BY DEF DeleteSubscription, WebhookTypeOK
  <1> QED BY <1>1, <1>4, <1>5, <1>6, <1>7 DEF gone

(* The loop of queueEventWebhooks goes on with the subscriptions that are left, *)
(* or ends.                                                                     *)
LEMMA LoopGoesOn ==
  ASSUME WebhookTypeOK, NEW e \in Events, NEW left \in SUBSET Subscribers,
         NextSubscription(e, left)
  PROVE  /\ queueing' \in [Events -> Calls]
         /\ queueing'[e].at \in {"none", "create"} /\ queueing'[e].left \subseteq left
         /\ \A f \in Events \ {e} : queueing'[f] = queueing[f]
  <1> DEFINE call == IF left = {} THEN NoCall ELSE [at |-> "create", left |-> left, row |-> 0]
  <1>1. queueing' = [queueing EXCEPT ![e] = call] /\ queueing \in [Events -> Calls]
    BY DEF NextSubscription, WebhookTypeOK
  <1>2. call \in Calls /\ call.at \in {"none", "create"} /\ call.left \subseteq left
    BY DEF Calls, NoCall
  <1> HIDE DEF call
  <1> QED BY <1>1, <1>2

(* What creating a delivery does, by whether its subscription is still there. *)
LEMMA RowCreated ==
  ASSUME WebhookTypeOK, NEW e \in Events, CreateDelivery(e)
  PROVE  /\ UNCHANGED <<subscription, stalls>>
         /\ queueing' \in [Events -> Calls] /\ delivery' \in Seq(Deliveries)
         /\ \A f \in Events \ {e} : queueing'[f] = queueing[f]
         /\ \/ queueing'[e] = NoCall /\ delivery' = delivery
            \/ \E s \in queueing[e].left :
                 /\ queueing'[e] = [at |-> "sign", left |-> queueing[e].left \ {s},
                                    row |-> Len(delivery) + 1]
                 /\ DOMAIN delivery' = DOMAIN delivery \cup {Len(delivery) + 1}
                 /\ Len(delivery) + 1 \notin DOMAIN delivery
                 /\ delivery'[Len(delivery) + 1] =
                      [event |-> e, to |-> s, status |-> "pending", job |-> "none",
                       made |-> 0, posts |-> 0, received |-> 0]
                 /\ \A d \in DOMAIN delivery : delivery'[d] = delivery[d]
  <1>0. /\ queueing \in [Events -> Calls] /\ queueing[e] \in Calls /\ delivery \in Seq(Deliveries)
        /\ Len(delivery) \in Nat /\ UNCHANGED <<subscription, stalls>>
    BY DEF WebhookTypeOK, CreateDelivery
  <1>1. CASE queueing' = [queueing EXCEPT ![e] = NoCall] /\ delivery' = delivery
    <2>1. NoCall \in Calls
      BY DEF NoCall, Calls
    <2> QED BY <1>0, <1>1, <2>1
  <1>2. ASSUME NEW s \in queueing[e].left,
               queueing' = [queueing EXCEPT ![e] =
                              [at |-> "sign", left |-> @.left \ {s}, row |-> Len(delivery) + 1]],
               delivery' = Append(delivery,
                             [event |-> e, to |-> s, status |-> "pending", job |-> "none",
                              made |-> 0, posts |-> 0, received |-> 0])
        PROVE  /\ queueing' \in [Events -> Calls] /\ delivery' \in Seq(Deliveries)
               /\ \A f \in Events \ {e} : queueing'[f] = queueing[f]
               /\ queueing'[e] = [at |-> "sign", left |-> queueing[e].left \ {s},
                                  row |-> Len(delivery) + 1]
               /\ DOMAIN delivery' = DOMAIN delivery \cup {Len(delivery) + 1}
               /\ Len(delivery) + 1 \notin DOMAIN delivery
               /\ delivery'[Len(delivery) + 1] =
                    [event |-> e, to |-> s, status |-> "pending", job |-> "none",
                     made |-> 0, posts |-> 0, received |-> 0]
               /\ \A d \in DOMAIN delivery : delivery'[d] = delivery[d]
    <2> DEFINE call == [at |-> "sign", left |-> queueing[e].left \ {s}, row |-> Len(delivery) + 1]
               new == [event |-> e, to |-> s, status |-> "pending", job |-> "none",
                       made |-> 0, posts |-> 0, received |-> 0]
    <2>1. queueing[e].left \subseteq Subscribers
      BY <1>0 DEF Calls
    <2>2. call \in Calls
      BY <1>0, <2>1 DEF Calls
    <2>3. new \in Deliveries
      BY <1>2, <2>1 DEF Deliveries
    <2>4. queueing' = [queueing EXCEPT ![e] = call] /\ delivery' = Append(delivery, new)
      BY <1>2
    <2> HIDE DEF call, new
    <2>5. /\ queueing' \in [Events -> Calls] /\ queueing'[e] = call
          /\ \A f \in Events \ {e} : queueing'[f] = queueing[f]
      BY <1>0, <2>2, <2>4
    <2>6. /\ delivery' \in Seq(Deliveries) /\ delivery'[Len(delivery) + 1] = new
          /\ DOMAIN delivery' = DOMAIN delivery \cup {Len(delivery) + 1}
          /\ Len(delivery) + 1 \notin DOMAIN delivery
          /\ \A d \in DOMAIN delivery : delivery'[d] = delivery[d]
      <3>1. DOMAIN delivery = 1 .. Len(delivery) /\ Len(delivery') = Len(delivery) + 1
            /\ delivery' \in Seq(Deliveries) /\ DOMAIN delivery' = 1 .. Len(delivery')
        BY <1>0, <2>3, <2>4
      <3>2. \A d \in 1 .. Len(delivery) : delivery'[d] = delivery[d]
        BY <1>0, <2>3, <2>4
      <3>3. delivery'[Len(delivery) + 1] = new
        BY <1>0, <2>3, <2>4
      <3>4. 1 .. (Len(delivery) + 1) = 1 .. Len(delivery) \cup {Len(delivery) + 1}
            /\ Len(delivery) + 1 \notin 1 .. Len(delivery)
        BY <1>0
      <3> QED BY <3>1, <3>2, <3>3, <3>4
    <2> QED BY <2>5, <2>6 DEF call, new
  <1>3. PICK s \in queueing[e].left :
          IF subscription[s] = "active"
          THEN /\ delivery' = Append(delivery,
                     [event |-> e, to |-> s, status |-> "pending", job |-> "none",
                      made |-> 0, posts |-> 0, received |-> 0])
               /\ queueing' = [queueing EXCEPT ![e] =
                     [at |-> "sign", left |-> @.left \ {s}, row |-> Len(delivery) + 1]]
          ELSE /\ queueing' = [queueing EXCEPT ![e] = NoCall]
               /\ UNCHANGED delivery
    BY DEF CreateDelivery
  <1> QED BY <1>0, <1>1, <1>2, <1>3

(* Queueing a delivery gives its row a job. *)
LEMMA RowQueued ==
  ASSUME WebhookTypeOK, CallInv, NEW e \in Events, EnqueueDelivery(e)
  PROVE  LET row == queueing[e].row
             r   == [delivery[row] EXCEPT !.job = "waiting"]
         IN  /\ UNCHANGED <<subscription, stalls>>
             /\ row \in DOMAIN delivery /\ delivery[row].event = e /\ delivery[row].job = "none"
             /\ r \in Deliveries /\ delivery' = [delivery EXCEPT ![row] = r]
             /\ NextSubscription(e, queueing[e].left) /\ queueing[e].left \in SUBSET Subscribers
  <1> DEFINE row == queueing[e].row
             r == [delivery[row] EXCEPT !.job = "waiting"]
  <1>1. row \in DOMAIN delivery /\ delivery[row].event = e /\ delivery[row].job = "none"
    BY DEF EnqueueDelivery, CallInv
  <1>2. delivery[row] \in Deliveries /\ delivery \in Seq(Deliveries) /\ queueing[e] \in Calls
    BY <1>1 DEF WebhookTypeOK
  <1>3. r \in Deliveries
    BY <1>2 DEF Deliveries
  <1>4. delivery' = [delivery EXCEPT ![row].job = "waiting"]
        /\ UNCHANGED <<subscription, stalls>> /\ NextSubscription(e, queueing[e].left)
    BY DEF EnqueueDelivery
  <1>5. delivery' = [delivery EXCEPT ![row] = r]
    BY <1>1, <1>4
  <1>6. queueing[e].left \in SUBSET Subscribers
    BY <1>2 DEF Calls
  <1> QED BY <1>1, <1>3, <1>4, <1>5, <1>6

(* What the server and the workers do to the webhooks. *)
WebhookMove ==
  WebhookNext \/ LoseCalls \/ UNCHANGED webhookVars \/ \E e : BeginQueueing(e)

LEMMA StepsOfWebhooks == [Next]_vars => WebhookMove
  <1> SUFFICES ASSUME [Next]_vars
               PROVE  WebhookMove
    OBVIOUS
  <1>1. CASE IndexerStep
    BY <1>1 DEF IndexerStep, WebhookMove
  <1>2. ASSUME NEW t \in Slots, Announce(t)
        PROVE  WebhookMove
    BY <1>2 DEF Announce, WebhookMove
  <1>3. CASE Crash
    BY <1>3 DEF Crash, WebhookMove
  <1>4. CASE WebhookStep
    BY <1>4 DEF WebhookStep, WebhookMove
  <1>5. CASE UNCHANGED vars
    BY <1>5 DEF vars, WebhookMove
  <1> QED BY <1>1, <1>2, <1>3, <1>4, <1>5 DEF Next

WebhookInv == WebhookTypeOK /\ CallInv /\ JobInv

(* A delivery's counts stand whatever stalls come. *)
LEMMA JobLasts ==
  ASSUME NEW q \in Deliveries, NEW m \in Nat, NEW n \in Nat, m <= n, JobOK(q, m)
  PROVE  JobOK(q, n)
  <1>1. q.made \in Nat /\ q.posts \in Nat /\ Asked(q) \in Nat
    BY DEF Deliveries, Asked
  <1> QED BY <1>1 DEF JobOK

LEMMA WebhookKept == WebhookInv /\ WebhookMove => WebhookInv'
  <1> SUFFICES ASSUME WebhookInv, WebhookMove
               PROVE  WebhookInv'
    OBVIOUS
  <1>0. /\ WebhookTypeOK /\ CallInv /\ JobInv
        /\ subscription \in [Subscribers -> {"none", "active", "deleted"}]
        /\ queueing \in [Events -> Calls] /\ delivery \in Seq(Deliveries)
        /\ stalls \in 0 .. MaxStalls /\ stalls \in Nat /\ MaxStalls \in Nat
        /\ \A d \in DOMAIN delivery : delivery[d] \in Deliveries
    BY WebhookAssumption DEF WebhookInv, WebhookTypeOK
  <1>1. ASSUME NEW s \in Subscribers, CreateSubscription(s)
        PROVE  WebhookInv'
    BY <1>0, <1>1 DEF CreateSubscription, WebhookInv, WebhookTypeOK, CallInv, JobInv
  <1>2. ASSUME NEW s \in Subscribers, DeleteSubscription(s)
        PROVE  WebhookInv'
    <2>1. /\ DOMAIN delivery' = DOMAIN delivery /\ UNCHANGED <<queueing, stalls>>
          /\ WebhookTypeOK'
      BY <1>0, <1>2, RowsDeleted DEF WebhookTypeOK
    <2>2. ASSUME NEW d \in DOMAIN delivery
          PROVE  /\ delivery'[d].event = delivery[d].event /\ delivery'[d].job = delivery[d].job
                 /\ JobOK(delivery'[d], stalls)
      <3> DEFINE q == delivery[d]  r == delivery'[d]
      <3>1. q \in Deliveries /\ JobOK(q, stalls)
        BY <1>0 DEF JobInv
      <3>2. r = q \/ r = [q EXCEPT !.status = "deleted"]
        BY <1>0, <1>2, RowsDeleted
      <3>3. /\ r.event = q.event /\ r.job = q.job /\ r.posts = q.posts /\ r.made = q.made
            /\ r.received = q.received /\ (r.status = q.status \/ r.status = "deleted")
        BY <3>1, <3>2 DEF Deliveries
      <3> HIDE DEF q, r
      <3>4. Asked(r) = Asked(q)
        BY <3>3 DEF Asked
      <3>5. JobOK(r, stalls)
        BY <3>1, <3>3, <3>4 DEF JobOK
      <3> QED BY <3>3, <3>5 DEF q, r
    <2> QED BY <1>0, <2>1, <2>2 DEF WebhookInv, CallInv, JobInv
  <1>3. ASSUME NEW e \in Events, FindSubscriptions(e)
        PROVE  WebhookInv'
    <2> DEFINE found == {s \in Subscribers : subscription[s] = "active" /\ e \in Wants[s]}
    <2>1. NextSubscription(e, found) /\ UNCHANGED <<subscription, delivery, stalls>>
          /\ found \in SUBSET Subscribers
      BY <1>3 DEF FindSubscriptions
    <2> HIDE DEF found
    <2>2. /\ queueing' \in [Events -> Calls] /\ queueing'[e].at \in {"none", "create"}
          /\ \A f \in Events \ {e} : queueing'[f] = queueing[f]
      BY <1>0, <2>1, LoopGoesOn
    <2> QED BY <1>0, <2>1, <2>2 DEF WebhookInv, WebhookTypeOK, CallInv, JobInv
  <1>4. ASSUME NEW e \in Events, CreateDelivery(e)
        PROVE  WebhookInv'
    <2>1. /\ UNCHANGED <<subscription, stalls>>
          /\ queueing' \in [Events -> Calls] /\ delivery' \in Seq(Deliveries)
          /\ \A f \in Events \ {e} : queueing'[f] = queueing[f]
      BY <1>0, <1>4, RowCreated
    <2>2. WebhookTypeOK'
      BY <1>0, <2>1 DEF WebhookTypeOK
    <2>3. CASE queueing'[e] = NoCall /\ delivery' = delivery
      BY <1>0, <2>1, <2>2, <2>3 DEF WebhookInv, CallInv, JobInv, NoCall
    <2>4. CASE ~(queueing'[e] = NoCall /\ delivery' = delivery)
      <3> DEFINE n == Len(delivery) + 1
      <3>1. PICK s \in queueing[e].left :
              /\ queueing'[e] = [at |-> "sign", left |-> queueing[e].left \ {s}, row |-> n]
              /\ DOMAIN delivery' = DOMAIN delivery \cup {n}
              /\ n \notin DOMAIN delivery
              /\ delivery'[n] = [event |-> e, to |-> s, status |-> "pending", job |-> "none",
                                 made |-> 0, posts |-> 0, received |-> 0]
              /\ \A d \in DOMAIN delivery : delivery'[d] = delivery[d]
        BY <1>0, <1>4, <2>4, RowCreated
      <3> HIDE DEF n
      <3>2. CallInv'
        BY <1>0, <2>1, <3>1 DEF CallInv
      <3>3. JobOK(delivery'[n], stalls)
        <4> DEFINE q == delivery'[n]
        <4>1. q.job = "none" /\ q.posts = 0 /\ q.made = 0 /\ q.status = "pending"
          BY <3>1
        <4> HIDE DEF q
        <4>2. Asked(q) = 0
          BY <4>1 DEF Asked
        <4>3. JobOK(q, stalls)
          BY <1>0, <4>1, <4>2, WebhookAssumption DEF JobOK
        <4> QED BY <4>3 DEF q
      <3>4. JobInv'
        BY <1>0, <2>1, <3>1, <3>3 DEF JobInv
      <3> QED BY <2>2, <3>2, <3>4 DEF WebhookInv
    <2> QED BY <2>3, <2>4
  <1>5. ASSUME NEW e \in Events, SignDelivery(e)
        PROVE  WebhookInv'
    <2> DEFINE call == IF delivery[queueing[e].row].status = "deleted" THEN NoCall
                       ELSE [queueing[e] EXCEPT !.at = "enqueue"]
    <2>1. /\ queueing[e].at = "sign" /\ queueing' = [queueing EXCEPT ![e] = call]
          /\ UNCHANGED <<subscription, delivery, stalls>> /\ queueing[e] \in Calls
      BY <1>0, <1>5 DEF SignDelivery
    <2>2. call \in Calls /\ (call.at = "none" \/ call.row = queueing[e].row)
      BY <2>1 DEF Calls, NoCall
    <2> HIDE DEF call
    <2>3. WebhookTypeOK'
      BY <1>0, <2>1, <2>2 DEF WebhookTypeOK
    <2>4. CallInv'
      BY <1>0, <2>1, <2>2 DEF CallInv
    <2> QED BY <1>0, <2>1, <2>3, <2>4 DEF WebhookInv, JobInv
  <1>6. ASSUME NEW e \in Events, EnqueueDelivery(e)
        PROVE  WebhookInv'
    <2> DEFINE row == queueing[e].row
               r == [delivery[row] EXCEPT !.job = "waiting"]
    <2>1. /\ UNCHANGED <<subscription, stalls>>
          /\ row \in DOMAIN delivery /\ delivery[row].event = e /\ delivery[row].job = "none"
          /\ r \in Deliveries /\ delivery' = [delivery EXCEPT ![row] = r]
          /\ NextSubscription(e, queueing[e].left) /\ queueing[e].left \in SUBSET Subscribers
      BY <1>0, <1>6, RowQueued
    <2>2. /\ queueing' \in [Events -> Calls] /\ queueing'[e].at \in {"none", "create"}
          /\ \A f \in Events \ {e} : queueing'[f] = queueing[f]
      BY <1>0, <2>1, LoopGoesOn
    <2>3. /\ delivery[row] \in Deliveries /\ r.event = delivery[row].event /\ r.job = "waiting"
          /\ r.posts = delivery[row].posts /\ r.made = delivery[row].made
          /\ r.received = delivery[row].received /\ r.status = delivery[row].status
      BY <1>0, <2>1 DEF Deliveries
    <2> HIDE DEF r, row
    <2>4. /\ delivery' \in Seq(Deliveries) /\ DOMAIN delivery' = DOMAIN delivery
          /\ delivery'[row] = r /\ \A c \in DOMAIN delivery \ {row} : delivery'[c] = delivery[c]
      BY <1>0, <2>1, RowReplaced
    <2>5. WebhookTypeOK'
      BY <1>0, <2>1, <2>2, <2>4 DEF WebhookTypeOK
    <2>6. CallInv'
      BY <1>0, <2>1, <2>2, <2>4 DEF CallInv
    <2>7. JobOK(r, stalls)
      <3>1. JobOK(delivery[row], stalls) /\ Asked(delivery[row]) = 0 /\ Asked(r) = 0
        BY <1>0, <2>1, <2>3 DEF JobInv, Asked
      <3> QED BY <2>1, <2>3, <3>1 DEF JobOK
    <2>8. JobInv'
      BY <1>0, <2>1, <2>4, <2>7 DEF JobInv
    <2> QED BY <2>5, <2>6, <2>8 DEF WebhookInv
  <1>7. ASSUME NEW d \in DOMAIN delivery, WorkerStep(d) \/ FailUpdate(d) \/ StallJob(d)
        PROVE  WebhookInv'
    <2>1. UNCHANGED <<subscription, queueing>> /\ stalls <= stalls' /\ stalls' \in 0 .. MaxStalls
      BY <1>0, <1>7, JobSteps
    <2>2. PICK r : Steps(d, r)
      BY <1>0, <1>7, JobSteps
    <2>3. /\ delivery' \in Seq(Deliveries) /\ DOMAIN delivery' = DOMAIN delivery
          /\ delivery'[d] = r /\ \A c \in DOMAIN delivery \ {d} : delivery'[c] = delivery[c]
      BY <1>0, <2>2, RowReplaced DEF Steps
    <2>4. WebhookTypeOK'
      BY <1>0, <2>1, <2>3 DEF WebhookTypeOK
    <2>5. CallInv'
      BY <1>0, <2>1, <2>2, <2>3 DEF CallInv, Steps
    <2>6. JobOK(delivery'[d], stalls')
      BY <1>0, <2>2, <2>3 DEF JobInv, Steps
    <2>7. \A c \in DOMAIN delivery \ {d} : JobOK(delivery'[c], stalls')
      <3>1. stalls' \in Nat
        BY <1>0, <2>1
      <3> QED BY <1>0, <2>1, <2>3, <3>1, JobLasts DEF JobInv
    <2>8. JobInv'
      BY <2>3, <2>6, <2>7 DEF JobInv
    <2> QED BY <2>4, <2>5, <2>8 DEF WebhookInv
  <1>8. CASE LoseCalls
    <2>1. queueing' = [e \in Events |-> NoCall] /\ UNCHANGED <<subscription, delivery, stalls>>
      BY <1>8 DEF LoseCalls
    <2>2. NoCall \in Calls /\ NoCall.at = "none"
      BY DEF NoCall, Calls
    <2> QED BY <1>0, <2>1, <2>2 DEF WebhookInv, WebhookTypeOK, CallInv, JobInv
  <1>9. ASSUME NEW e, BeginQueueing(e)
        PROVE  WebhookInv'
    <2> DEFINE call == [NoCall EXCEPT !.at = "find"]
    <2>1. queueing' = [queueing EXCEPT ![e] = call] /\ UNCHANGED <<subscription, delivery, stalls>>
      BY <1>9 DEF BeginQueueing
    <2>2. call \in Calls /\ call.at = "find"
      BY DEF NoCall, Calls
    <2> HIDE DEF call
    <2> QED BY <1>0, <2>1, <2>2 DEF WebhookInv, WebhookTypeOK, CallInv, JobInv
  <1>10. CASE UNCHANGED webhookVars
    BY <1>0, <1>10 DEF webhookVars, WebhookInv, WebhookTypeOK, CallInv, JobInv
  <1> QED BY <1>1, <1>2, <1>3, <1>4, <1>5, <1>6, <1>7, <1>8, <1>9, <1>10 DEF WebhookMove,
        WebhookNext, QueueingStep

LEMMA WebhooksStart == Init => WebhookInv
  <1>1. ASSUME Init
        PROVE  WebhookInv
    <2>1. /\ subscription = [s \in Subscribers |-> "none"] /\ delivery = <<>> /\ stalls = 0
          /\ queueing = [e \in Events |-> NoCall]
      BY <1>1 DEF Init, WebhookInit
    <2>2. NoCall \in Calls /\ NoCall.at = "none"
      BY DEF NoCall, Calls
    <2> QED BY <2>1, <2>2, WebhookAssumption DEF WebhookInv, WebhookTypeOK, CallInv, JobInv
  <1> QED BY <1>1

(* The types of the indexer and the webhooks. *)
THEOREM PipelineTypes == Spec => []TypeOK
  <1>1. Init => IndexerTypeOK /\ TodoEmitted /\ WebhookInv
    BY IndexerStarts, WebhooksStart
  <1>2. IndexerTypeOK /\ TodoEmitted /\ WebhookInv /\ [Next]_vars
        => (IndexerTypeOK /\ TodoEmitted /\ WebhookInv)'
    BY StepsOfIndexer, IndexerTypes, StepsOfWebhooks, WebhookKept
  <1>3. IndexerTypeOK /\ WebhookInv => TypeOK
    BY DEF TypeOK, WebhookInv
  <1> QED BY <1>1, <1>2, <1>3, PTL DEF Spec

(* The history of the deliveries is true (workers/webhookWorker.js): a success *)
(* was accepted, a failure was tried as often as promised, and no receiver is  *)
(* asked more often than that and once for each stall.                         *)
THEOREM HistoryIsHonest == Spec => []HistoryHonest
  <1>1. Init => WebhookInv
    BY WebhooksStart
  <1>2. WebhookInv /\ [Next]_vars => WebhookInv'
    BY StepsOfWebhooks, WebhookKept
  <1>3. WebhookInv => HistoryHonest
    <2> SUFFICES ASSUME WebhookInv, NEW d \in DOMAIN delivery
                 PROVE  /\ delivery[d].status = "success" => delivery[d].received > 0
                        /\ delivery[d].status = "failed" => delivery[d].posts >= Attempts
                        /\ delivery[d].posts <= Attempts + stalls
      BY DEF HistoryHonest
    <2> DEFINE q == delivery[d]
    <2>1. JobOK(q, stalls) /\ q \in Deliveries /\ stalls \in Nat
      BY WebhookAssumption DEF WebhookInv, JobInv, WebhookTypeOK
    <2>2. q.made \in Nat /\ q.posts \in Nat /\ Asked(q) \in {0, 1} /\ Attempts \in Nat
      BY <2>1, WebhookAssumption DEF Deliveries, Asked
    <2>3. q.made + Asked(q) <= Attempts
      BY <2>1, <2>2 DEF JobOK, Asked
    <2> HIDE DEF q
    <2>4. /\ q.status = "success" => q.received > 0
          /\ q.status = "failed" => q.posts >= Attempts
          /\ q.posts <= Attempts + stalls
      BY <2>1, <2>2, <2>3 DEF JobOK
    <2> QED BY <2>4 DEF q
  <1> QED BY <1>1, <1>2, <1>3, PTL DEF Spec

(***************************************************************************)
(* One delivery for an event and a subscription.                           *)
(***************************************************************************)

(* The event was not handed to the webhooks yet. *)
Untold(e) == e \notin logged \/ \E t \in Slots : Announcing(t, e)

OneTeller ==
  \A t, u \in Slots, e \in Nat : Announcing(t, e) /\ Announcing(u, e) => t = u

Quiet(e) == queueing[e].at = "none" /\ \A d \in DOMAIN delivery : delivery[d].event # e

(* The call for an event has only subscriptions left that got no delivery. *)
CallsOnce ==
  \A d \in DOMAIN delivery :
    /\ queueing[delivery[d].event].at # "find"
    /\ delivery[d].to \notin queueing[delivery[d].event].left

(* An announced event is a number, and recorded. *)
LEMMA AnnouncedLogged ==
  ASSUME IndexerTypeOK, AnnouncesLogged, NEW t \in Slots, NEW e, Announcing(t, e)
  PROVE  e \in logged /\ e \in Nat /\ e = NextEvent(t)
  <1>1. PICK i \in logged : IsNext(t, i)
    BY DEF AnnouncesLogged, Announcing
  <1>2. ticks[t].todo # {} /\ e = NextEvent(t) /\ i = NextEvent(t)
    BY <1>1, NextEventLeast DEF Announcing, IsNext
  <1>3. logged \subseteq Nat
    BY ScriptAssumption DEF IndexerTypeOK, Emitted, Indexes
  <1> QED BY <1>1, <1>2, <1>3

LEMMA UntoldShrinks ==
  ASSUME IndexerTypeOK, AnnouncesLogged, OneTeller, [IndexerNext]_indexerVars
  PROVE  OneTeller' /\ \A e : Untold(e)' => Untold(e)
  <1>1. ASSUME NEW t \in Slots, CommitEvent(t)
        PROVE  OneTeller' /\ \A e : Untold(e)' => Untold(e)
    <2> DEFINE n == NextEvent(t)
    <2>1. /\ IsNext(t, n) /\ n \notin logged /\ logged' = logged \cup {n}
          /\ ticks'[t].pc = "announce" /\ \A i : IsNext(t, i)' <=> IsNext(t, i)
          /\ \A i : IsNext(t, i) => i = n
      BY <1>1, TellsNext, NextEventLeast DEF IsNext
    <2>2. \A u \in Slots \ {t} : \A e : Announcing(u, e)' <=> Announcing(u, e)
      BY <1>1, TellsNext DEF Announcing, IsNext
    <2> HIDE DEF n
    <2>3. \A u \in Slots : \A e : Announcing(u, e) => e \in logged
      BY AnnouncedLogged
    <2>4. \A e : Announcing(t, e)' => e = n
      BY <2>1 DEF Announcing
    <2>5. OneTeller'
      <3> SUFFICES ASSUME NEW u \in Slots, NEW w \in Slots, NEW e \in Nat,
                          Announcing(u, e)', Announcing(w, e)'
                   PROVE  u = w
        BY DEF OneTeller
      <3>1. CASE u # t /\ w # t
        BY <2>2, <3>1 DEF OneTeller
      <3>2. CASE u = t \/ w = t
        BY <2>1, <2>2, <2>3, <2>4, <3>2
      <3> QED BY <3>1, <3>2
    <2>6. \A e : Untold(e)' => Untold(e)
      BY <2>1, <2>2, <2>4 DEF Untold
    <2> QED BY <2>5, <2>6
  <1>2. CASE \A t \in Slots : ~CommitEvent(t)
    <2>1. logged' = logged /\ \A u \in Slots : \A e : Announcing(u, e)' => Announcing(u, e)
      BY <1>2, TellsLess DEF Announcing, IsNext
    <2>2. OneTeller'
      BY <2>1 DEF OneTeller
    <2> QED BY <2>1, <2>2 DEF Untold
  <1> QED BY <1>1, <1>2

(* The announced event is told once the tick goes on. *)
LEMMA Told ==
  ASSUME IndexerTypeOK, AnnouncesLogged, OneTeller, NEW t \in Slots, AnnounceEvent(t)
  PROVE  \E n \in Nat : n = NextEvent(t) /\ Untold(n) /\ ~Untold(n)'
  <1>0. PICK n : n = NextEvent(t)
    OBVIOUS
  <1>1. ticks[t].pc = "announce" /\ logged' = logged
    BY DEF AnnounceEvent, Running
  <1>2. PICK i \in logged : IsNext(t, i)
    BY <1>1 DEF AnnouncesLogged
  <1>3. Announcing(t, n) /\ n \in logged /\ n \in Nat
    BY <1>0, <1>1, <1>2, NextEventLeast, AnnouncedLogged DEF Announcing, IsNext
  <1>4. ticks'[t].pc = "dispatch"
    <2>0. ticks \in [Slots -> Ticks]
      BY DEF IndexerTypeOK
    <2>1. Done(t) \in [Slots -> Ticks]
      BY <2>0 DEF Done, Ticks
    <2>2. ticks' = [Done(t) EXCEPT ![t].pc = "dispatch"]
      BY DEF AnnounceEvent
    <2> QED BY <2>1, <2>2 DEF Ticks
  <1>5. \A u \in Slots \ {t} : ticks'[u] = ticks[u]
    BY TickLeaves DEF TickStep
  <1>6. \A u \in Slots : ticks'[u].pc = "announce" => u # t /\ ~(IsNext(u, n)')
    <2> SUFFICES ASSUME NEW u \in Slots, ticks'[u].pc = "announce", IsNext(u, n)'
                 PROVE  FALSE
      BY <1>4
    <2>1. u # t /\ Announcing(u, n)
      BY <1>4, <1>5 DEF Announcing, IsNext
    <2> QED BY <1>3, <2>1 DEF OneTeller
  <1>7. ~(n \notin logged' \/ \E u \in Slots : ticks'[u].pc = "announce" /\ IsNext(u, n)')
    BY <1>1, <1>3, <1>6
  <1>8. Untold(n)
    BY <1>3 DEF Untold
  <1> QED BY <1>0, <1>3, <1>7, <1>8 DEF Untold, Announcing

(* A step of the call for an event that queues no delivery. *)
SameRows ==
  /\ DOMAIN delivery' = DOMAIN delivery
  /\ \A d \in DOMAIN delivery :
       delivery'[d].event = delivery[d].event /\ delivery'[d].to = delivery[d].to

Calm(f) ==
  \/ queueing'[f] = queueing[f]
  \/ /\ queueing'[f].at # "find" /\ queueing'[f].left \subseteq queueing[f].left
     /\ queueing[f].at # "none" \/ queueing'[f].at = "none"
  \/ queueing[f].at = "find" /\ queueing'[f].at # "find"

LEMMA CalmSteps ==
  ASSUME WebhookTypeOK, CallsOnce, OneDelivery, SameRows, \A f \in Events : Calm(f)
  PROVE  CallsOnce' /\ OneDelivery' /\ \A f \in Events : Quiet(f) => Quiet(f)'
  <1>1. OneDelivery'
    BY DEF OneDelivery, SameRows
  <1>2. ASSUME NEW d \in DOMAIN delivery'
        PROVE  /\ queueing'[delivery'[d].event].at # "find"
               /\ delivery'[d].to \notin queueing'[delivery'[d].event].left
    <2> DEFINE e == delivery[d].event
    <2>1. d \in DOMAIN delivery /\ delivery'[d].event = e /\ delivery'[d].to = delivery[d].to
      BY DEF SameRows
    <2>2. e \in Events
      <3>1. delivery[d] \in Deliveries
        BY <2>1 DEF WebhookTypeOK
      <3> QED BY <3>1 DEF Deliveries
    <2>3. queueing[e].at # "find" /\ delivery[d].to \notin queueing[e].left
      BY <2>1 DEF CallsOnce
    <2> HIDE DEF e
    <2>4. queueing'[e].at # "find" /\ delivery[d].to \notin queueing'[e].left
      BY <2>2, <2>3 DEF Calm
    <2> QED BY <2>1, <2>4
  <1>3. ASSUME NEW f \in Events, Quiet(f)
        PROVE  Quiet(f)'
    <2>1. queueing'[f].at = "none"
      BY <1>3 DEF Quiet, Calm
    <2>2. \A d \in DOMAIN delivery' : delivery'[d].event # f
      BY <1>3 DEF Quiet, SameRows
    <2> QED BY <2>1, <2>2 DEF Quiet
  <1> QED BY <1>1, <1>2, <1>3 DEF CallsOnce

(* The webhooks' own steps queue a subscription once. *)
LEMMA WebhooksOnce ==
  ASSUME WebhookInv, CallsOnce, OneDelivery, WebhookNext \/ LoseCalls \/ UNCHANGED webhookVars
  PROVE  CallsOnce' /\ OneDelivery' /\ \A f \in Events : Quiet(f) => Quiet(f)'
  <1>0. /\ WebhookTypeOK /\ CallInv /\ queueing \in [Events -> Calls]
        /\ delivery \in Seq(Deliveries) /\ \A d \in DOMAIN delivery : delivery[d] \in Deliveries
    BY DEF WebhookInv, WebhookTypeOK
  <1> DEFINE Goal == CallsOnce' /\ OneDelivery' /\ \A f \in Events : Quiet(f) => Quiet(f)'
  <1>1. SameRows /\ (\A f \in Events : Calm(f)) => Goal
    BY <1>0, CalmSteps
  <1> HIDE DEF Goal
  <1>2. ASSUME NEW s \in Subscribers, CreateSubscription(s)
        PROVE  Goal
    BY <1>1, <1>2 DEF CreateSubscription, SameRows, Calm
  <1>3. ASSUME NEW s \in Subscribers, DeleteSubscription(s)
        PROVE  Goal
    <2>1. ASSUME NEW d \in DOMAIN delivery
          PROVE  delivery'[d].event = delivery[d].event /\ delivery'[d].to = delivery[d].to
      <3>1. delivery[d] \in Deliveries
        BY <1>0
      <3>2. delivery'[d] = delivery[d] \/ delivery'[d] = [delivery[d] EXCEPT !.status = "deleted"]
        BY <1>0, <1>3, RowsDeleted
      <3> QED BY <3>1, <3>2 DEF Deliveries
    <2>2. DOMAIN delivery' = DOMAIN delivery /\ queueing' = queueing
      BY <1>0, <1>3, RowsDeleted
    <2> QED BY <1>1, <2>1, <2>2 DEF SameRows, Calm
  <1>4. ASSUME NEW e \in Events, FindSubscriptions(e)
        PROVE  Goal
    <2> DEFINE found == {s \in Subscribers : subscription[s] = "active" /\ e \in Wants[s]}
    <2>1. NextSubscription(e, found) /\ delivery' = delivery
          /\ found \in SUBSET Subscribers /\ queueing[e].at = "find"
      BY <1>4 DEF FindSubscriptions
    <2> HIDE DEF found
    <2>2. /\ queueing'[e].at \in {"none", "create"}
          /\ \A f \in Events \ {e} : queueing'[f] = queueing[f]
      BY <1>0, <2>1, LoopGoesOn
    <2> QED BY <1>1, <2>1, <2>2 DEF SameRows, Calm
  <1>5. ASSUME NEW e \in Events, CreateDelivery(e)
        PROVE  Goal
    <2>1. queueing[e].at = "create" /\ \A f \in Events \ {e} : queueing'[f] = queueing[f]
      BY <1>0, <1>5, RowCreated DEF CreateDelivery
    <2>2. CASE queueing'[e] = NoCall /\ delivery' = delivery
      <3>1. NoCall.at = "none" /\ NoCall.left = {}
        BY DEF NoCall
      <3> QED BY <1>1, <2>1, <2>2, <3>1 DEF SameRows, Calm
    <2>3. CASE ~(queueing'[e] = NoCall /\ delivery' = delivery)
      <3> DEFINE n == Len(delivery) + 1
      <3>1. PICK s \in queueing[e].left :
              /\ queueing'[e] = [at |-> "sign", left |-> queueing[e].left \ {s}, row |-> n]
              /\ DOMAIN delivery' = DOMAIN delivery \cup {n}
              /\ n \notin DOMAIN delivery
              /\ delivery'[n] = [event |-> e, to |-> s, status |-> "pending", job |-> "none",
                                 made |-> 0, posts |-> 0, received |-> 0]
              /\ \A d \in DOMAIN delivery : delivery'[d] = delivery[d]
        BY <1>0, <1>5, <2>3, RowCreated
      <3> HIDE DEF n
      <3>2. queueing'[e].at = "sign" /\ queueing'[e].left = queueing[e].left \ {s}
            /\ delivery'[n].event = e /\ delivery'[n].to = s
        BY <3>1
      <3>3. ASSUME NEW d \in DOMAIN delivery
            PROVE  /\ queueing'[delivery[d].event].at # "find"
                   /\ delivery[d].to \notin queueing'[delivery[d].event].left
                   /\ delivery[d].event = e => delivery[d].to # s
        <4>1. delivery[d].event \in Events
          BY <1>0 DEF Deliveries
        <4>2. queueing[delivery[d].event].at # "find"
              /\ delivery[d].to \notin queueing[delivery[d].event].left
          BY DEF CallsOnce
        <4> QED BY <2>1, <3>1, <3>2, <4>1, <4>2
      <3>4. CallsOnce'
        BY <3>1, <3>2, <3>3 DEF CallsOnce
      <3>5. OneDelivery'
        <4> SUFFICES ASSUME NEW c \in DOMAIN delivery', NEW d \in DOMAIN delivery',
                            delivery'[c].event = delivery'[d].event,
                            delivery'[c].to = delivery'[d].to
                     PROVE  c = d
          BY DEF OneDelivery
        <4>1. CASE c \in DOMAIN delivery /\ d \in DOMAIN delivery
          BY <3>1, <4>1 DEF OneDelivery
        <4>2. CASE c = n /\ d \in DOMAIN delivery
          BY <3>1, <3>2, <3>3, <4>2
        <4>3. CASE d = n /\ c \in DOMAIN delivery
          BY <3>1, <3>2, <3>3, <4>3
        <4> QED BY <3>1, <4>1, <4>2, <4>3
      <3>6. ASSUME NEW f \in Events, Quiet(f)
            PROVE  Quiet(f)'
        <4>1. f # e /\ queueing'[f] = queueing[f]
          BY <2>1, <3>6 DEF Quiet
        <4>2. \A d \in DOMAIN delivery' : delivery'[d].event # f
          BY <3>1, <3>2, <3>6, <4>1 DEF Quiet
        <4> QED BY <3>6, <4>1, <4>2 DEF Quiet
      <3> QED BY <3>4, <3>5, <3>6 DEF Goal
    <2> QED BY <2>2, <2>3
  <1>6. ASSUME NEW e \in Events, SignDelivery(e)
        PROVE  Goal
    <2> DEFINE call == IF delivery[queueing[e].row].status = "deleted" THEN NoCall
                       ELSE [queueing[e] EXCEPT !.at = "enqueue"]
    <2>1. /\ queueing[e].at = "sign" /\ queueing' = [queueing EXCEPT ![e] = call]
          /\ delivery' = delivery /\ queueing[e] \in Calls
      BY <1>0, <1>6 DEF SignDelivery
    <2>2. call.at # "find" /\ call.left \subseteq queueing[e].left
      BY <2>1 DEF Calls, NoCall
    <2> HIDE DEF call
    <2>3. queueing'[e] = call /\ \A f \in Events \ {e} : queueing'[f] = queueing[f]
      BY <1>0, <2>1
    <2> QED BY <1>1, <2>1, <2>2, <2>3 DEF SameRows, Calm
  <1>7. ASSUME NEW e \in Events, EnqueueDelivery(e)
        PROVE  Goal
    <2> DEFINE row == queueing[e].row
               r == [delivery[row] EXCEPT !.job = "waiting"]
    <2>1. /\ row \in DOMAIN delivery /\ r \in Deliveries
          /\ delivery' = [delivery EXCEPT ![row] = r] /\ queueing[e].at = "enqueue"
          /\ NextSubscription(e, queueing[e].left) /\ queueing[e].left \in SUBSET Subscribers
      BY <1>0, <1>7, RowQueued DEF EnqueueDelivery
    <2>2. r.event = delivery[row].event /\ r.to = delivery[row].to
      BY <1>0, <2>1 DEF Deliveries
    <2> HIDE DEF r, row
    <2>3. SameRows
      BY <1>0, <2>1, <2>2, RowReplaced DEF SameRows
    <2>4. /\ queueing'[e].at \in {"none", "create"} /\ queueing'[e].left \subseteq queueing[e].left
          /\ \A f \in Events \ {e} : queueing'[f] = queueing[f]
      BY <1>0, <2>1, LoopGoesOn
    <2> QED BY <1>1, <2>1, <2>3, <2>4 DEF Calm
  <1>8. ASSUME NEW d \in DOMAIN delivery, WorkerStep(d) \/ FailUpdate(d) \/ StallJob(d)
        PROVE  Goal
    <2>1. queueing' = queueing
      BY <1>0, <1>8, JobSteps
    <2>2. PICK r : Steps(d, r)
      BY <1>0, <1>8, JobSteps
    <2>3. SameRows
      BY <1>0, <2>2, RowReplaced DEF Steps, SameRows
    <2> QED BY <1>1, <2>1, <2>3 DEF Calm
  <1>9. ASSUME LoseCalls
        PROVE  Goal
    <2>1. SameRows
      BY <1>9 DEF LoseCalls, SameRows
    <2>2. NoCall.at = "none" /\ NoCall.left = {}
      BY DEF NoCall
    <2>3. \A f \in Events : queueing'[f] = NoCall
      BY <1>9 DEF LoseCalls
    <2>4. \A f \in Events : Calm(f)
      BY <2>2, <2>3 DEF Calm
    <2> QED BY <1>1, <2>1, <2>4
  <1>10. ASSUME UNCHANGED webhookVars
         PROVE  Goal
    <2>1. delivery' = delivery /\ queueing' = queueing
      BY <1>10 DEF webhookVars
    <2>2. SameRows /\ \A f \in Events : Calm(f)
      BY <2>1 DEF SameRows, Calm
    <2> QED BY <1>1, <2>2
  <1>11. Goal
    BY <1>2, <1>3, <1>4, <1>5, <1>6, <1>7, <1>8, <1>9, <1>10 DEF WebhookNext, QueueingStep
  <1> QED BY <1>11 DEF Goal

(* Queueing starts for an event that has no call and no delivery. *)
LEMMA BeginsOnce ==
  ASSUME WebhookInv, CallsOnce, OneDelivery, NEW e, e \in Events => Quiet(e), BeginQueueing(e)
  PROVE  CallsOnce' /\ OneDelivery' /\ \A f \in Events \ {e} : Quiet(f) => Quiet(f)'
  <1>1. /\ queueing \in [Events -> Calls]
        /\ \A d \in DOMAIN delivery : delivery[d] \in Deliveries
    BY DEF WebhookInv, WebhookTypeOK
  <1>2. delivery' = delivery /\ \A f \in Events \ {e} : queueing'[f] = queueing[f]
    BY <1>1 DEF BeginQueueing
  <1>3. \A d \in DOMAIN delivery : delivery[d].event \in Events \ {e}
    BY <1>1 DEF Deliveries, Quiet
  <1> QED BY <1>2, <1>3 DEF CallsOnce, OneDelivery, Quiet

OnceInv == CallsOnce /\ OneDelivery /\ \A e \in Events : Untold(e) => Quiet(e)

LEMMA OnceKept ==
  IndexerTypeOK /\ AnnouncesLogged /\ OneTeller /\ WebhookInv /\ OnceInv /\ [Next]_vars => OnceInv'
  <1> SUFFICES ASSUME IndexerTypeOK, AnnouncesLogged, OneTeller, WebhookInv, OnceInv, [Next]_vars
               PROVE  OnceInv'
    OBVIOUS
  <1>1. \A e : Untold(e)' => Untold(e)
    BY StepsOfIndexer, UntoldShrinks
  <1>2. CASE WebhookNext \/ LoseCalls \/ UNCHANGED webhookVars
    BY <1>1, <1>2, WebhooksOnce DEF OnceInv
  <1>3. ASSUME NEW t \in Slots, Announce(t)
        PROVE  OnceInv'
    <2>1. PICK n \in Nat : n = NextEvent(t) /\ Untold(n) /\ ~Untold(n)'
      BY <1>3, Told DEF Announce
    <2>2. BeginQueueing(n)
      BY <1>3, <2>1 DEF Announce
    <2>3. CallsOnce' /\ OneDelivery' /\ \A f \in Events \ {n} : Quiet(f) => Quiet(f)'
      BY <2>1, <2>2, BeginsOnce DEF OnceInv
    <2> QED BY <1>1, <2>1, <2>3 DEF OnceInv
  <1>4. ASSUME ~(WebhookNext \/ LoseCalls \/ UNCHANGED webhookVars)
        PROVE  \E t \in Slots : Announce(t)
    BY <1>4 DEF Next, IndexerStep, Crash, WebhookStep, vars
  <1> QED BY <1>2, <1>3, <1>4

(* An event that two ticks fetched, or that a restart replays, is queued once  *)
(* for a subscription (services/webhookService.js), for the unique row in      *)
(* contract_events lets one tick alone announce it.                            *)
THEOREM DeliveredOnce == Spec => []OneDelivery
  <1> DEFINE Inv == /\ IndexerTypeOK /\ TodoEmitted /\ AnnouncesLogged
                    /\ OneTeller /\ WebhookInv /\ OnceInv
  <1>1. Init => Inv
    <2> SUFFICES ASSUME Init PROVE Inv
      OBVIOUS
    <2>1. /\ \A t \in Slots : \A e : ~Announcing(t, e)
          /\ \A e \in Events : queueing[e].at = "none"
          /\ DOMAIN delivery = {}
      BY DEF Init, IndexerInit, WebhookInit, NoTick, NoCall, Announcing
    <2> QED BY <2>1, IndexerStarts, WebhooksStart DEF OneTeller, OnceInv, CallsOnce, OneDelivery,
          Quiet
  <1>2. Inv /\ [Next]_vars => Inv'
    BY StepsOfIndexer, IndexerTypes, AnnouncesKept, UntoldShrinks, StepsOfWebhooks, WebhookKept,
       OnceKept
  <1>3. Inv => OneDelivery
    BY DEF OnceInv
  <1> HIDE DEF Inv
  <1> QED BY <1>1, <1>2, <1>3, PTL DEF Spec
==============================================================================
