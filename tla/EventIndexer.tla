----------------------------- MODULE EventIndexer -----------------------------
(***************************************************************************)
(* The indexer the API server starts: services/eventIndexer.js.  A timer   *)
(* starts a tick every few seconds, whether or not the last one is over; a *)
(* tick asks the node for the contract's events from the ledger in memory  *)
(* on, then for its latest ledger, applies the events one transaction at a *)
(* time, and moves the ledger in memory and the stored cursor to the       *)
(* latest ledger.                                                          *)
(*                                                                         *)
(* One escrow; the payload of an event is what its handler writes.         *)
(***************************************************************************)
EXTENDS EscrowRows, Sequences, FiniteSets

CONSTANTS
  Script,      \* the events the contract emits, in chain order: a sequence
  Slots,       \* ticks that can be in flight together
  MaxLedger,   \* bound: the last ledger that closes
  MaxPerLedger,\* bound: events in one ledger
  MaxGap,      \* ledgers that may close between a tick's two questions
  PageLimit,   \* events the node returns in one answer
  MaxCrashes,  \* bound: restarts of the server
  MaxFailures  \* bound: transactions the database refuses

Indexes == 1 .. Len(Script)

ASSUME ScriptAssumption ==
  /\ Script \in Seq([type : STRING, milestone : Milestones, amount : Nat])
  /\ Slots # {}
ASSUME IndexerBounds ==
  {MaxLedger, MaxPerLedger, MaxGap, PageLimit, MaxCrashes, MaxFailures} \subseteq Nat

VARIABLES
  chain,     \* the chain: its latest ledger and the ledger of each event so far
  rows,      \* escrows, milestones, disputes, reputation_records
  logged,    \* contract_events: the indexes of the recorded events
  cursor,    \* indexer_state.lastProcessedLedger
  server,    \* the process: is it up, lastProcessedLedger, has the timer started
  ticks,     \* the ticks in flight
  faults     \* restarts and refused transactions so far

indexerVars == <<chain, rows, logged, cursor, server, ticks, faults>>

-------------------------------------------------------------------------------
(* What each handler writes.  An insert that finds its row, an update that     *)
(* finds none, change nothing.                                                *)

(* mutant: the contract's name of the status, which the enum does not have *)
HandleEscrowCreatedOpen(r, e) == [r EXCEPT !.status = "Open", !.balance = e.amount]
HandleEscrowCreated(r, e) == InsertEscrow(r, e.amount)
HandleMilestoneAdded(r, e) == InsertMilestone(r, e.milestone)
HandleMilestoneSubmitted(r, e) == SetMilestone(r, e.milestone, "Submitted")
HandleMilestoneApproved(r, e) == SetMilestone(r, e.milestone, "Approved")
HandleMilestoneRejected(r, e) == SetMilestone(r, e.milestone, "Rejected")
HandleMilestoneDisputed(r, e) == SetMilestone(r, e.milestone, "Rejected")
HandleFundsReleased(r, e) == SubtractReleased(r, e.amount)
HandleEscrowCancelled(r, e) == SetStatus(r, "Cancelled")
HandleDisputeRaised(r, e) == OpenDispute(SetStatus(r, "Disputed"))
HandleDisputeResolved(r, e) == CloseDispute(SetStatus(r, "Completed"))
HandleReputationUpdated(r, e) == [r EXCEPT !.score = e.amount]

HandledTypes == {"esc_crt", "mil_add", "mil_sub", "mil_apr", "mil_rej", "mil_dis",
                 "funds_rel", "esc_can", "dis_rai", "dis_res", "rep_upd"}
Handled(i) == Script[i].type \in HandledTypes

Applied(r, e) ==
  CASE e.type = "esc_crt"   -> HandleEscrowCreated(r, e)
    [] e.type = "mil_add"   -> HandleMilestoneAdded(r, e)
    [] e.type = "mil_sub"   -> HandleMilestoneSubmitted(r, e)
    [] e.type = "mil_apr"   -> HandleMilestoneApproved(r, e)
    [] e.type = "mil_rej"   -> HandleMilestoneRejected(r, e)
    [] e.type = "mil_dis"   -> HandleMilestoneDisputed(r, e)
    [] e.type = "funds_rel" -> HandleFundsReleased(r, e)
    [] e.type = "esc_can"   -> HandleEscrowCancelled(r, e)
    [] e.type = "dis_rai"   -> HandleDisputeRaised(r, e)
    [] e.type = "dis_res"   -> HandleDisputeResolved(r, e)
    [] e.type = "rep_upd"   -> HandleReputationUpdated(r, e)
    [] OTHER                -> r

(* Milestones and disputes refer to the escrow's row: without it the insert   *)
(* breaks a foreign key and the whole transaction fails.                      *)
ForeignKeyHolds(r, e) == e.type \in {"mil_add", "dis_rai"} => r.status # "none"

-------------------------------------------------------------------------------
(* The chain and the node that answers for it.  *)

Emitted == {i \in Indexes : i <= Len(chain.ledgerOf)}

(* The node lists the events from a ledger on, oldest first, one page at most.  *)
EventsFrom(ledger) ==
  LET found == {i \in Emitted : chain.ledgerOf[i] >= ledger}
  IN  {i \in found : Cardinality({j \in found : j < i}) < PageLimit}

(* A ledger closes with the next few events of the contract.  *)
CloseLedger ==
  /\ chain.latest < MaxLedger
  /\ \A t \in Slots : ticks[t].pc = "latest" => chain.latest < ticks[t].seen + MaxGap
  /\ \E n \in 0 .. MaxPerLedger :
       /\ Len(chain.ledgerOf) + n <= Len(Script)
       /\ chain' = [latest   |-> chain.latest + 1,
                    ledgerOf |-> chain.ledgerOf \o [k \in 1 .. n |-> chain.latest + 1]]
  /\ UNCHANGED <<rows, logged, cursor, server, ticks, faults>>

-------------------------------------------------------------------------------
(* One tick.  seen, which the code does not have, is the latest ledger when   *)
(* the events were read: it bounds CloseLedger.                               *)

NoTick == [pc |-> "idle", from |-> 0, todo |-> {}, seen |-> 0, latest |-> 0]
Ticks == [pc     : {"idle", "fetch", "latest", "dispatch", "announce", "save"},
          from   : Nat,
          todo   : SUBSET Indexes,
          seen   : Nat,
          latest : Nat]

Running(t, pc) == server.up /\ ticks[t].pc = pc
EndTick(t) == /\ ticks' = [ticks EXCEPT ![t] = NoTick]
              /\ server' = [server EXCEPT !.timer = TRUE]

(* The first tick runs alone; the timer starts when it is over.  *)
StartTick(t) ==
  /\ Running(t, "idle")
  /\ server.timer \/ \A u \in Slots : ticks[u].pc = "idle"
  /\ ticks' = [ticks EXCEPT ![t] = [@ EXCEPT !.pc = "fetch", !.from = server.ledger]]
  /\ UNCHANGED <<chain, rows, logged, cursor, server, faults>>

GetContractEvents(t) ==
  /\ Running(t, "fetch")
  /\ ticks' = [ticks EXCEPT ![t] = [@ EXCEPT !.pc = "latest", !.from = 0,
                    !.seen = chain.latest, !.todo = EventsFrom(ticks[t].from)]]
  /\ UNCHANGED <<chain, rows, logged, cursor, server, faults>>

GetLatestLedger(t) ==
  /\ Running(t, "latest")
  /\ ticks' = [ticks EXCEPT ![t] = [@ EXCEPT !.pc = "dispatch", !.seen = 0,
                    !.latest = chain.latest]]
  /\ UNCHANGED <<chain, rows, logged, cursor, server, faults>>

NextEvent(t) == CHOOSE i \in ticks[t].todo : \A j \in ticks[t].todo : i <= j
Done(t) == [ticks EXCEPT ![t].todo = @ \ {NextEvent(t)}]

(* contract_events has one row per transaction hash and event index.  *)
(* mutant: the table has no unique constraint *)
AlreadyIndexedNever(i) == FALSE
AlreadyIndexed(i) == i \in logged

(* An event of a type without handler, or one that breaks the unique          *)
(* constraint of contract_events, is passed over.                             *)
PassEvent(t) ==
  /\ Running(t, "dispatch") /\ ticks[t].todo # {}
  /\ ~Handled(NextEvent(t)) \/ AlreadyIndexed(NextEvent(t))
  /\ ticks' = Done(t)
  /\ UNCHANGED <<chain, rows, logged, cursor, server, faults>>

(* The handler's transaction: the event's row and what the event changes.  *)
CommitEvent(t) ==
  LET i == NextEvent(t) IN
  /\ Running(t, "dispatch") /\ ticks[t].todo # {}
  /\ Handled(i) /\ ~AlreadyIndexed(i) /\ ForeignKeyHolds(rows, Script[i])
  /\ rows' = Applied(rows, Script[i])
  /\ logged' = logged \cup {i}
  /\ ticks' = [ticks EXCEPT ![t].pc = "announce"]
  /\ UNCHANGED <<chain, cursor, server, faults>>

(* After the transaction the handler starts to queue the webhooks, without    *)
(* waiting for them, and goes on with the next event.                         *)
AnnounceEvent(t) ==
  /\ Running(t, "announce")
  /\ ticks' = [Done(t) EXCEPT ![t].pc = "dispatch"]
  /\ UNCHANGED <<chain, rows, logged, cursor, server, faults>>

(* A question to the node, a transaction or the update of the cursor fails,   *)
(* or a transaction breaks a foreign key: the error ends the tick.            *)
FailTick(t) ==
  /\ \/ \E pc \in {"fetch", "latest", "save"} : Running(t, pc)
     \/ Running(t, "dispatch") /\ ticks[t].todo # {} /\ Handled(NextEvent(t))
  /\ IF /\ ticks[t].pc = "dispatch"
        /\ ~ForeignKeyHolds(rows, Script[NextEvent(t)])
     THEN UNCHANGED faults
     ELSE /\ faults.failures < MaxFailures
          /\ faults' = [faults EXCEPT !.failures = @ + 1]
  /\ EndTick(t)
  /\ UNCHANGED <<chain, rows, logged, cursor>>

(* mutant: the next tick starts after the latest ledger *)
AdvanceLedgerPast(t) ==
  /\ Running(t, "dispatch") /\ ticks[t].todo = {}
  /\ IF ticks[t].latest > server.ledger
     THEN /\ server' = [server EXCEPT !.ledger = ticks[t].latest + 1]
          /\ ticks' = [ticks EXCEPT ![t] = [@ EXCEPT !.pc = "save", !.latest = @ + 1]]
     ELSE EndTick(t)
  /\ UNCHANGED <<chain, rows, logged, cursor, faults>>
(* All events handled: the ledger in memory moves first, its update follows.  *)
AdvanceLedger(t) ==
  /\ Running(t, "dispatch") /\ ticks[t].todo = {}
  /\ IF ticks[t].latest > server.ledger
     THEN /\ server' = [server EXCEPT !.ledger = ticks[t].latest]
          /\ ticks' = [ticks EXCEPT ![t].pc = "save"]
     ELSE EndTick(t)
  /\ UNCHANGED <<chain, rows, logged, cursor, faults>>

SaveCursor(t) ==
  /\ Running(t, "save")
  /\ cursor' = ticks[t].latest
  /\ EndTick(t)
  /\ UNCHANGED <<chain, rows, logged, faults>>

-------------------------------------------------------------------------------
(* The process stops at any point and loses its ticks; a new one starts from  *)
(* the stored cursor.                                                         *)
CrashIndexer ==
  /\ server.up /\ faults.crashes < MaxCrashes
  /\ faults' = [faults EXCEPT !.crashes = @ + 1]
  /\ server' = [server EXCEPT !.up = FALSE, !.timer = FALSE]
  /\ ticks' = [t \in Slots |-> NoTick]
  /\ UNCHANGED <<chain, rows, logged, cursor>>

StartIndexer ==
  /\ ~server.up
  /\ server' = [up |-> TRUE, ledger |-> cursor, timer |-> FALSE]
  /\ UNCHANGED <<chain, rows, logged, cursor, ticks, faults>>

IndexerInit ==
  /\ chain = [latest |-> 0, ledgerOf |-> <<>>]
  /\ rows = EmptyRows
  /\ logged = {}
  /\ cursor = 0
  /\ server = [up |-> FALSE, ledger |-> 0, timer |-> FALSE]
  /\ ticks = [t \in Slots |-> NoTick]
  /\ faults = [crashes |-> 0, failures |-> 0]

TickStep(t) ==
  \/ GetContractEvents(t) \/ GetLatestLedger(t)
  \/ PassEvent(t) \/ CommitEvent(t) \/ AnnounceEvent(t) \/ FailTick(t)
  \/ AdvanceLedger(t) \/ SaveCursor(t)

IndexerNext ==
  \/ CloseLedger \/ CrashIndexer \/ StartIndexer
  \/ \E t \in Slots : StartTick(t) \/ TickStep(t)

IndexerSpec == IndexerInit /\ [][IndexerNext]_indexerVars

-------------------------------------------------------------------------------
IndexerTypeOK ==
  /\ chain.latest \in Nat /\ chain.ledgerOf \in Seq(Nat)
  /\ Len(chain.ledgerOf) <= Len(Script)
  /\ rows \in Rows
  /\ logged \subseteq Emitted
  /\ cursor \in Nat
  /\ server \in [up : BOOLEAN, ledger : Nat, timer : BOOLEAN]
  /\ ticks \in [Slots -> Ticks]
  /\ faults \in [crashes : 0 .. MaxCrashes, failures : 0 .. MaxFailures]

(* The rows after the first k events of the chain, each applied once.  *)
Replay[k \in 0 .. Len(Script)] ==
  IF k = 0 THEN EmptyRows ELSE Applied(Replay[k - 1], Script[k])

(* Whatever ticks overlap, fail or are replayed after a crash, the database   *)
(* is the chain at some earlier point: the recorded events are a prefix of    *)
(* the chain's, and the rows are what that prefix makes of them, each event   *)
(* applied once and in order.                                                 *)
MirrorsPrefix ==
  \E k \in 0 .. Len(chain.ledgerOf) :
    /\ logged = {i \in 1 .. k : Handled(i)}
    /\ rows = Replay[k]

(* "Fetches and processes all new events since lastProcessedLedger": no event *)
(* behind the cursor is missing, for the indexer never looks there again.     *)
NothingSkipped ==
  \A i \in Emitted : Handled(i) /\ chain.ledgerOf[i] < cursor => i \in logged

(* Every event the chain emits reaches the database.  *)
EventuallyIndexed ==
  \A i \in Indexes : i \in Emitted /\ Handled(i) ~> i \in logged
===============================================================================
