------------------------------ MODULE Reputation ------------------------------
(***************************************************************************)
(* The reputation records that follow the events of one escrow:            *)
(* services/escrowIndexer.js, whose handlers run statement by statement    *)
(* without a transaction and are tried three times from the start, and     *)
(* services/reputationService.js with its recalculation, which an          *)
(* administrator starts beside it.                                         *)
(***************************************************************************)
EXTENDS EscrowRows, Sequences, FiniteSetsExt

CONSTANTS
  client, freelancer,  \* the parties of the escrow
  Script,     \* the events the contract emits, in chain order
  Slots,      \* polls that can be in flight together
  MaxLedger,  \* bound: the last ledger that closes
  MaxGap,     \* ledgers that may close between a poll's two questions
  PageLimit,  \* events the node returns in one answer
  MaxRetries, \* MAX_RETRIES
  MaxRepolls, \* bound: polls that find nothing new
  MaxRecalcs, \* bound: recalculations
  MaxFaults   \* bound: calls that fail, and crashes

Parties == {client, freelancer}
Indexes == 1 .. Len(Script)

ASSUME ReputationAssumption ==
  /\ client # freelancer
  /\ Script \in Seq([type : STRING, milestone : Milestones, amount : Nat, clientWon : BOOLEAN])
  /\ MaxRetries \in Nat \ {0}
  /\ {MaxLedger, MaxGap, PageLimit, MaxRepolls, MaxRecalcs, MaxFaults} \subseteq Nat

VARIABLES
  chain,    \* its latest ledger and the ledger of each event so far
  rows,     \* escrows, milestones, disputes
  record,   \* reputation_records
  history,  \* reputation_events: one row for an address and a kind
  indexer,  \* the process: is it up, its cursor, and indexer_state's cursor
  polls,    \* the polls in flight
  recalc,   \* the recalculation under way
  settled,  \* the events handled to the end, given up, and cut short and not begun again
  count     \* bounded occurrences so far

vars == <<chain, rows, record, history, indexer, polls, recalc, settled, count>>

Kinds == {"ESCROW_COMPLETED", "DISPUTE_WON", "DISPUTE_LOST"}
NoRecord == [score |-> 0, completed |-> -1, won |-> -1]
NewRecord == [score |-> 0, completed |-> 0, won |-> 0]
Records == {NoRecord} \cup [score : Int, completed : Nat, won : Nat]
HasRecord(a) == record[a] # NoRecord

-------------------------------------------------------------------------------
(* The statements of the handlers, in order.  *)
Statement(op, who, kind) == [op |-> op, who |-> who, kind |-> kind]
RowStatement == Statement("rows", client, "ESCROW_COMPLETED")
Floor(who) == Statement("floor", who, "DISPUTE_LOST")
Statements == [op : {"history", "count", "floor", "rows", "score"}, who : Parties, kind : Kinds]

(* mutant: the record is updated before the history *)
RecordOutcomeFirst(who, kind) ==
  <<Statement("count", who, kind), Statement("history", who, kind)>>
RecordOutcome(who, kind) == <<Statement("history", who, kind), Statement("count", who, kind)>>

HandleFundsReleased(found) ==
  (IF found THEN RecordOutcome(client, "ESCROW_COMPLETED")
                 \o RecordOutcome(freelancer, "ESCROW_COMPLETED")
            ELSE <<>>) \o <<RowStatement>>

Winner(e) == IF e.clientWon THEN client ELSE freelancer
Loser(e) == IF e.clientWon THEN freelancer ELSE client
HandleDisputeResolved(e, found) ==
  IF found THEN RecordOutcome(Winner(e), "DISPUTE_WON")
                \o RecordOutcome(Loser(e), "DISPUTE_LOST") \o <<RowStatement>>
           ELSE <<>>

HandleReputationUpdated == <<Statement("score", client, "ESCROW_COMPLETED")>>

Program(e, found) ==
  CASE e.type = "funds_rel" -> HandleFundsReleased(found)
    [] e.type = "dis_res"   -> HandleDisputeResolved(e, found)
    [] e.type = "rep_upd"   -> HandleReputationUpdated
    [] OTHER                -> <<RowStatement>>

(* What the handlers write to the other tables; a topic without handler       *)
(* writes nothing.                                                            *)
(* mutant: the contract's name of the status, which the enum does not have *)
RowsAfterResolved(r, e) ==
  IF e.type = "dis_res" THEN SetStatus(r, "Resolved") ELSE r
RowsAfter(r, e) ==
  CASE e.type = "esc_crt"   -> InsertEscrow(r, e.amount)
    [] e.type = "mil_add"   -> InsertMilestone(r, e.milestone)
    [] e.type = "mil_sub"   -> SetMilestone(r, e.milestone, "Submitted")
    [] e.type = "mil_apr"   -> SetMilestone(r, e.milestone, "Approved")
    [] e.type = "funds_rel" -> SubtractReleased(r, e.amount)
    [] e.type = "esc_can"   -> SetStatus(r, "Cancelled")
    [] e.type = "dis_rai"   -> OpenDispute(SetStatus(r, "Disputed"))
    [] e.type = "dis_res"   -> SetStatus(r, "Completed")
    [] OTHER                -> r

ScoreDelta(who, kind) ==
  CASE kind = "ESCROW_COMPLETED" -> IF who = freelancer THEN 10 ELSE 5
    [] kind = "DISPUTE_WON"      -> 15
    [] kind = "DISPUTE_LOST"     -> -5

Counted(rec, who, kind) ==
  [score     |-> rec.score + ScoreDelta(who, kind),
   completed |-> rec.completed + IF kind = "ESCROW_COMPLETED" THEN 1 ELSE 0,
   won       |-> rec.won + IF kind = "DISPUTE_WON" THEN 1 ELSE 0]

-------------------------------------------------------------------------------
Emitted == {i \in Indexes : i <= Len(chain.ledgerOf)}

NoPoll == [pc |-> "idle", from |-> 0, seen |-> 0, latest |-> 0, todo |-> {}, tries |-> 0,
           plan |-> <<>>]
Polls == [pc     : {"idle", "fetch", "latest", "next", "run", "save"},
          from   : Nat,
          seen   : Nat,   \* the latest ledger when the events were read: bounds CloseLedger
          latest : Nat,
          todo   : SUBSET Indexes,
          tries  : 0 .. MaxRetries,
          plan   : Seq(Statements)]

At(t, pc) == indexer.up /\ polls[t].pc = pc
Current(t) == Min(polls[t].todo)
InHand(t) == polls[t].pc = "run" \/ (polls[t].pc = "next" /\ polls[t].tries > 0)
Occurs(what, bound) == count[what] < bound /\ count' = [count EXCEPT ![what] = @ + 1]
FaultBudget == count.failures + count.crashes < MaxFaults

(* Ledgers close with some of the events.  *)
CloseLedger ==
  /\ chain.latest < MaxLedger
  /\ \A t \in Slots : polls[t].pc = "latest" => chain.latest < polls[t].seen + MaxGap
  /\ \E n \in 0 .. (Len(Script) - Len(chain.ledgerOf)) :
       chain' = [latest   |-> chain.latest + 1,
                 ledgerOf |-> chain.ledgerOf \o [k \in 1 .. n |-> chain.latest + 1]]
  /\ UNCHANGED <<rows, record, history, indexer, polls, recalc, settled, count>>

(* One page of the contract's events from a ledger on, in their order.  *)
EventsFrom(ledger) ==
  LET found == {i \in Emitted : chain.ledgerOf[i] >= ledger}
  IN  {i \in found : Cardinality({j \in found : j < i}) < PageLimit}

StartPoll(t) ==
  /\ At(t, "idle")
  /\ IF \/ chain.latest > indexer.ledger
        \/ ~(EventsFrom(indexer.ledger) \subseteq settled.handled \cup settled.givenUp)
     THEN UNCHANGED count ELSE Occurs("repolls", MaxRepolls)
  /\ polls' = [polls EXCEPT ![t] = [NoPoll EXCEPT !.pc = "fetch", !.from = indexer.ledger]]
  /\ UNCHANGED <<chain, rows, record, history, indexer, recalc, settled>>

GetContractEvents(t) ==
  /\ At(t, "fetch")
  /\ polls' = [polls EXCEPT ![t] = [@ EXCEPT !.pc = "latest", !.from = 0, !.seen = chain.latest,
                 !.todo = EventsFrom(polls[t].from)]]
  /\ UNCHANGED <<chain, rows, record, history, indexer, recalc, settled, count>>

GetLatestLedger(t) ==
  /\ At(t, "latest")
  /\ polls' = [polls EXCEPT ![t] = [@ EXCEPT !.pc = "next", !.seen = 0, !.latest = chain.latest]]
  /\ UNCHANGED <<chain, rows, record, history, indexer, recalc, settled, count>>

(* dispatchEvent, up to the query for the escrow.  *)
DispatchEvent(t) ==
  /\ At(t, "next") /\ polls[t].todo # {}
  /\ polls' = [polls EXCEPT ![t] = [@ EXCEPT !.pc = "run",
                 !.plan = Program(Script[Current(t)], rows.status # "none")]]
  /\ settled' = [settled EXCEPT !.cut = @ \ {Current(t)}]
  /\ UNCHANGED <<chain, rows, record, history, indexer, recalc, count>>

(* A row of reputation_events refers to the address's record, and an update   *)
(* needs the row it updates.                                                  *)
Accepted(st) == st.op \in {"history", "count", "floor"} => HasRecord(st.who)

Pop(t, more) == [polls EXCEPT ![t].plan = more \o Tail(@)]

(* mutant: an event that is in the history is not counted again *)
UpsertHistoryOnce(t) ==
  LET st == Head(polls[t].plan)
      known == <<st.who, st.kind>> \in history
  IN
  /\ st.op = "history"
  /\ history' = history \cup {<<st.who, st.kind>>}
  /\ polls' = IF known THEN [polls EXCEPT ![t].plan = Tail(Tail(@))] ELSE Pop(t, <<>>)
  /\ UNCHANGED <<rows, record>>
UpsertHistory(t) ==
  LET st == Head(polls[t].plan) IN
  /\ st.op = "history"
  /\ history' = history \cup {<<st.who, st.kind>>}
  /\ polls' = Pop(t, <<>>)
  /\ UNCHANGED <<rows, record>>

(* The updated row comes back: a score below zero after a loss is put to zero *)
(* by a second update.                                                        *)
CountOutcome(t) ==
  LET st == Head(polls[t].plan)
      updated == Counted(record[st.who], st.who, st.kind)
  IN
  /\ st.op = "count"
  /\ record' = [record EXCEPT ![st.who] = updated]
  /\ polls' = Pop(t, IF st.kind # "ESCROW_COMPLETED" /\ updated.score < 0
                     THEN <<Floor(st.who)>> ELSE <<>>)
  /\ UNCHANGED <<rows, history>>

FloorScore(t) ==
  LET st == Head(polls[t].plan) IN
  /\ st.op = "floor"
  /\ record' = [record EXCEPT ![st.who].score = 0]
  /\ polls' = Pop(t, <<>>)
  /\ UNCHANGED <<rows, history>>

WriteScore(t) ==
  LET st == Head(polls[t].plan)
      kept == IF HasRecord(st.who) THEN record[st.who] ELSE NewRecord
  IN
  /\ st.op = "score"
  /\ record' = [record EXCEPT ![st.who] = [kept EXCEPT !.score = Script[Current(t)].amount]]
  /\ polls' = Pop(t, <<>>)
  /\ UNCHANGED <<rows, history>>

WriteRows(t) ==
  /\ Head(polls[t].plan).op = "rows"
  /\ rows' = RowsAfter(rows, Script[Current(t)])
  /\ polls' = Pop(t, <<>>)
  /\ UNCHANGED <<record, history>>

RunStatement(t) ==
  /\ At(t, "run") /\ polls[t].plan # <<>>
  /\ Accepted(Head(polls[t].plan))
  /\ \/ UpsertHistory(t) \/ CountOutcome(t) \/ FloorScore(t) \/ WriteScore(t) \/ WriteRows(t)
  /\ UNCHANGED <<chain, indexer, recalc, settled, count>>

NextEvent(t) == [polls EXCEPT ![t] = [@ EXCEPT !.pc = "next", !.tries = 0, !.plan = <<>>,
                                               !.todo = polls[t].todo \ {Current(t)}]]
FinishEvent(t) ==
  /\ At(t, "run") /\ polls[t].plan = <<>>
  /\ polls' = NextEvent(t)
  /\ settled' = [settled EXCEPT !.handled = @ \cup {Current(t)}]
  /\ UNCHANGED <<chain, rows, record, history, indexer, recalc, count>>

(* A statement fails or is refused: the handler starts again from its first   *)
(* one, and the third time the event goes to the dead letter queue, whose own *)
(* errors are only logged.                                                    *)
Failing(t) ==
  /\ At(t, "run") /\ polls[t].plan # <<>>
  /\ IF Accepted(Head(polls[t].plan))
     THEN FaultBudget /\ Occurs("failures", MaxFaults)
     ELSE UNCHANGED count

RetryEvent(t) ==
  /\ Failing(t)
  /\ polls[t].tries + 1 < MaxRetries
  /\ polls' = [polls EXCEPT ![t] = [@ EXCEPT !.pc = "next", !.tries = polls[t].tries + 1,
                                             !.plan = <<>>]]
  /\ UNCHANGED <<chain, rows, record, history, indexer, recalc, settled>>

(* mutant: the event stays in the batch until it succeeds *)
GiveUpNever(t) ==
  /\ Failing(t)
  /\ polls[t].tries + 1 = MaxRetries
  /\ polls' = [polls EXCEPT ![t] = [@ EXCEPT !.pc = "next", !.plan = <<>>]]
  /\ UNCHANGED <<chain, rows, record, history, indexer, recalc, settled>>
GiveUp(t) ==
  /\ Failing(t)
  /\ polls[t].tries + 1 = MaxRetries
  /\ polls' = NextEvent(t)
  /\ settled' = [settled EXCEPT !.givenUp = @ \cup {Current(t)}, !.cut = @ \cup {Current(t)}]
  /\ UNCHANGED <<chain, rows, record, history, indexer, recalc>>

AdvanceCursor(t) ==
  /\ At(t, "next") /\ polls[t].todo = {}
  /\ IF polls[t].latest > indexer.ledger
     THEN /\ indexer' = [indexer EXCEPT !.ledger = polls[t].latest]
          /\ polls' = [polls EXCEPT ![t].pc = "save"]
     ELSE UNCHANGED indexer /\ polls' = [polls EXCEPT ![t] = NoPoll]
  /\ UNCHANGED <<chain, rows, record, history, recalc, settled, count>>

PersistCursor(t) ==
  /\ At(t, "save")
  /\ indexer' = [indexer EXCEPT !.cursor = polls[t].latest]
  /\ polls' = [polls EXCEPT ![t] = NoPoll]
  /\ UNCHANGED <<chain, rows, record, history, recalc, settled, count>>

(* A question to the node or the update of the cursor fails, and with it the  *)
(* poll.                                                                      *)
FailPoll(t) ==
  /\ \E pc \in {"fetch", "latest", "save"} : At(t, pc)
  /\ FaultBudget /\ Occurs("failures", MaxFaults)
  /\ polls' = [polls EXCEPT ![t] = NoPoll]
  /\ UNCHANGED <<chain, rows, record, history, indexer, recalc, settled>>

CrashIndexer ==
  /\ indexer.up
  /\ FaultBudget /\ Occurs("crashes", MaxFaults)
  /\ indexer' = [indexer EXCEPT !.up = FALSE]
  /\ polls' = [t \in Slots |-> NoPoll]
  /\ settled' = [settled EXCEPT !.cut = @ \cup {Current(t) : t \in {u \in Slots : InHand(u)}}]
  /\ UNCHANGED <<chain, rows, record, history, recalc>>

StartIndexer ==
  /\ ~indexer.up
  /\ indexer' = [indexer EXCEPT !.up = TRUE, !.ledger = indexer.cursor]
  /\ UNCHANGED <<chain, rows, record, history, polls, recalc, settled, count>>

-------------------------------------------------------------------------------
(* recalculateFromEventHistory, address by address: the rows are read, and    *)
(* the record is written in a later step.                                     *)
NoRecalc == [todo |-> {}, who |-> client, pc |-> "idle", seen |-> {}]
Recalcs == [todo : SUBSET Parties, who : Parties, pc : {"idle", "read", "write"},
            seen : SUBSET Kinds]

KindsOf(a) == {k \in Kinds : <<a, k>> \in history}

BeginRecalc ==
  /\ recalc.pc = "idle"
  /\ Occurs("recalcs", MaxRecalcs)
  /\ recalc' = [NoRecalc EXCEPT !.pc = "read", !.todo = {a \in Parties : KindsOf(a) # {}}]
  /\ UNCHANGED <<chain, rows, record, history, indexer, polls, settled>>

ReadHistory ==
  /\ recalc.pc = "read"
  /\ IF recalc.todo = {} THEN recalc' = NoRecalc
     ELSE \E a \in recalc.todo :
            recalc' = [todo |-> recalc.todo \ {a}, who |-> a, pc |-> "write", seen |-> KindsOf(a)]
  /\ UNCHANGED <<chain, rows, record, history, indexer, polls, settled, count>>

Recomputed(a, kinds) ==
  LET Worth(k) == IF k \in kinds THEN ScoreDelta(a, k) ELSE 0
      total == Worth("ESCROW_COMPLETED") + Worth("DISPUTE_WON") + Worth("DISPUTE_LOST")
  IN
  [score     |-> IF total > 0 THEN total ELSE 0,
   completed |-> IF "ESCROW_COMPLETED" \in kinds THEN 1 ELSE 0,
   won       |-> IF "DISPUTE_WON" \in kinds THEN 1 ELSE 0]

WriteRecord ==
  /\ recalc.pc = "write"
  /\ record' = [record EXCEPT ![recalc.who] = Recomputed(recalc.who, recalc.seen)]
  /\ recalc' = [recalc EXCEPT !.pc = "read", !.seen = {}]
  /\ UNCHANGED <<chain, rows, history, indexer, polls, settled, count>>

-------------------------------------------------------------------------------
(* The parties may have a record from earlier escrows or none.  *)
Init ==
  /\ chain = [latest |-> 0, ledgerOf |-> <<>>]
  /\ rows = [EmptyRows EXCEPT !.status = "Active", !.balance = 10]
  /\ \E known \in SUBSET Parties :
       record = [a \in Parties |-> IF a \in known THEN NewRecord ELSE NoRecord]
  /\ history = {}
  /\ indexer = [up |-> TRUE, ledger |-> 0, cursor |-> 0]
  /\ polls = [t \in Slots |-> NoPoll]
  /\ recalc = NoRecalc
  /\ settled = [handled |-> {}, givenUp |-> {}, cut |-> {}]
  /\ count = [failures |-> 0, crashes |-> 0, repolls |-> 0, recalcs |-> 0]

PollStep(t) ==
  \/ GetContractEvents(t) \/ GetLatestLedger(t) \/ DispatchEvent(t) \/ RunStatement(t)
  \/ FinishEvent(t) \/ RetryEvent(t) \/ GiveUp(t) \/ AdvanceCursor(t) \/ PersistCursor(t)
  \/ FailPoll(t)

Next ==
  \/ CloseLedger \/ CrashIndexer \/ StartIndexer
  \/ \E t \in Slots : StartPoll(t) \/ PollStep(t)
  \/ BeginRecalc \/ ReadHistory \/ WriteRecord

Spec == Init /\ [][Next]_vars

(* setInterval starts polls, a poll under way goes on, and a stopped process  *)
(* is started again.                                                          *)
FairSpec ==
  /\ Spec
  /\ WF_vars(StartIndexer)
  /\ \A t \in Slots : WF_vars(StartPoll(t)) /\ WF_vars(PollStep(t))

-------------------------------------------------------------------------------
TypeOK ==
  /\ chain.latest \in 0 .. MaxLedger /\ chain.ledgerOf \in Seq(1 .. MaxLedger)
  /\ rows \in Rows
  /\ record \in [Parties -> Records]
  /\ history \subseteq Parties \X Kinds
  /\ indexer \in [up : BOOLEAN, ledger : Nat, cursor : Nat]
  /\ polls \in [Slots -> Polls]
  /\ recalc \in Recalcs
  /\ settled \in [{"handled", "givenUp", "cut"} -> SUBSET Indexes]
  /\ count \in [{"failures", "crashes", "repolls", "recalcs"} -> Nat]

(* What a record counts is in the history: an attempt that fails halfway, a   *)
(* replay or a recalculation between never leaves a count without its row.    *)
CountsBacked ==
  \A a \in Parties :
    /\ record[a].completed > 0 => <<a, "ESCROW_COMPLETED">> \in history
    /\ record[a].won > 0 => <<a, "DISPUTE_WON">> \in history

(* An attempt that fails between the history's row and the count does not     *)
(* lose the count: the next attempt counts although the row is there.         *)
NoneForgotten ==
  count.recalcs = 0 =>
    \A i \in settled.handled, a \in Parties :
      /\ Script[i].type = "funds_rel" => record[a].completed > 0
      /\ Script[i].type = "dis_res" => record[Winner(Script[i])].won > 0

(* "Floor at 0": a score is below zero only while the loss of a dispute is     *)
(* being counted, or when a count was cut short by a crash or given up.       *)
FloorHeld ==
  \A a \in Parties : record[a].score < 0 =>
    \E i \in Emitted :
      /\ Script[i].type = "dis_res" /\ a = Loser(Script[i])
      /\ i \in settled.cut \/ \E t \in Slots : InHand(t) /\ i = Current(t)

(* A party's record is honest in both ways, at every point of a retry.  *)
RecordHonest == CountsBacked /\ FloorHeld

(* "without blocking": an event that a poll has read is handled or given up,  *)
(* whatever keeps failing in it or before it.  The exception: the poll was    *)
(* cut short, and a later one moved the cursor past the event unread.         *)
NothingBlocks ==
  \A i \in Indexes : \A t \in Slots :
    i \in polls[t].todo ~>
      \/ i \in settled.handled \cup settled.givenUp
      \/ /\ count.failures + count.crashes > 0
         /\ i \in Emitted /\ chain.ledgerOf[i] < indexer.cursor

(* "Upsert reputation event (idempotent on address, eventType, escrowId)"     *)
(* (services/reputationService.js:70).                                        *)
CountedOnce == \A a \in Parties : record[a].completed <= 1
===============================================================================
