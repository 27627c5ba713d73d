--------------------------- MODULE ReputationProofs ---------------------------
(***************************************************************************)
(* Proofs about Reputation, for any number of polls at a time: its types,  *)
(* RecordHonest and NoneForgotten.                                         *)
(***************************************************************************)
EXTENDS Reputation, SumProofs

Events == [type : STRING, milestone : Milestones, amount : Nat, clientWon : BOOLEAN]

(***************************************************************************)
(* The statements of a handler.                                            *)
(***************************************************************************)

(* A count follows its row of the history, unless the row is there already.  *)
RowFirst(plan, written) ==
  \A j \in DOMAIN plan : plan[j].op = "count" =>
    \/ <<plan[j].who, plan[j].kind>> \in written
    \/ \E i \in 1 .. j - 1 : plan[i] = Statement("history", plan[j].who, plan[j].kind)

(* Only the loser of the event's dispute is to lose.  *)
LossesOf(plan, e) ==
  \A j \in DOMAIN plan : plan[j].op = "count" /\ plan[j].kind = "DISPUTE_LOST" =>
    e.type = "dis_res" /\ plan[j].who = Loser(e)

(* The rest of the plan puts a negative score of a back to zero.  *)
Mends(plan, a) ==
  \E j \in DOMAIN plan :
    /\ plan[j].who = a
    /\ plan[j].op = "floor" \/ (plan[j].op = "count" /\ plan[j].kind = "DISPUTE_LOST")

Counts(plan, a, kind) == \E j \in DOMAIN plan : plan[j] = Statement("count", a, kind)

LEMMA Joined ==
  ASSUME NEW p \in Seq(Statements), NEW q \in Seq(Statements)
  PROVE  /\ p \o q \in Seq(Statements)
         /\ Len(p \o q) = Len(p) + Len(q)
         /\ \A i \in 1 .. Len(p) + Len(q) : (p \o q)[i] = IF i <= Len(p) THEN p[i] ELSE q[i - Len(p)]
  OBVIOUS

LEMMA OutcomeShape ==
  ASSUME NEW a \in Parties, NEW b \in Parties, NEW k \in Kinds, NEW l \in Kinds
  PROVE  LET plan == RecordOutcome(a, k) \o RecordOutcome(b, l) \o <<RowStatement>>
         IN  /\ plan \in Seq(Statements) /\ Len(plan) = 5
             /\ plan[1] = Statement("history", a, k) /\ plan[2] = Statement("count", a, k)
             /\ plan[3] = Statement("history", b, l) /\ plan[4] = Statement("count", b, l)
             /\ plan[5] = RowStatement
  <1> DEFINE p == RecordOutcome(a, k)
             q == RecordOutcome(b, l)
             r == <<RowStatement>>
  <1>1. /\ p \in Seq(Statements) /\ Len(p) = 2
        /\ p[1] = Statement("history", a, k) /\ p[2] = Statement("count", a, k)
    BY DEF RecordOutcome, Statement, Statements
  <1>2. /\ q \in Seq(Statements) /\ Len(q) = 2
        /\ q[1] = Statement("history", b, l) /\ q[2] = Statement("count", b, l)
    BY DEF RecordOutcome, Statement, Statements
  <1>3. r \in Seq(Statements) /\ Len(r) = 1 /\ r[1] = RowStatement
    BY DEF RowStatement, Statement, Statements, Kinds, Parties
  <1> HIDE DEF p, q, r
  <1>4. /\ p \o q \in Seq(Statements) /\ Len(p \o q) = Len(p) + Len(q)
        /\ \A i \in 1 .. Len(p) + Len(q) : (p \o q)[i] = IF i <= Len(p) THEN p[i] ELSE q[i - Len(p)]
    BY <1>1, <1>2, Joined
  <1> DEFINE both == p \o q
  <1> HIDE DEF both
  <1>5. both \in Seq(Statements) /\ Len(both) = 4
        /\ both[1] = p[1] /\ both[2] = p[2] /\ both[3] = q[1] /\ both[4] = q[2]
    BY <1>1, <1>2, <1>4 DEF both
  <1>6. /\ both \o r \in Seq(Statements) /\ Len(both \o r) = Len(both) + Len(r)
        /\ \A i \in 1 .. Len(both) + Len(r) :
             (both \o r)[i] = IF i <= Len(both) THEN both[i] ELSE r[i - Len(both)]
    BY <1>3, <1>5, Joined
  <1> DEFINE all == both \o r
  <1> HIDE DEF all
  <1>7. all \in Seq(Statements) /\ Len(all) = 5 /\ all[5] = r[1]
        /\ all[1] = both[1] /\ all[2] = both[2] /\ all[3] = both[3] /\ all[4] = both[4]
    BY <1>3, <1>5, <1>6 DEF all
  <1> QED BY <1>1, <1>2, <1>3, <1>5, <1>7 DEF p, q, r, both, all

(* What the proofs need of a handler's list of statements.  *)
LEMMA ProgramShape ==
  ASSUME NEW e \in Events
  PROVE  LET plan == Program(e, TRUE)
         IN  /\ plan \in Seq(Statements)
             /\ RowFirst(plan, history) /\ LossesOf(plan, e)
             /\ e.type = "dis_res" => Mends(plan, Loser(e)) /\ Counts(plan, Winner(e), "DISPUTE_WON")
             /\ e.type = "funds_rel" => \A a \in Parties : Counts(plan, a, "ESCROW_COMPLETED")
  <1> DEFINE plan == Program(e, TRUE)
  <1>0. e.clientWon \in BOOLEAN /\ Winner(e) \in Parties /\ Loser(e) \in Parties
    BY DEF Events, Winner, Loser, Parties
  <1>1. CASE e.type = "funds_rel"
    <2>1. plan = RecordOutcome(client, "ESCROW_COMPLETED")
                   \o RecordOutcome(freelancer, "ESCROW_COMPLETED") \o <<RowStatement>>
      BY <1>1 DEF Program, HandleFundsReleased
    <2> HIDE DEF plan
    <2>2. /\ plan \in Seq(Statements) /\ Len(plan) = 5
          /\ plan[1] = Statement("history", client, "ESCROW_COMPLETED")
          /\ plan[2] = Statement("count", client, "ESCROW_COMPLETED")
          /\ plan[3] = Statement("history", freelancer, "ESCROW_COMPLETED")
          /\ plan[4] = Statement("count", freelancer, "ESCROW_COMPLETED")
          /\ plan[5] = RowStatement
      BY <2>1, OutcomeShape DEF Parties, Kinds
    <2>3. DOMAIN plan = {1, 2, 3, 4, 5}
      BY <2>2
    <2>4. RowFirst(plan, history)
      BY <2>2, <2>3 DEF RowFirst, Statement, RowStatement
    <2>5. LossesOf(plan, e)
      BY <2>2, <2>3 DEF LossesOf, Statement, RowStatement
    <2>6. \A a \in Parties : Counts(plan, a, "ESCROW_COMPLETED")
      BY <2>2, <2>3 DEF Counts, Parties
    <2> QED BY <1>1, <2>2, <2>4, <2>5, <2>6 DEF plan
  <1>2. CASE e.type = "dis_res"
    <2>1. plan = RecordOutcome(Winner(e), "DISPUTE_WON")
                   \o RecordOutcome(Loser(e), "DISPUTE_LOST") \o <<RowStatement>>
      BY <1>2 DEF Program, HandleDisputeResolved
    <2> HIDE DEF plan
    <2>2. /\ plan \in Seq(Statements) /\ Len(plan) = 5
          /\ plan[1] = Statement("history", Winner(e), "DISPUTE_WON")
          /\ plan[2] = Statement("count", Winner(e), "DISPUTE_WON")
          /\ plan[3] = Statement("history", Loser(e), "DISPUTE_LOST")
          /\ plan[4] = Statement("count", Loser(e), "DISPUTE_LOST")
          /\ plan[5] = RowStatement
      BY <1>0, <2>1, OutcomeShape DEF Kinds
    <2>3. DOMAIN plan = {1, 2, 3, 4, 5}
      BY <2>2
    <2>4. RowFirst(plan, history)
      BY <2>2, <2>3 DEF RowFirst, Statement, RowStatement
    <2>5. LossesOf(plan, e)
      BY <1>2, <2>2, <2>3 DEF LossesOf, Statement, RowStatement
    <2>6. Mends(plan, Loser(e)) /\ Counts(plan, Winner(e), "DISPUTE_WON")
      BY <2>2, <2>3 DEF Mends, Counts, Statement
    <2> QED BY <1>2, <2>2, <2>4, <2>5, <2>6 DEF plan
  <1>3. CASE e.type \notin {"funds_rel", "dis_res"}
    <2>1. PICK s : plan = <<s>> /\ s \in {RowStatement, Statement("score", client, "ESCROW_COMPLETED")}
      BY <1>3 DEF Program, HandleReputationUpdated
    <2> HIDE DEF plan
    <2>2. plan \in Seq(Statements) /\ DOMAIN plan = {1} /\ plan[1] = s /\ s.op # "count"
      BY <2>1 DEF RowStatement, Statement, Statements, Parties, Kinds
    <2>3. RowFirst(plan, history) /\ LossesOf(plan, e)
      BY <2>2 DEF RowFirst, LossesOf
    <2> QED BY <1>3, <2>2, <2>3 DEF plan
  <1> QED BY <1>1, <1>2, <1>3

(* What is left of a plan after its first statement, with or without a floor  *)
(* put in its place.                                                          *)
LEMMA Popped ==
  ASSUME NEW p \in Seq(Statements), p # <<>>, NEW s \in Statements
  PROVE  /\ Head(p) = p[1] /\ Head(p) \in Statements /\ Len(p) \in Nat /\ 1 <= Len(p)
         /\ <<>> \o Tail(p) \in Seq(Statements)
         /\ DOMAIN (<<>> \o Tail(p)) = 1 .. Len(p) - 1
         /\ \A j \in 1 .. Len(p) - 1 : (<<>> \o Tail(p))[j] = p[j + 1]
         /\ <<s>> \o Tail(p) \in Seq(Statements)
         /\ DOMAIN (<<s>> \o Tail(p)) = 1 .. Len(p)
         /\ \A j \in 1 .. Len(p) : (<<s>> \o Tail(p))[j] = IF j = 1 THEN s ELSE p[j]
  <1>1. /\ Head(p) = p[1] /\ Head(p) \in Statements /\ Len(p) \in Nat /\ 1 <= Len(p)
        /\ Tail(p) \in Seq(Statements) /\ Len(Tail(p)) = Len(p) - 1
        /\ \A j \in 1 .. Len(p) - 1 : Tail(p)[j] = p[j + 1]
    OBVIOUS
  <1>2. <<>> \o Tail(p) = Tail(p)
    BY <1>1
  <1>3. <<s>> \in Seq(Statements) /\ Len(<<s>>) = 1 /\ <<s>>[1] = s
    OBVIOUS
  <1> DEFINE one == <<s>>
             rest == Tail(p)
  <1> HIDE DEF one, rest
  <1>4. /\ one \o rest \in Seq(Statements) /\ Len(one \o rest) = Len(p)
        /\ \A j \in 1 .. Len(p) : (one \o rest)[j] = IF j = 1 THEN s ELSE rest[j - 1]
    BY <1>1, <1>3 DEF one, rest
  <1>5. \A j \in 1 .. Len(p) : j # 1 => rest[j - 1] = p[j]
    <2> SUFFICES ASSUME NEW j \in 1 .. Len(p), j # 1 PROVE rest[j - 1] = p[j]
      OBVIOUS
    <2>1. j - 1 \in 1 .. Len(p) - 1 /\ (j - 1) + 1 = j
      BY <1>1
    <2> QED BY <1>1, <2>1 DEF rest
  <1>6. DOMAIN (one \o rest) = 1 .. Len(p)
    BY <1>4
  <1> QED BY <1>1, <1>2, <1>4, <1>5, <1>6 DEF one, rest

-------------------------------------------------------------------------------
(***************************************************************************)
(* Types, and what a poll in flight has left to do.                        *)
(***************************************************************************)
PollFits(t) ==
  /\ InHand(t) => polls[t].todo # {}
  /\ polls[t].todo \subseteq Emitted
  /\ polls[t].pc \notin {"next", "run"} => polls[t].tries = 0

Base ==
  /\ TypeOK
  /\ \A t \in Slots : PollFits(t)
  /\ rows.status # "none"

LEMMA ScriptTypes ==
  /\ Len(Script) \in Nat /\ Indexes \subseteq Nat
  /\ \A i \in Indexes : i \in 1 .. Len(Script) /\ Script[i] \in Events
  <1>1. Script \in Seq(Events)
    BY ReputationAssumption DEF Events
  <1> QED BY <1>1 DEF Indexes

LEMMA CurrentIsLeft ==
  ASSUME TypeOK, NEW t \in Slots, polls[t].todo # {}
  PROVE  Current(t) \in polls[t].todo /\ Current(t) \in Indexes
  <1>1. polls[t].todo \in SUBSET Indexes
    BY DEF TypeOK, Polls
  <1>2. \E x \in polls[t].todo : \A y \in polls[t].todo : x <= y
    BY <1>1, ScriptTypes, Least
  <1> QED BY <1>1, <1>2 DEF Current, Min

LEMMA InHandEmitted ==
  ASSUME Base, NEW t \in Slots, InHand(t)
  PROVE  /\ Current(t) \in polls[t].todo /\ Current(t) \in Emitted
         /\ Current(t) \in Indexes /\ Script[Current(t)] \in Events
  BY CurrentIsLeft, ScriptTypes DEF Base, PollFits

LEMMA NoPollIsPoll == NoPoll \in Polls /\ NoPoll.todo = {} /\ NoPoll.tries = 0 /\ NoPoll.pc = "idle"
  BY ReputationAssumption DEF NoPoll, Polls

(* A step of one poll.  *)
LEMMA PollChanges ==
  ASSUME Base, NEW t \in Slots, NEW q \in Polls, polls' = [polls EXCEPT ![t] = q],
         Emitted \subseteq Emitted', q.todo \subseteq Emitted',
         q.pc = "run" \/ (q.pc = "next" /\ q.tries > 0) => q.todo # {},
         q.pc \notin {"next", "run"} => q.tries = 0
  PROVE  polls' \in [Slots -> Polls] /\ \A u \in Slots : PollFits(u)'
  <1>1. polls \in [Slots -> Polls]
    BY DEF Base, TypeOK
  <1>2. ASSUME NEW u \in Slots PROVE PollFits(u)'
    <2>1. CASE u = t
      <3>1. polls'[u] = q
        BY <1>1, <2>1
      <3> QED BY <3>1 DEF PollFits, InHand
    <2>2. CASE u # t
      <3>1. polls'[u] = polls[u]
        BY <1>1, <2>2
      <3> QED BY <3>1 DEF PollFits, InHand, Base
    <2> QED BY <2>1, <2>2
  <1> QED BY <1>1, <1>2

LEMMA FitsKept ==
  ASSUME Base, UNCHANGED polls, Emitted \subseteq Emitted'
  PROVE  \A t \in Slots : PollFits(t)'
  BY DEF Base, PollFits, InHand

LEMMA EmittedKept == UNCHANGED chain => Emitted' = Emitted
  BY DEF Emitted

LEMMA RowsTyped ==
  ASSUME NEW r \in Rows, NEW e \in Events
  PROVE  RowsAfter(r, e) \in Rows /\ (r.status # "none" => RowsAfter(r, e).status # "none")
  <1> USE DEF Rows, Events, EscrowStatuses, MilestoneStatuses, DisputeStatuses
  <1>1. CASE e.type = "esc_crt"
    <2>1. RowsAfter(r, e) =
            IF r.status = "none" THEN [r EXCEPT !.status = "Active", !.balance = e.amount] ELSE r
      BY <1>1 DEF RowsAfter, InsertEscrow
    <2>2. CASE r.status = "none"
      <3>1. RowsAfter(r, e) = [r EXCEPT !.status = "Active", !.balance = e.amount] /\ e.amount \in Int
        BY <2>1, <2>2
      <3> QED BY <2>2, <3>1
    <2> QED BY <2>1, <2>2
  <1>2. CASE e.type = "mil_add"
    BY <1>2 DEF RowsAfter, InsertMilestone
  <1>3. CASE e.type = "mil_sub"
    BY <1>3 DEF RowsAfter, SetMilestone
  <1>4. CASE e.type = "mil_apr"
    BY <1>4 DEF RowsAfter, SetMilestone
  <1>5. CASE e.type = "funds_rel"
    BY <1>5 DEF RowsAfter, SubtractReleased
  <1>6. CASE e.type = "esc_can"
    BY <1>6 DEF RowsAfter, SetStatus
  <1>7. CASE e.type = "dis_rai"
    BY <1>7 DEF RowsAfter, SetStatus, OpenDispute
  <1>8. CASE e.type = "dis_res"
    BY <1>8 DEF RowsAfter, SetStatus
  <1>9. CASE e.type \notin {"esc_crt", "mil_add", "mil_sub", "mil_apr", "funds_rel", "esc_can",
                            "dis_rai", "dis_res"}
    BY <1>9 DEF RowsAfter
  <1> QED BY <1>1, <1>2, <1>3, <1>4, <1>5, <1>6, <1>7, <1>8, <1>9

LEMMA CountedTyped ==
  ASSUME NEW rec \in [score : Int, completed : Nat, won : Nat], NEW a \in Parties, NEW k \in Kinds
  PROVE  /\ Counted(rec, a, k) \in [score : Int, completed : Nat, won : Nat]
         /\ Counted(rec, a, k).completed = rec.completed + (IF k = "ESCROW_COMPLETED" THEN 1 ELSE 0)
         /\ Counted(rec, a, k).won = rec.won + (IF k = "DISPUTE_WON" THEN 1 ELSE 0)
         /\ k # "DISPUTE_LOST" => Counted(rec, a, k).score > rec.score
  BY DEF Counted, ScoreDelta, Kinds

LEMMA RecomputedTyped ==
  ASSUME NEW a \in Parties, NEW kinds \in SUBSET Kinds
  PROVE  /\ Recomputed(a, kinds) \in [score : Nat, completed : {0, 1}, won : {0, 1}]
         /\ Recomputed(a, kinds).completed > 0 => "ESCROW_COMPLETED" \in kinds
         /\ Recomputed(a, kinds).won > 0 => "DISPUTE_WON" \in kinds
  <1> DEFINE Worth(k) == IF k \in kinds THEN ScoreDelta(a, k) ELSE 0
             total == Worth("ESCROW_COMPLETED") + Worth("DISPUTE_WON") + Worth("DISPUTE_LOST")
  <1>1. total \in Int
    BY DEF ScoreDelta
  <1> HIDE DEF total
  <1>2. Recomputed(a, kinds) =
          [score     |-> IF total > 0 THEN total ELSE 0,
           completed |-> IF "ESCROW_COMPLETED" \in kinds THEN 1 ELSE 0,
           won       |-> IF "DISPUTE_WON" \in kinds THEN 1 ELSE 0]
    BY DEF Recomputed, total
  <1> QED BY <1>1, <1>2

LEMMA HasRecordTyped ==
  ASSUME TypeOK, NEW a \in Parties
  PROVE  /\ record[a] \in Records
         /\ HasRecord(a) => record[a] \in [score : Int, completed : Nat, won : Nat]
         /\ ~HasRecord(a) => record[a].completed = -1 /\ record[a].won = -1 /\ record[a].score = 0
  BY DEF TypeOK, Records, HasRecord, NoRecord

-------------------------------------------------------------------------------
(***************************************************************************)
(* Each action keeps the types.                                            *)
(***************************************************************************)
LEMMA BaseInit == Init => Base
  <1> SUFFICES ASSUME Init PROVE Base
    OBVIOUS
  <1>1. rows \in Rows /\ rows.status # "none"
    <2>1. rows = [status |-> "Active", balance |-> 10, milestone |-> [m \in Milestones |-> "none"],
                  dispute |-> "none", score |-> 0]
      BY DEF Init, EmptyRows
    <2> QED BY <2>1 DEF Rows, EscrowStatuses, MilestoneStatuses, DisputeStatuses
  <1>2. record \in [Parties -> Records]
    BY DEF Init, Records, NoRecord, NewRecord
  <1>3. polls \in [Slots -> Polls] /\ \A t \in Slots : polls[t] = NoPoll
    BY NoPollIsPoll DEF Init
  <1>4. chain.latest \in 0 .. MaxLedger /\ chain.ledgerOf \in Seq(1 .. MaxLedger)
    BY ReputationAssumption DEF Init
  <1>5. recalc \in Recalcs
    BY DEF Init, NoRecalc, Recalcs, Parties
  <1>6. /\ indexer \in [up : BOOLEAN, ledger : Nat, cursor : Nat]
        /\ settled \in [{"handled", "givenUp", "cut"} -> SUBSET Indexes]
        /\ count \in [{"failures", "crashes", "repolls", "recalcs"} -> Nat]
        /\ history \subseteq Parties \X Kinds
    BY DEF Init
  <1>7. TypeOK
    BY <1>1, <1>2, <1>3, <1>4, <1>5, <1>6 DEF TypeOK
  <1>8. \A t \in Slots : PollFits(t)
    BY <1>3, NoPollIsPoll DEF PollFits, InHand
  <1> QED BY <1>1, <1>7, <1>8 DEF Base

LEMMA CountTyped ==
  ASSUME TypeOK, NEW what \in {"failures", "crashes", "repolls", "recalcs"}, NEW bound,
         Occurs(what, bound) \/ UNCHANGED count
  PROVE  /\ count' \in [{"failures", "crashes", "repolls", "recalcs"} -> Nat]
         /\ what # "recalcs" => count'.recalcs = count.recalcs
         /\ count'.recalcs >= count.recalcs
  <1>1. /\ count \in [{"failures", "crashes", "repolls", "recalcs"} -> Nat]
        /\ count[what] \in Nat /\ count.recalcs \in Nat
    BY DEF TypeOK
  <1>2. CASE UNCHANGED count
    BY <1>1, <1>2
  <1>3. CASE count' = [count EXCEPT ![what] = @ + 1]
    BY <1>1, <1>3
  <1> QED BY <1>2, <1>3 DEF Occurs

LEMMA LedgerGrows ==
  ASSUME Base, CloseLedger
  PROVE  /\ chain'.latest \in 0 .. MaxLedger /\ chain'.ledgerOf \in Seq(1 .. MaxLedger)
         /\ Len(chain.ledgerOf) <= Len(chain'.ledgerOf)
  <1>1. PICK n \in 0 .. (Len(Script) - Len(chain.ledgerOf)) :
          chain' = [latest   |-> chain.latest + 1,
                    ledgerOf |-> chain.ledgerOf \o [k \in 1 .. n |-> chain.latest + 1]]
    BY DEF CloseLedger
  <1> DEFINE old == chain.ledgerOf
             new == [k \in 1 .. n |-> chain.latest + 1]
  <1>2. chain.latest \in Nat /\ MaxLedger \in Nat /\ chain.latest < MaxLedger
    BY ReputationAssumption DEF CloseLedger, Base, TypeOK
  <1>3. chain.latest + 1 \in 1 .. MaxLedger
    BY <1>2
  <1>4. old \in Seq(1 .. MaxLedger) /\ Len(old) \in Nat
    BY DEF Base, TypeOK
  <1>5. n \in Nat
    BY <1>4, ScriptTypes
  <1>6. new \in Seq(1 .. MaxLedger) /\ Len(new) = n
    BY <1>3, <1>5
  <1>7. chain'.latest = chain.latest + 1 /\ chain'.ledgerOf = old \o new
    BY <1>1
  <1> HIDE DEF old, new
  <1>8. old \o new \in Seq(1 .. MaxLedger) /\ Len(old \o new) = Len(old) + n
    BY <1>4, <1>6
  <1>9. Len(old) <= Len(old \o new)
    BY <1>4, <1>5, <1>8
  <1> QED BY <1>2, <1>7, <1>8, <1>9 DEF old

LEMMA BaseCloseLedger == Base /\ CloseLedger => Base'
  <1> SUFFICES ASSUME Base, CloseLedger PROVE Base'
    OBVIOUS
  <1>1. Emitted \subseteq Emitted'
    <2> SUFFICES ASSUME NEW i \in Emitted PROVE i \in Emitted'
      OBVIOUS
    <2>1. i \in Indexes /\ i \in Nat /\ i <= Len(chain.ledgerOf)
      BY ScriptTypes DEF Emitted
    <2>2. Len(chain.ledgerOf) \in Nat /\ Len(chain'.ledgerOf) \in Nat
      BY LedgerGrows DEF Base, TypeOK
    <2>3. i <= Len(chain'.ledgerOf)
      BY <2>1, <2>2, LedgerGrows
    <2> QED BY <2>1, <2>3 DEF Emitted
  <1>2. \A t \in Slots : PollFits(t)'
    BY <1>1, FitsKept DEF CloseLedger
  <1>3. TypeOK'
    BY LedgerGrows DEF CloseLedger, Base, TypeOK
  <1> QED BY <1>2, <1>3 DEF CloseLedger, Base

(* A step of a poll that writes none of the tables.  *)
LEMMA BasePoll ==
  ASSUME Base, NEW t \in Slots, NEW q \in Polls, polls' = [polls EXCEPT ![t] = q],
         q.todo \subseteq Emitted,
         q.pc = "run" \/ (q.pc = "next" /\ q.tries > 0) => q.todo # {},
         q.pc \notin {"next", "run"} => q.tries = 0,
         UNCHANGED <<chain, rows, record, history, recalc>>,
         indexer' \in [up : BOOLEAN, ledger : Nat, cursor : Nat],
         settled' \in [{"handled", "givenUp", "cut"} -> SUBSET Indexes],
         count' \in [{"failures", "crashes", "repolls", "recalcs"} -> Nat]
  PROVE  Base'
  <1>1. Emitted' = Emitted
    BY EmittedKept
  <1>2. polls' \in [Slots -> Polls] /\ \A u \in Slots : PollFits(u)'
    BY <1>1, PollChanges
  <1> QED BY <1>2 DEF Base, TypeOK

LEMMA BaseStartPoll == ASSUME Base, NEW t \in Slots, StartPoll(t) PROVE Base'
  <1> DEFINE q == [NoPoll EXCEPT !.pc = "fetch", !.from = indexer.ledger]
  <1>1. q \in Polls /\ q.todo = {} /\ q.tries = 0 /\ q.pc = "fetch"
    <2>1. indexer.ledger \in Nat
      BY DEF Base, TypeOK
    <2> QED BY <2>1, NoPollIsPoll DEF NoPoll, Polls
  <1>2. count' \in [{"failures", "crashes", "repolls", "recalcs"} -> Nat]
    BY CountTyped DEF StartPoll, Base
  <1>3. polls' = [polls EXCEPT ![t] = q]
    BY DEF StartPoll
  <1> HIDE DEF q
  <1> QED BY <1>1, <1>2, <1>3, BasePoll DEF StartPoll, Base, TypeOK

LEMMA BaseAsk ==
  ASSUME Base, NEW t \in Slots, GetContractEvents(t) \/ GetLatestLedger(t)
  PROVE  Base'
  <1>0. polls[t] \in Polls /\ chain.latest \in Nat
    BY DEF Base, TypeOK
  <1>1. CASE GetContractEvents(t)
    <2> DEFINE all == EventsFrom(polls[t].from)
               q == [polls[t] EXCEPT !.pc = "latest", !.from = 0, !.seen = chain.latest, !.todo = all]
    <2>1. all \subseteq Emitted /\ all \in SUBSET Indexes
      BY DEF EventsFrom, Emitted
    <2>2. polls' = [polls EXCEPT ![t] = q]
      BY <1>1 DEF GetContractEvents
    <2>3. polls[t].pc = "fetch" /\ polls[t].tries = 0
      BY <1>1 DEF GetContractEvents, At, Base, PollFits
    <2> HIDE DEF all
    <2>4. q \in Polls /\ q.pc = "latest" /\ q.tries = 0 /\ q.todo = all
      BY <1>0, <2>1, <2>3 DEF Polls
    <2> HIDE DEF q
    <2> QED BY <1>1, <2>1, <2>2, <2>4, BasePoll DEF GetContractEvents, Base, TypeOK
  <1>2. CASE GetLatestLedger(t)
    <2> DEFINE q == [polls[t] EXCEPT !.pc = "next", !.seen = 0, !.latest = chain.latest]
    <2>1. polls' = [polls EXCEPT ![t] = q]
      BY <1>2 DEF GetLatestLedger
    <2>2. polls[t].pc = "latest" /\ polls[t].tries = 0 /\ polls[t].todo \subseteq Emitted
      BY <1>2 DEF GetLatestLedger, At, Base, PollFits
    <2>3. q \in Polls /\ q.pc = "next" /\ q.tries = 0 /\ q.todo = polls[t].todo
      BY <1>0, <2>2 DEF Polls
    <2> HIDE DEF q
    <2>4. /\ UNCHANGED <<chain, rows, record, history, recalc>>
          /\ indexer' \in [up : BOOLEAN, ledger : Nat, cursor : Nat]
          /\ settled' \in [{"handled", "givenUp", "cut"} -> SUBSET Indexes]
          /\ count' \in [{"failures", "crashes", "repolls", "recalcs"} -> Nat]
      BY <1>2 DEF GetLatestLedger, Base, TypeOK
    <2>5. ~(q.pc = "run" \/ (q.pc = "next" /\ q.tries > 0)) /\ q.pc \in {"next", "run"}
      BY <2>3
    <2> QED BY <2>1, <2>2, <2>3, <2>4, <2>5, BasePoll
  <1> QED BY <1>1, <1>2

LEMMA BaseDispatch == ASSUME Base, NEW t \in Slots, DispatchEvent(t) PROVE Base'
  <1> DEFINE e == Script[Current(t)]
             q == [polls[t] EXCEPT !.pc = "run", !.plan = Program(e, rows.status # "none")]
  <1>0. polls[t] \in Polls /\ polls[t].todo # {} /\ polls[t].todo \subseteq Emitted
    BY DEF Base, TypeOK, PollFits, DispatchEvent
  <1>1. Current(t) \in Indexes /\ e \in Events
    BY <1>0, CurrentIsLeft, ScriptTypes DEF Base
  <1>2. polls' = [polls EXCEPT ![t] = q]
    BY DEF DispatchEvent
  <1>3. Program(e, rows.status # "none") = Program(e, TRUE)
    BY DEF Base
  <1> HIDE DEF e
  <1>4. Program(e, rows.status # "none") \in Seq(Statements)
    BY <1>1, <1>3, ProgramShape
  <1>5. q \in Polls /\ q.pc = "run" /\ q.todo = polls[t].todo
    BY <1>0, <1>4 DEF Polls
  <1>6. settled' \in [{"handled", "givenUp", "cut"} -> SUBSET Indexes]
    BY DEF DispatchEvent, Base, TypeOK
  <1> HIDE DEF q
  <1> QED BY <1>0, <1>2, <1>5, <1>6, BasePoll DEF DispatchEvent, Base, TypeOK


(* The poll that runs a statement, and the rest of its plan.  *)
LEMMA AtStatement ==
  ASSUME Base, NEW t \in Slots, At(t, "run"), polls[t].plan # <<>>
  PROVE  /\ polls[t] \in Polls /\ polls[t].pc = "run" /\ polls[t].plan \in Seq(Statements)
         /\ polls[t].todo # {} /\ polls[t].todo \subseteq Emitted
         /\ Current(t) \in Emitted /\ Current(t) \in Indexes /\ Script[Current(t)] \in Events
         /\ Head(polls[t].plan) = polls[t].plan[1] /\ Head(polls[t].plan) \in Statements
  <1>1. polls[t] \in Polls /\ polls[t].pc = "run" /\ polls[t].plan \in Seq(Statements)
    BY DEF Base, TypeOK, Polls, At
  <1>2. InHand(t) /\ polls[t].todo # {} /\ polls[t].todo \subseteq Emitted
    BY <1>1 DEF InHand, Base, PollFits
  <1>3. Head(polls[t].plan) = polls[t].plan[1] /\ Head(polls[t].plan) \in Statements
    BY <1>1
  <1> QED BY <1>1, <1>2, <1>3, InHandEmitted

LEMMA FloorTyped == ASSUME NEW a \in Parties PROVE Floor(a) \in Statements
  BY DEF Floor, Statement, Statements, Kinds

LEMMA PopTyped ==
  ASSUME Base, NEW t \in Slots, At(t, "run"), polls[t].plan # <<>>,
         NEW more, more = <<>> \/ \E a \in Parties : more = <<Floor(a)>>,
         polls' = Pop(t, more), Emitted' = Emitted
  PROVE  /\ polls' = [polls EXCEPT ![t] = [polls[t] EXCEPT !.plan = more \o Tail(polls[t].plan)]]
         /\ polls' \in [Slots -> Polls] /\ \A u \in Slots : PollFits(u)'
  <1> DEFINE p == polls[t].plan
             rest == more \o Tail(p)
             q == [polls[t] EXCEPT !.plan = rest]
  <1>1. p \in Seq(Statements) /\ p # <<>>
    BY AtStatement
  <1>2. \E s \in Statements : more = <<>> \/ more = <<s>>
    BY FloorTyped, <1>1
  <1> HIDE DEF p
  <1>3. rest \in Seq(Statements)
    BY <1>1, <1>2, Popped
  <1>4. polls' = [polls EXCEPT ![t] = q]
    BY DEF Pop, Base, TypeOK, p
  <1> HIDE DEF rest
  <1>5. q \in Polls /\ q.pc = "run" /\ q.todo = polls[t].todo
    BY <1>3, AtStatement DEF Polls
  <1> HIDE DEF q
  <1>6. polls' \in [Slots -> Polls] /\ \A u \in Slots : PollFits(u)'
    BY <1>4, <1>5, AtStatement, PollChanges
  <1> QED BY <1>4, <1>6 DEF q, rest, p

LEMMA BaseRun == ASSUME Base, NEW t \in Slots, RunStatement(t) PROVE Base'
  <1> DEFINE st == Head(polls[t].plan)
  <1>1. At(t, "run") /\ polls[t].plan # <<>> /\ Accepted(st)
    BY DEF RunStatement
  <1>2. /\ st \in Statements /\ Current(t) \in Indexes /\ Script[Current(t)] \in Events
        /\ st.who \in Parties /\ st.kind \in Kinds
    BY <1>1, AtStatement DEF Statements
  <1>3. /\ UNCHANGED <<chain, indexer, recalc, settled, count>> /\ Emitted' = Emitted
        /\ record \in [Parties -> Records]
    BY EmittedKept DEF RunStatement, Base, TypeOK
  <1> DEFINE Done(more) ==
        /\ more = <<>> \/ \E a \in Parties : more = <<Floor(a)>>
        /\ polls' = Pop(t, more)
  <1>4. ASSUME NEW more, Done(more), rows' \in Rows, rows'.status # "none",
               record' \in [Parties -> Records], history' \subseteq Parties \X Kinds
        PROVE  Base'
    <2>1. polls' \in [Slots -> Polls] /\ \A u \in Slots : PollFits(u)'
      BY <1>1, <1>3, <1>4, PopTyped
    <2> QED BY <1>3, <1>4, <2>1 DEF Base, TypeOK
  <1>5. CASE UpsertHistory(t)
    <2>1. history' \subseteq Parties \X Kinds
      BY <1>2, <1>5 DEF UpsertHistory, Base, TypeOK
    <2>2. Done(<<>>) /\ UNCHANGED <<rows, record>>
      BY <1>5 DEF UpsertHistory
    <2> HIDE DEF Done
    <2> QED BY <1>4, <2>1, <2>2 DEF Base, TypeOK
  <1>6. CASE CountOutcome(t)
    <2> DEFINE updated == Counted(record[st.who], st.who, st.kind)
    <2>1. HasRecord(st.who)
      BY <1>1, <1>6 DEF CountOutcome, Accepted
    <2>2. updated \in Records
      BY <1>2, <2>1, HasRecordTyped, CountedTyped DEF Base, Records
    <2>3. record' = [record EXCEPT ![st.who] = updated] /\ UNCHANGED <<rows, history>>
      BY <1>6 DEF CountOutcome
    <2>4. \E more : Done(more)
      <3>1. polls' = Pop(t, IF st.kind # "ESCROW_COMPLETED" /\ updated.score < 0
                            THEN <<Floor(st.who)>> ELSE <<>>)
        BY <1>6 DEF CountOutcome
      <3> QED BY <1>2, <3>1
    <2> HIDE DEF updated, Done, st
    <2>5. record' \in [Parties -> Records]
      BY <1>2, <1>3, <2>2, <2>3
    <2> QED BY <1>4, <2>3, <2>4, <2>5 DEF Base, TypeOK
  <1>7. CASE FloorScore(t)
    <2>1. HasRecord(st.who)
      BY <1>1, <1>7 DEF FloorScore, Accepted
    <2>2. /\ record' = [record EXCEPT ![st.who] = [record[st.who] EXCEPT !.score = 0]]
          /\ UNCHANGED <<rows, history>> /\ Done(<<>>)
      BY <1>3, <1>7 DEF FloorScore
    <2>3. [record[st.who] EXCEPT !.score = 0] \in Records
      BY <1>2, <2>1, HasRecordTyped DEF Base, Records
    <2> HIDE DEF Done, st
    <2>4. record' \in [Parties -> Records]
      BY <1>2, <1>3, <2>2, <2>3
    <2> QED BY <1>4, <2>2, <2>4 DEF Base, TypeOK
  <1>8. CASE WriteScore(t)
    <2> DEFINE kept == IF HasRecord(st.who) THEN record[st.who] ELSE NewRecord
               new == [kept EXCEPT !.score = Script[Current(t)].amount]
    <2>1. record' = [record EXCEPT ![st.who] = new] /\ UNCHANGED <<rows, history>> /\ Done(<<>>)
      BY <1>8 DEF WriteScore
    <2>2. kept \in [score : Int, completed : Nat, won : Nat]
      BY <1>2, HasRecordTyped DEF Base, NewRecord
    <2>3. Script[Current(t)].amount \in Int
      BY <1>2 DEF Events
    <2>4. new \in Records
      BY <2>2, <2>3 DEF Records
    <2> HIDE DEF Done, st, kept, new
    <2>5. record' \in [Parties -> Records]
      BY <1>2, <1>3, <2>1, <2>4
    <2> QED BY <1>4, <2>1, <2>5 DEF Base, TypeOK
  <1>9. CASE WriteRows(t)
    <2>1. Done(<<>>) /\ UNCHANGED <<record, history>> /\ rows' = RowsAfter(rows, Script[Current(t)])
      BY <1>9 DEF WriteRows
    <2>2. rows' \in Rows /\ rows'.status # "none"
      BY <1>2, <2>1, RowsTyped DEF Base, TypeOK
    <2> HIDE DEF Done
    <2> QED BY <1>4, <2>1, <2>2 DEF Base, TypeOK
  <1> QED BY <1>5, <1>6, <1>7, <1>8, <1>9 DEF RunStatement

LEMMA BaseEnd ==
  ASSUME Base, NEW t \in Slots, FinishEvent(t) \/ RetryEvent(t) \/ GiveUp(t)
  PROVE  Base'
  <1>1. At(t, "run")
    BY DEF FinishEvent, RetryEvent, GiveUp, Failing
  <1>2. /\ polls[t] \in Polls /\ polls[t].todo # {} /\ polls[t].todo \subseteq Emitted
        /\ Current(t) \in Indexes
    BY <1>1, InHandEmitted DEF Base, TypeOK, PollFits, At, InHand
  <1>3. count' \in [{"failures", "crashes", "repolls", "recalcs"} -> Nat]
    BY CountTyped DEF FinishEvent, RetryEvent, GiveUp, Failing, Base
  <1>4. settled' \in [{"handled", "givenUp", "cut"} -> SUBSET Indexes]
    <2>1. settled \in [{"handled", "givenUp", "cut"} -> SUBSET Indexes]
      BY DEF Base, TypeOK
    <2>2. CASE FinishEvent(t)
      BY <1>2, <2>1, <2>2 DEF FinishEvent
    <2>3. CASE RetryEvent(t)
      BY <2>1, <2>3 DEF RetryEvent
    <2>4. CASE GiveUp(t)
      BY <1>2, <2>1, <2>4 DEF GiveUp
    <2> QED BY <2>2, <2>3, <2>4
  <1>5. <<>> \in Seq(Statements) /\ MaxRetries \in Nat /\ MaxRetries > 0
    BY ReputationAssumption
  <1>6. CASE FinishEvent(t) \/ GiveUp(t)
    <2> DEFINE left == polls[t].todo \ {Current(t)}
               q == [polls[t] EXCEPT !.pc = "next", !.tries = 0, !.plan = <<>>, !.todo = left]
    <2>1. polls' = [polls EXCEPT ![t] = q]
      BY <1>6 DEF FinishEvent, GiveUp, NextEvent
    <2>2. left \in SUBSET Indexes /\ left \subseteq Emitted
      BY <1>2 DEF Polls
    <2> HIDE DEF left
    <2>3. q \in Polls
      <3>1. 0 \in 0 .. MaxRetries
        BY <1>5
      <3> QED BY <1>2, <1>5, <2>2, <3>1 DEF Polls
    <2>a. q.pc = "next" /\ q.tries = 0 /\ q.todo \subseteq Emitted
      BY <1>2, <2>2 DEF Polls
    <2>4. ~(q.pc = "run" \/ (q.pc = "next" /\ q.tries > 0)) /\ q.pc \in {"next", "run"}
      BY <2>a
    <2> HIDE DEF q
    <2>5. /\ UNCHANGED <<chain, rows, record, history, recalc>>
          /\ indexer' \in [up : BOOLEAN, ledger : Nat, cursor : Nat]
      BY <1>6 DEF FinishEvent, GiveUp, Base, TypeOK
    <2> QED BY <1>3, <1>4, <2>1, <2>3, <2>a, <2>4, <2>5, BasePoll
  <1>7. CASE RetryEvent(t)
    <2> DEFINE q == [polls[t] EXCEPT !.pc = "next", !.tries = polls[t].tries + 1, !.plan = <<>>]
    <2>1. polls' = [polls EXCEPT ![t] = q] /\ polls[t].tries + 1 < MaxRetries
      BY <1>7 DEF RetryEvent
    <2>2. polls[t].tries + 1 \in 0 .. MaxRetries
      BY <1>2, <1>5, <2>1 DEF Polls
    <2>3. q \in Polls /\ q.pc = "next" /\ q.todo = polls[t].todo
      BY <1>2, <1>5, <2>2 DEF Polls
    <2> HIDE DEF q
    <2> QED BY <1>2, <1>3, <1>4, <1>7, <2>1, <2>3, BasePoll DEF RetryEvent, Base, TypeOK
  <1> QED BY <1>6, <1>7

LEMMA BaseCursor ==
  ASSUME Base, NEW t \in Slots, AdvanceCursor(t) \/ PersistCursor(t) \/ FailPoll(t)
  PROVE  Base'
  <1>1. polls[t] \in Polls /\ indexer \in [up : BOOLEAN, ledger : Nat, cursor : Nat]
    BY DEF Base, TypeOK
  <1>2. indexer' \in [up : BOOLEAN, ledger : Nat, cursor : Nat]
    BY <1>1 DEF AdvanceCursor, PersistCursor, FailPoll, Polls
  <1>3. /\ count' \in [{"failures", "crashes", "repolls", "recalcs"} -> Nat]
        /\ settled' \in [{"handled", "givenUp", "cut"} -> SUBSET Indexes]
        /\ UNCHANGED <<chain, rows, record, history, recalc>>
    BY CountTyped DEF AdvanceCursor, PersistCursor, FailPoll, Base, TypeOK
  <1>4. CASE polls' = [polls EXCEPT ![t] = NoPoll]
    BY <1>2, <1>3, <1>4, NoPollIsPoll, BasePoll
  <1>5. CASE AdvanceCursor(t) /\ polls' = [polls EXCEPT ![t].pc = "save"]
    <2> DEFINE q == [polls[t] EXCEPT !.pc = "save"]
    <2>1. polls' = [polls EXCEPT ![t] = q]
      BY <1>5
    <2>2. polls[t].pc = "next" /\ polls[t].todo = {}
      BY <1>5 DEF AdvanceCursor, At
    <2>3. polls[t].tries \in Nat /\ ~(polls[t].tries > 0)
      <3>1. polls[t].tries \in Nat
        BY <1>1, ReputationAssumption DEF Polls
      <3>2. ~InHand(t)
        BY <2>2 DEF Base, PollFits
      <3> QED BY <2>2, <3>1, <3>2 DEF InHand
    <2>4. q \in Polls /\ q.pc = "save" /\ q.tries = 0 /\ q.todo = {}
      BY <1>1, <2>2, <2>3 DEF Polls
    <2> HIDE DEF q
    <2> QED BY <1>2, <1>3, <2>1, <2>4, BasePoll
  <1> QED BY <1>4, <1>5 DEF AdvanceCursor, PersistCursor, FailPoll

LEMMA BaseProcess == Base /\ (CrashIndexer \/ StartIndexer) => Base'
  <1> SUFFICES ASSUME Base, CrashIndexer \/ StartIndexer PROVE Base'
    OBVIOUS
  <1>1. CASE CrashIndexer
    <2>1. \A t \in Slots : InHand(t) => Current(t) \in Indexes
      BY InHandEmitted
    <2>2. settled' \in [{"handled", "givenUp", "cut"} -> SUBSET Indexes]
      <3>1. settled \in [{"handled", "givenUp", "cut"} -> SUBSET Indexes]
        BY DEF Base, TypeOK
      <3>2. settled.cut \cup {Current(t) : t \in {u \in Slots : InHand(u)}} \in SUBSET Indexes
        BY <2>1, <3>1
      <3> QED BY <1>1, <3>1, <3>2 DEF CrashIndexer
    <2>3. count' \in [{"failures", "crashes", "repolls", "recalcs"} -> Nat]
      BY <1>1, CountTyped DEF CrashIndexer, Base
    <2>4. polls' \in [Slots -> Polls] /\ \A t \in Slots : polls'[t] = NoPoll
      BY <1>1, NoPollIsPoll DEF CrashIndexer
    <2>5. \A t \in Slots : PollFits(t)'
      BY <2>4, NoPollIsPoll DEF PollFits, InHand
    <2> QED BY <1>1, <2>2, <2>3, <2>4, <2>5 DEF CrashIndexer, Base, TypeOK
  <1>2. CASE StartIndexer
    <2>1. \A t \in Slots : PollFits(t)'
      BY <1>2, FitsKept, EmittedKept DEF StartIndexer
    <2> QED BY <1>2, <2>1 DEF StartIndexer, Base, TypeOK
  <1> QED BY <1>1, <1>2

LEMMA BaseRecalc == Base /\ (BeginRecalc \/ ReadHistory \/ WriteRecord) => Base'
  <1> SUFFICES ASSUME Base, BeginRecalc \/ ReadHistory \/ WriteRecord PROVE Base'
    OBVIOUS
  <1>1. /\ UNCHANGED <<chain, rows, history, indexer, polls, settled>>
        /\ \A t \in Slots : PollFits(t)'
    BY FitsKept, EmittedKept DEF BeginRecalc, ReadHistory, WriteRecord
  <1>2. count' \in [{"failures", "crashes", "repolls", "recalcs"} -> Nat]
    BY CountTyped DEF BeginRecalc, ReadHistory, WriteRecord, Base
  <1>3. recalc \in Recalcs /\ record \in [Parties -> Records] /\ client \in Parties
    BY DEF Base, TypeOK, Parties
  <1>4. recalc' \in Recalcs
    <2>1. CASE BeginRecalc
      BY <1>3, <2>1 DEF BeginRecalc, NoRecalc, Recalcs
    <2>2. CASE ReadHistory
      <3>1. CASE recalc.todo = {}
        BY <1>3, <2>2, <3>1 DEF ReadHistory, NoRecalc, Recalcs
      <3>2. CASE recalc.todo # {}
        <4>1. PICK a \in recalc.todo :
                recalc' = [todo |-> recalc.todo \ {a}, who |-> a, pc |-> "write", seen |-> KindsOf(a)]
          BY <2>2, <3>2 DEF ReadHistory
        <4>2. a \in Parties /\ recalc.todo \ {a} \in SUBSET Parties /\ KindsOf(a) \in SUBSET Kinds
          BY <1>3 DEF Recalcs, KindsOf
        <4> QED BY <4>1, <4>2 DEF Recalcs
      <3> QED BY <3>1, <3>2
    <2>3. CASE WriteRecord
      <3>1. recalc' = [recalc EXCEPT !.pc = "read", !.seen = {}]
        BY <2>3 DEF WriteRecord
      <3> QED BY <1>3, <3>1 DEF Recalcs
    <2> QED BY <2>1, <2>2, <2>3 DEF BeginRecalc, ReadHistory, WriteRecord
  <1>5. record' \in [Parties -> Records]
    <2>1. CASE WriteRecord
      <3>1. Recomputed(recalc.who, recalc.seen) \in Records
        BY <1>3, RecomputedTyped DEF Recalcs, Records
      <3> QED BY <1>3, <2>1, <3>1 DEF WriteRecord
    <2> QED BY <1>3, <2>1 DEF BeginRecalc, ReadHistory
  <1> QED BY <1>1, <1>2, <1>4, <1>5 DEF Base, TypeOK

LEMMA BaseStep == Base /\ [Next]_vars => Base'
  <1> SUFFICES ASSUME Base, [Next]_vars PROVE Base'
    OBVIOUS
  <1>1. ASSUME NEW t \in Slots, StartPoll(t) \/ PollStep(t) PROVE Base'
    BY <1>1, BaseStartPoll, BaseAsk, BaseDispatch, BaseRun, BaseEnd, BaseCursor DEF PollStep
  <1>2. CASE UNCHANGED vars
    <2>1. \A t \in Slots : PollFits(t)'
      BY <1>2, FitsKept, EmittedKept DEF vars
    <2> QED BY <1>2, <2>1 DEF vars, Base, TypeOK
  <1> QED BY <1>1, <1>2, BaseCloseLedger, BaseProcess, BaseRecalc DEF Next



-------------------------------------------------------------------------------
(***************************************************************************)
(* What a step does to the plans.                                          *)
(***************************************************************************)
Rest(new, p) == DOMAIN new = 1 .. Len(p) - 1 /\ \A j \in 1 .. Len(p) - 1 : new[j] = p[j + 1]
Floored(new, p, a) ==
  DOMAIN new = 1 .. Len(p) /\ \A j \in 1 .. Len(p) : new[j] = IF j = 1 THEN Floor(a) ELSE p[j]

LEMMA RestFits ==
  ASSUME NEW p \in Seq(Statements), p # <<>>, NEW new, NEW a \in Parties,
         Rest(new, p) \/ Floored(new, p, a), NEW e, NEW h, NEW g, h \subseteq g,
         p[1].op = "history" => <<p[1].who, p[1].kind>> \in g
  PROVE  /\ RowFirst(p, h) => RowFirst(new, g)
         /\ LossesOf(p, e) => LossesOf(new, e)
  <1>0. Len(p) \in Nat /\ Len(p) >= 1 /\ DOMAIN p = 1 .. Len(p)
    OBVIOUS
  <1>1. ASSUME RowFirst(p, h) PROVE RowFirst(new, g)
    <2> SUFFICES ASSUME NEW j \in DOMAIN new, new[j].op = "count"
                 PROVE  \/ <<new[j].who, new[j].kind>> \in g
                        \/ \E i \in 1 .. j - 1 :
                             new[i] = Statement("history", new[j].who, new[j].kind)
      BY DEF RowFirst
    <2>1. CASE Rest(new, p)
      <3>1. /\ j \in Nat /\ j + 1 \in DOMAIN p /\ new[j] = p[j + 1]
            /\ \A k \in 1 .. Len(p) - 1 : new[k] = p[k + 1]
        BY <1>0, <2>1 DEF Rest
      <3>2. CASE \E i \in 1 .. (j + 1) - 1 : p[i] = Statement("history", new[j].who, new[j].kind)
        <4>1. PICK i \in 1 .. (j + 1) - 1 : p[i] = Statement("history", new[j].who, new[j].kind)
          BY <3>2
        <4>2. CASE i = 1
          BY <4>1, <4>2 DEF Statement
        <4>3. CASE i # 1
          <5>1. i - 1 \in 1 .. j - 1 /\ i - 1 \in 1 .. Len(p) - 1 /\ (i - 1) + 1 = i
            BY <1>0, <2>1, <3>1, <4>1, <4>3 DEF Rest
          <5>2. new[i - 1] = p[i]
            BY <3>1, <5>1
          <5> QED BY <4>1, <5>1, <5>2
        <4> QED BY <4>2, <4>3
      <3>3. CASE <<new[j].who, new[j].kind>> \in h
        BY <3>3
      <3> QED BY <1>1, <3>1, <3>2, <3>3 DEF RowFirst
    <2>2. CASE Floored(new, p, a)
      <3>1. j \in 1 .. Len(p) /\ j # 1 /\ new[j] = p[j]
        BY <2>2 DEF Floored, Floor, Statement
      <3>2. CASE \E i \in 1 .. j - 1 : p[i] = Statement("history", new[j].who, new[j].kind)
        <4>1. PICK i \in 1 .. j - 1 : p[i] = Statement("history", new[j].who, new[j].kind)
          BY <3>2
        <4>2. CASE i = 1
          BY <4>1, <4>2 DEF Statement
        <4>3. CASE i # 1
          <5>1. i \in 1 .. Len(p)
            BY <1>0, <3>1, <4>1
          <5>2. new[i] = p[i]
            BY <2>2, <4>3, <5>1 DEF Floored
          <5> QED BY <4>1, <5>2
        <4> QED BY <4>2, <4>3
      <3>3. CASE <<new[j].who, new[j].kind>> \in h
        BY <3>3
      <3> QED BY <1>0, <1>1, <3>1, <3>2, <3>3 DEF RowFirst
    <2> QED BY <2>1, <2>2
  <1>2. ASSUME LossesOf(p, e) PROVE LossesOf(new, e)
    <2> SUFFICES ASSUME NEW j \in DOMAIN new, new[j].op = "count", new[j].kind = "DISPUTE_LOST"
                 PROVE  e.type = "dis_res" /\ new[j].who = Loser(e)
      BY DEF LossesOf
    <2>1. CASE Rest(new, p)
      <3>1. j + 1 \in DOMAIN p /\ new[j] = p[j + 1]
        BY <1>0, <2>1 DEF Rest
      <3> QED BY <1>2, <3>1 DEF LossesOf
    <2>2. CASE Floored(new, p, a)
      <3>1. j \in DOMAIN p /\ j # 1 /\ new[j] = p[j]
        BY <1>0, <2>2 DEF Floored, Floor, Statement
      <3> QED BY <1>2, <3>1 DEF LossesOf
    <2> QED BY <2>1, <2>2
  <1> QED BY <1>1, <1>2

LEMMA RestStill ==
  ASSUME NEW p \in Seq(Statements), p # <<>>, NEW new, NEW b \in Parties,
         Rest(new, p) \/ Floored(new, p, b), NEW a, NEW kind
  PROVE  /\ /\ Mends(p, a)
            /\ ~ /\ p[1].who = a
                 /\ p[1].op = "floor" \/ (p[1].op = "count" /\ p[1].kind = "DISPUTE_LOST")
            => Mends(new, a)
         /\ Floored(new, p, b) => Mends(new, b)
         /\ Counts(p, a, kind) /\ p[1] # Statement("count", a, kind) => Counts(new, a, kind)
  <1>0. Len(p) \in Nat /\ Len(p) >= 1 /\ DOMAIN p = 1 .. Len(p)
    OBVIOUS
  <1>1. \A j \in DOMAIN p : j # 1 => \E k \in DOMAIN new : new[k] = p[j]
    <2> SUFFICES ASSUME NEW j \in DOMAIN p, j # 1 PROVE \E k \in DOMAIN new : new[k] = p[j]
      OBVIOUS
    <2>1. CASE Rest(new, p)
      <3>1. j - 1 \in 1 .. Len(p) - 1 /\ (j - 1) + 1 = j
        BY <1>0
      <3> QED BY <2>1, <3>1 DEF Rest
    <2>2. CASE Floored(new, p, b)
      BY <1>0, <2>2 DEF Floored
    <2> QED BY <2>1, <2>2
  <1>2. ASSUME Mends(p, a),
               ~ /\ p[1].who = a
                 /\ p[1].op = "floor" \/ (p[1].op = "count" /\ p[1].kind = "DISPUTE_LOST")
        PROVE  Mends(new, a)
    <2>1. PICK j \in DOMAIN p :
            /\ p[j].who = a
            /\ p[j].op = "floor" \/ (p[j].op = "count" /\ p[j].kind = "DISPUTE_LOST")
      BY <1>2 DEF Mends
    <2>2. PICK k \in DOMAIN new : new[k] = p[j]
      BY <1>1, <1>2, <2>1
    <2> QED BY <2>1, <2>2 DEF Mends
  <1>3. ASSUME Floored(new, p, b) PROVE Mends(new, b)
    BY <1>0, <1>3 DEF Floored, Mends, Floor, Statement
  <1>4. ASSUME Counts(p, a, kind), p[1] # Statement("count", a, kind) PROVE Counts(new, a, kind)
    <2>1. PICK j \in DOMAIN p : p[j] = Statement("count", a, kind)
      BY <1>4 DEF Counts
    <2>2. PICK k \in DOMAIN new : new[k] = p[j]
      BY <1>1, <1>4, <2>1
    <2> QED BY <2>1, <2>2 DEF Counts
  <1> QED BY <1>2, <1>3, <1>4

(* A poll's step that runs no statement and starts no event.  *)
Aside(t) ==
  \/ StartPoll(t) \/ GetContractEvents(t) \/ GetLatestLedger(t) \/ FinishEvent(t) \/ RetryEvent(t)
  \/ GiveUp(t) \/ AdvanceCursor(t) \/ PersistCursor(t) \/ FailPoll(t)

LEMMA AsideQuiet ==
  ASSUME Base, NEW t \in Slots, Aside(t)
  PROVE  /\ UNCHANGED <<chain, rows, record, history, recalc>>
         /\ polls'[t].pc # "run" /\ \A u \in Slots : u # t => polls'[u] = polls[u]
         /\ count'.recalcs = count.recalcs
  <1>1. UNCHANGED <<chain, rows, record, history, recalc>>
    BY DEF Aside, StartPoll, GetContractEvents, GetLatestLedger, FinishEvent, RetryEvent, GiveUp,
           AdvanceCursor, PersistCursor, FailPoll
  <1>2. count'.recalcs = count.recalcs
    <2>1. \E what \in {"failures", "repolls"}, bound \in {MaxFaults, MaxRepolls} :
            Occurs(what, bound) \/ UNCHANGED count
      BY DEF Aside, StartPoll, GetContractEvents, GetLatestLedger, FinishEvent, RetryEvent, GiveUp,
             Failing, AdvanceCursor, PersistCursor, FailPoll
    <2> QED BY <2>1, CountTyped DEF Base
  <1>3. polls \in [Slots -> Polls]
    BY DEF Base, TypeOK
  <1>4. \E q : polls' = [polls EXCEPT ![t] = q] /\ q.pc # "run"
    <2>1. CASE StartPoll(t)
      <3> DEFINE q == [NoPoll EXCEPT !.pc = "fetch", !.from = indexer.ledger]
      <3>1. polls' = [polls EXCEPT ![t] = q] /\ q.pc = "fetch"
        BY <2>1 DEF StartPoll, NoPoll
      <3> QED BY <3>1
    <2>2. CASE GetContractEvents(t)
      <3> DEFINE q == [polls[t] EXCEPT !.pc = "latest", !.from = 0, !.seen = chain.latest,
                         !.todo = EventsFrom(polls[t].from)]
      <3>1. polls' = [polls EXCEPT ![t] = q] /\ q.pc = "latest"
        BY <1>3, <2>2 DEF GetContractEvents, Polls
      <3> QED BY <3>1
    <2>3. CASE GetLatestLedger(t)
      <3> DEFINE q == [polls[t] EXCEPT !.pc = "next", !.seen = 0, !.latest = chain.latest]
      <3>1. polls' = [polls EXCEPT ![t] = q] /\ q.pc = "next"
        BY <1>3, <2>3 DEF GetLatestLedger, Polls
      <3> QED BY <3>1
    <2>4. CASE FinishEvent(t) \/ GiveUp(t)
      <3> DEFINE q == [polls[t] EXCEPT !.pc = "next", !.tries = 0, !.plan = <<>>,
                                       !.todo = polls[t].todo \ {Current(t)}]
      <3>1. polls' = [polls EXCEPT ![t] = q]
        BY <2>4 DEF FinishEvent, GiveUp, NextEvent
      <3>2. q.pc = "next"
        BY <1>3 DEF Polls
      <3> QED BY <3>1, <3>2
    <2>5. CASE RetryEvent(t)
      <3> DEFINE q == [polls[t] EXCEPT !.pc = "next", !.tries = polls[t].tries + 1, !.plan = <<>>]
      <3>1. polls' = [polls EXCEPT ![t] = q] /\ q.pc = "next"
        BY <1>3, <2>5 DEF RetryEvent, Polls
      <3> QED BY <3>1
    <2>6. CASE polls' = [polls EXCEPT ![t] = NoPoll]
      BY <2>6, NoPollIsPoll
    <2>7. CASE polls' = [polls EXCEPT ![t].pc = "save"]
      <3>1. polls' = [polls EXCEPT ![t] = [polls[t] EXCEPT !.pc = "save"]]
        BY <2>7
      <3>2. [polls[t] EXCEPT !.pc = "save"].pc = "save"
        BY <1>3 DEF Polls
      <3> QED BY <3>1, <3>2
    <2> QED BY <2>1, <2>2, <2>3, <2>4, <2>5, <2>6, <2>7 DEF Aside, AdvanceCursor, PersistCursor, FailPoll
  <1> QED BY <1>1, <1>2, <1>3, <1>4

LEMMA DispatchEffect ==
  ASSUME Base, NEW t \in Slots, DispatchEvent(t)
  PROVE  /\ UNCHANGED <<chain, rows, record, history, indexer, recalc, count>>
         /\ \A u \in Slots : u # t => polls'[u] = polls[u]
         /\ polls'[t].pc = "run" /\ polls'[t].todo = polls[t].todo
         /\ polls'[t].plan = Program(Script[Current(t)], TRUE)
         /\ Current(t) \in Emitted /\ Script[Current(t)] \in Events
         /\ settled' = [settled EXCEPT !.cut = @ \ {Current(t)}]
  <1>1. polls[t] \in Polls /\ polls \in [Slots -> Polls] /\ rows.status # "none"
    BY DEF Base, TypeOK
  <1>2. Current(t) \in Emitted /\ Current(t) \in Indexes /\ Script[Current(t)] \in Events
    BY CurrentIsLeft, ScriptTypes DEF DispatchEvent, Base, PollFits
  <1> DEFINE q == [polls[t] EXCEPT !.pc = "run", !.plan = Program(Script[Current(t)], rows.status # "none")]
  <1>3. polls' = [polls EXCEPT ![t] = q]
    BY DEF DispatchEvent
  <1>4. /\ q.pc = "run" /\ q.todo = polls[t].todo
        /\ q.plan = Program(Script[Current(t)], rows.status # "none")
    BY <1>1 DEF Polls
  <1> HIDE DEF q
  <1>5. polls'[t] = q /\ \A u \in Slots : u # t => polls'[u] = polls[u]
    BY <1>1, <1>3
  <1>6. (rows.status # "none") = TRUE
    BY <1>1
  <1> QED BY <1>2, <1>4, <1>5, <1>6 DEF DispatchEvent

LEMMA RunEffect ==
  ASSUME Base, NEW t \in Slots, RunStatement(t)
  PROVE  LET p == polls[t].plan
             new == polls'[t].plan
             st == polls[t].plan[1]
         IN  /\ UNCHANGED <<chain, indexer, recalc, settled, count>>
             /\ \A u \in Slots : u # t => polls'[u] = polls[u]
             /\ polls[t].pc = "run" /\ polls'[t].pc = "run" /\ polls'[t].todo = polls[t].todo
             /\ Rest(new, p) \/ (Floored(new, p, st.who) /\ st.op = "count")
             /\ st.op = "history" => history' = history \cup {<<st.who, st.kind>>}
             /\ st.op # "history" => UNCHANGED history
             /\ st.op = "count" =>
                  /\ HasRecord(st.who)
                  /\ record' = [record EXCEPT ![st.who] = Counted(record[st.who], st.who, st.kind)]
                  /\ Counted(record[st.who], st.who, st.kind).score < 0
                       /\ st.kind # "ESCROW_COMPLETED" => Floored(new, p, st.who)
             /\ st.op = "floor" =>
                  HasRecord(st.who) /\ record' = [record EXCEPT ![st.who] = [record[st.who] EXCEPT !.score = 0]]
             /\ st.op = "score" =>
                  record' = [record EXCEPT ![st.who] =
                     [(IF HasRecord(st.who) THEN record[st.who] ELSE NewRecord)
                        EXCEPT !.score = Script[Current(t)].amount]]
             /\ st.op \notin {"count", "floor", "score"} => UNCHANGED record
  <1> DEFINE p == polls[t].plan
             st == polls[t].plan[1]
  <1>1. /\ At(t, "run") /\ p # <<>> /\ Accepted(st) /\ Emitted' = Emitted
        /\ UNCHANGED <<chain, indexer, recalc, settled, count>>
    BY AtStatement, EmittedKept DEF RunStatement
  <1>2. /\ polls \in [Slots -> Polls] /\ polls[t] \in Polls /\ p \in Seq(Statements)
        /\ Head(p) = st /\ st \in Statements /\ st.who \in Parties /\ polls[t].pc = "run"
        /\ record \in [Parties -> Records]
    BY <1>1, AtStatement DEF Base, TypeOK, Statements
  <1>3. ASSUME NEW more, more = <<>> \/ more = <<Floor(st.who)>>, polls' = Pop(t, more)
        PROVE  /\ \A u \in Slots : u # t => polls'[u] = polls[u]
               /\ polls'[t].pc = "run" /\ polls'[t].todo = polls[t].todo
               /\ more = <<>> => Rest(polls'[t].plan, p)
               /\ more = <<Floor(st.who)>> => Floored(polls'[t].plan, p, st.who)
    <2> DEFINE rest == more \o Tail(p)
               q == [polls[t] EXCEPT !.plan = rest]
    <2>1. polls' = [polls EXCEPT ![t] = q]
      BY <1>1, <1>2, <1>3, PopTyped
    <2>2. Floor(st.who) \in Statements
      BY <1>2, FloorTyped
    <2>3. more = <<>> => Rest(rest, p)
      BY <1>1, <1>2, <2>2, Popped DEF Rest
    <2>4. more = <<Floor(st.who)>> => Floored(rest, p, st.who)
      BY <1>1, <1>2, <2>2, Popped DEF Floored
    <2> HIDE DEF rest
    <2>5. q.pc = "run" /\ q.todo = polls[t].todo /\ q.plan = rest
      BY <1>2 DEF Polls
    <2> HIDE DEF q
    <2>6. polls'[t] = q /\ \A u \in Slots : u # t => polls'[u] = polls[u]
      BY <1>2, <2>1
    <2> HIDE DEF p, st
    <2> QED BY <2>3, <2>4, <2>5, <2>6
  <1>4. CASE UpsertHistory(t)
    <2>1. /\ st.op = "history" /\ history' = history \cup {<<st.who, st.kind>>}
          /\ UNCHANGED record /\ polls' = Pop(t, <<>>)
      BY <1>2, <1>4 DEF UpsertHistory
    <2> HIDE DEF st, p
    <2>2. /\ \A u \in Slots : u # t => polls'[u] = polls[u]
          /\ polls'[t].pc = "run" /\ polls'[t].todo = polls[t].todo /\ Rest(polls'[t].plan, p)
      BY <1>3, <2>1
    <2> QED BY <1>1, <1>2, <2>1, <2>2 DEF st, p
  <1>5. CASE CountOutcome(t)
    <2> DEFINE updated == Counted(record[st.who], st.who, st.kind)
               more == IF st.kind # "ESCROW_COMPLETED" /\ updated.score < 0
                       THEN <<Floor(st.who)>> ELSE <<>>
    <2>1. /\ st.op = "count" /\ record' = [record EXCEPT ![st.who] = updated]
          /\ UNCHANGED history /\ polls' = Pop(t, more)
      BY <1>2, <1>5 DEF CountOutcome
    <2>2. HasRecord(st.who)
      BY <1>1, <2>1 DEF Accepted
    <2>3. more = <<>> \/ more = <<Floor(st.who)>>
      OBVIOUS
    <2>4. updated.score < 0 /\ st.kind # "ESCROW_COMPLETED" => more = <<Floor(st.who)>>
      OBVIOUS
    <2> HIDE DEF st, p, more
    <2>5. /\ \A u \in Slots : u # t => polls'[u] = polls[u]
          /\ polls'[t].pc = "run" /\ polls'[t].todo = polls[t].todo
          /\ more = <<>> => Rest(polls'[t].plan, p)
          /\ more = <<Floor(st.who)>> => Floored(polls'[t].plan, p, st.who)
      BY <1>3, <2>1, <2>3
    <2> QED BY <1>1, <1>2, <2>1, <2>2, <2>3, <2>4, <2>5 DEF st, p
  <1>6. CASE FloorScore(t)
    <2>1. /\ st.op = "floor" /\ UNCHANGED history /\ polls' = Pop(t, <<>>)
          /\ record' = [record EXCEPT ![st.who] = [record[st.who] EXCEPT !.score = 0]]
      BY <1>2, <1>6 DEF FloorScore
    <2>2. HasRecord(st.who)
      BY <1>1, <2>1 DEF Accepted
    <2> HIDE DEF st, p
    <2>3. /\ \A u \in Slots : u # t => polls'[u] = polls[u]
          /\ polls'[t].pc = "run" /\ polls'[t].todo = polls[t].todo /\ Rest(polls'[t].plan, p)
      BY <1>3, <2>1
    <2> QED BY <1>1, <1>2, <2>1, <2>2, <2>3 DEF st, p
  <1>7. CASE WriteScore(t)
    <2>1. /\ st.op = "score" /\ UNCHANGED history /\ polls' = Pop(t, <<>>)
          /\ record' = [record EXCEPT ![st.who] =
               [(IF HasRecord(st.who) THEN record[st.who] ELSE NewRecord)
                  EXCEPT !.score = Script[Current(t)].amount]]
      BY <1>2, <1>7 DEF WriteScore
    <2> HIDE DEF st, p
    <2>2. /\ \A u \in Slots : u # t => polls'[u] = polls[u]
          /\ polls'[t].pc = "run" /\ polls'[t].todo = polls[t].todo /\ Rest(polls'[t].plan, p)
      BY <1>3, <2>1
    <2> QED BY <1>1, <1>2, <2>1, <2>2 DEF st, p
  <1>8. CASE WriteRows(t)
    <2>1. st.op = "rows" /\ UNCHANGED <<record, history>> /\ polls' = Pop(t, <<>>)
      BY <1>2, <1>8 DEF WriteRows
    <2> HIDE DEF st, p
    <2>2. /\ \A u \in Slots : u # t => polls'[u] = polls[u]
          /\ polls'[t].pc = "run" /\ polls'[t].todo = polls[t].todo /\ Rest(polls'[t].plan, p)
      BY <1>3, <2>1
    <2> QED BY <1>1, <1>2, <2>1, <2>2 DEF st, p
  <1> QED BY <1>4, <1>5, <1>6, <1>7, <1>8 DEF RunStatement

-------------------------------------------------------------------------------
(***************************************************************************)
(* What is counted is in the history.                                      *)
(***************************************************************************)
PlanFits(t) ==
  polls[t].pc = "run" =>
    RowFirst(polls[t].plan, history) /\ LossesOf(polls[t].plan, Script[Current(t)])

(* What a recalculation has read is in the history still.  *)
SeenIsWritten == recalc.pc = "write" => \A k \in recalc.seen : <<recalc.who, k>> \in history

BackedInv ==
  /\ \A t \in Slots : PlanFits(t)
  /\ SeenIsWritten
  /\ CountsBacked

LEMMA BackedInit == Init => BackedInv
  <1> SUFFICES ASSUME Init PROVE BackedInv
    OBVIOUS
  <1>1. \A t \in Slots : polls[t].pc = "idle"
    BY DEF Init, NoPoll
  <1>2. \A a \in Parties : record[a].completed <= 0 /\ record[a].won <= 0
    BY DEF Init, NoRecord, NewRecord
  <1>3. \A a \in Parties : ~(record[a].completed > 0) /\ ~(record[a].won > 0)
    <2> SUFFICES ASSUME NEW a \in Parties
                 PROVE  ~(record[a].completed > 0) /\ ~(record[a].won > 0)
      OBVIOUS
    <2>1. record[a] = NoRecord \/ record[a] = NewRecord
      BY DEF Init
    <2> QED BY <2>1 DEF NoRecord, NewRecord
  <1> QED BY <1>1, <1>3 DEF Init, NoRecalc, BackedInv, PlanFits, SeenIsWritten, CountsBacked

(* The plans that a step neither begins nor advances.  *)
LEMMA PlanKept ==
  ASSUME BackedInv, NEW u \in Slots, history \subseteq history',
         polls'[u].pc = "run" => polls'[u] = polls[u]
  PROVE  PlanFits(u)'
  <1> SUFFICES ASSUME polls'[u].pc = "run"
               PROVE  /\ RowFirst(polls'[u].plan, history')
                      /\ LossesOf(polls'[u].plan, Script[Current(u)'])
    BY DEF PlanFits
  <1>1. polls'[u] = polls[u] /\ Current(u)' = Current(u)
    BY DEF Current
  <1>2. RowFirst(polls[u].plan, history) /\ LossesOf(polls[u].plan, Script[Current(u)])
    BY <1>1 DEF BackedInv, PlanFits
  <1> QED BY <1>1, <1>2 DEF RowFirst

LEMMA BackedRest ==
  ASSUME Base, BackedInv, UNCHANGED <<history, record>>, SeenIsWritten',
         \A t \in Slots : polls'[t].pc = "run" => polls'[t] = polls[t]
  PROVE  BackedInv'
  <1>1. \A t \in Slots : PlanFits(t)'
    BY PlanKept
  <1> QED BY <1>1 DEF BackedInv, CountsBacked

LEMMA BackedDispatch ==
  ASSUME Base, BackedInv, NEW t \in Slots, DispatchEvent(t)
  PROVE  BackedInv'
  <1>1. UNCHANGED <<history, record, recalc>>
    BY DispatchEffect
  <1>2. PlanFits(t)'
    <2>1. Current(t)' = Current(t)
      BY DispatchEffect DEF Current
    <2>2. polls'[t].plan = Program(Script[Current(t)], TRUE) /\ Script[Current(t)] \in Events
      BY DispatchEffect
    <2> DEFINE e == Script[Current(t)]
               plan == polls'[t].plan
    <2> HIDE DEF e, plan
    <2>3. RowFirst(plan, history) /\ LossesOf(plan, e)
      BY <2>2, ProgramShape DEF e, plan
    <2> QED BY <1>1, <2>1, <2>3 DEF PlanFits, e, plan
  <1>3. \A u \in Slots : u # t => PlanFits(u)'
    BY <1>1, DispatchEffect, PlanKept
  <1> QED BY <1>1, <1>2, <1>3 DEF BackedInv, CountsBacked, SeenIsWritten

(* What a statement does to the counts of a record.  *)
LEMMA RecordRun ==
  ASSUME Base, NEW t \in Slots, RunStatement(t), NEW a \in Parties
  PROVE  LET st == polls[t].plan[1]
         IN  /\ st.op = "count" /\ st.who = a =>
                  /\ record[a].completed \in Nat /\ record[a].won \in Nat
                  /\ st.kind = "ESCROW_COMPLETED" => record'[a].completed = record[a].completed + 1
                  /\ st.kind # "ESCROW_COMPLETED" => record'[a].completed = record[a].completed
                  /\ st.kind = "DISPUTE_WON" => record'[a].won = record[a].won + 1
                  /\ st.kind # "DISPUTE_WON" => record'[a].won = record[a].won
             /\ ~(st.op = "count" /\ st.who = a) =>
                  /\ \/ record'[a].completed = record[a].completed
                     \/ (record'[a].completed = 0 /\ record[a].completed = -1)
                  /\ \/ record'[a].won = record[a].won
                     \/ (record'[a].won = 0 /\ record[a].won = -1)
  <1> DEFINE p == polls[t].plan
             st == polls[t].plan[1]
  <1>1. p \in Seq(Statements) /\ p # <<>> /\ st \in Statements /\ st.who \in Parties /\ st.kind \in Kinds
    BY AtStatement DEF RunStatement, Statements
  <1>2. record \in [Parties -> Records]
    BY DEF Base, TypeOK
  <1>3. CASE st.op = "count" /\ st.who = a
    <2>1. HasRecord(a) /\ record' = [record EXCEPT ![a] = Counted(record[a], a, st.kind)]
      BY <1>3, RunEffect
    <2>2. record[a] \in [score : Int, completed : Nat, won : Nat]
      BY <2>1, HasRecordTyped DEF Base
    <2>3. /\ record'[a].completed = record[a].completed + (IF st.kind = "ESCROW_COMPLETED" THEN 1 ELSE 0)
          /\ record'[a].won = record[a].won + (IF st.kind = "DISPUTE_WON" THEN 1 ELSE 0)
      <3>1. record'[a] = Counted(record[a], a, st.kind)
        BY <1>2, <2>1
      <3>2. PICK k \in Kinds : k = st.kind
        BY <1>1
      <3> HIDE DEF p, st
      <3>3. /\ Counted(record[a], a, k).completed = record[a].completed + (IF k = "ESCROW_COMPLETED" THEN 1 ELSE 0)
            /\ Counted(record[a], a, k).won = record[a].won + (IF k = "DISPUTE_WON" THEN 1 ELSE 0)
        BY <2>2, CountedTyped
      <3> QED BY <3>1, <3>2, <3>3
    <2>4. record[a].completed \in Nat /\ record[a].won \in Nat
      BY <2>2
    <2> HIDE DEF p
    <2> QED BY <1>3, <2>3, <2>4
  <1>4. CASE st.op = "count" /\ st.who # a
    <2>1. record' = [record EXCEPT ![st.who] = Counted(record[st.who], st.who, st.kind)]
      BY <1>4, RunEffect
    <2> QED BY <1>1, <1>2, <1>4, <2>1
  <1>5. CASE st.op = "floor"
    <2>1. /\ HasRecord(st.who)
          /\ record' = [record EXCEPT ![st.who] = [record[st.who] EXCEPT !.score = 0]]
      BY <1>5, RunEffect
    <2>2. record[st.who] \in [score : Int, completed : Nat, won : Nat]
      BY <1>1, <2>1, HasRecordTyped DEF Base
    <2> QED BY <1>1, <1>2, <1>5, <2>1, <2>2
  <1>6. CASE st.op = "score"
    <2> DEFINE kept == IF HasRecord(st.who) THEN record[st.who] ELSE NewRecord
               up == [kept EXCEPT !.score = Script[Current(t)].amount]
    <2>1. record' = [record EXCEPT ![st.who] = up]
      BY <1>6, RunEffect
    <2>2. kept \in [score : Int, completed : Nat, won : Nat]
      BY <1>1, HasRecordTyped DEF Base, NewRecord
    <2>3. up.completed = kept.completed /\ up.won = kept.won
      BY <2>2
    <2>4. /\ \/ kept.completed = record[st.who].completed
             \/ (kept.completed = 0 /\ record[st.who].completed = -1)
          /\ \/ kept.won = record[st.who].won
             \/ (kept.won = 0 /\ record[st.who].won = -1)
      <3>1. CASE HasRecord(st.who)
        BY <3>1
      <3>2. CASE ~HasRecord(st.who)
        <4>1. record[st.who].completed = -1 /\ record[st.who].won = -1
          BY <1>1, <3>2, HasRecordTyped DEF Base
        <4> QED BY <3>2, <4>1 DEF NewRecord
      <3> QED BY <3>1, <3>2
    <2>5. /\ \/ record'[a].completed = record[a].completed
             \/ (record'[a].completed = 0 /\ record[a].completed = -1)
          /\ \/ record'[a].won = record[a].won
             \/ (record'[a].won = 0 /\ record[a].won = -1)
      <3> HIDE DEF up, kept, st
      <3> QED BY <1>1, <1>2, <2>1, <2>3, <2>4
    <2> QED BY <1>6, <2>5
  <1>7. CASE st.op \notin {"count", "floor", "score"}
    BY <1>7, RunEffect
  <1> QED BY <1>3, <1>4, <1>5, <1>6, <1>7

LEMMA BackedRun ==
  ASSUME Base, BackedInv, NEW t \in Slots, RunStatement(t)
  PROVE  BackedInv'
  <1> DEFINE p == polls[t].plan
             new == polls'[t].plan
             st == polls[t].plan[1]
             e == Script[Current(t)]
  <1>1. /\ UNCHANGED recalc /\ \A u \in Slots : u # t => polls'[u] = polls[u]
        /\ polls[t].pc = "run" /\ polls'[t].todo = polls[t].todo
        /\ Rest(new, p) \/ Floored(new, p, st.who)
        /\ st.op = "history" => history' = history \cup {<<st.who, st.kind>>}
        /\ st.op # "history" => UNCHANGED history
    BY RunEffect
  <1>2. p \in Seq(Statements) /\ p # <<>> /\ st \in Statements /\ st.who \in Parties /\ st.kind \in Kinds
    BY AtStatement DEF RunStatement, Statements
  <1>3. RowFirst(p, history) /\ LossesOf(p, e)
    BY <1>1 DEF BackedInv, PlanFits
  <1>4. history \subseteq history' /\ (st.op = "history" => <<st.who, st.kind>> \in history')
    BY <1>1
  <1>5. PlanFits(t)'
    <2>1. Current(t)' = Current(t)
      BY <1>1 DEF Current
    <2> HIDE DEF p, new, e
    <2>2. RowFirst(new, history') /\ LossesOf(new, e)
      BY <1>1, <1>2, <1>3, <1>4, RestFits DEF p
    <2> QED BY <2>1, <2>2 DEF PlanFits, new, e
  <1>6. \A u \in Slots : u # t => PlanFits(u)'
    BY <1>1, <1>4, PlanKept
  <1>7. SeenIsWritten'
    BY <1>1, <1>4 DEF BackedInv, SeenIsWritten
  <1>8. CountsBacked'
    <2> SUFFICES ASSUME NEW a \in Parties
                 PROVE  /\ record'[a].completed > 0 => <<a, "ESCROW_COMPLETED">> \in history'
                        /\ record'[a].won > 0 => <<a, "DISPUTE_WON">> \in history'
      BY DEF CountsBacked
    <2>1. /\ record[a].completed > 0 => <<a, "ESCROW_COMPLETED">> \in history'
          /\ record[a].won > 0 => <<a, "DISPUTE_WON">> \in history'
      BY <1>4 DEF BackedInv, CountsBacked
    <2>2. CASE st.op = "count" /\ st.who = a
      <3>1. <<a, st.kind>> \in history'
        <4>1. 1 \in DOMAIN p
          BY <1>2
        <4>2. ~ \E i \in 1 .. 1 - 1 : p[i] = Statement("history", st.who, st.kind)
          OBVIOUS
        <4> QED BY <1>3, <1>4, <2>2, <4>1, <4>2 DEF RowFirst
      <3>2. /\ st.kind # "ESCROW_COMPLETED" => record'[a].completed = record[a].completed
            /\ st.kind # "DISPUTE_WON" => record'[a].won = record[a].won
        BY <2>2, RecordRun
      <3> HIDE DEF p, new, st, e
      <3> QED BY <2>1, <3>1, <3>2
    <2>3. CASE ~(st.op = "count" /\ st.who = a)
      <3>1. /\ record'[a].completed = record[a].completed \/ record'[a].completed = 0
            /\ record'[a].won = record[a].won \/ record'[a].won = 0
        BY <2>3, RecordRun
      <3>2. ~(0 > 0)
        OBVIOUS
      <3> HIDE DEF p, new, st, e
      <3> QED BY <2>1, <3>1, <3>2
    <2> QED BY <2>2, <2>3
  <1> QED BY <1>5, <1>6, <1>7, <1>8 DEF BackedInv

LEMMA BackedRecalc ==
  Base /\ BackedInv /\ (BeginRecalc \/ ReadHistory \/ WriteRecord) => BackedInv'
  <1> SUFFICES ASSUME Base, BackedInv, BeginRecalc \/ ReadHistory \/ WriteRecord PROVE BackedInv'
    OBVIOUS
  <1>1. UNCHANGED <<history, polls>>
    BY DEF BeginRecalc, ReadHistory, WriteRecord
  <1>2. recalc \in Recalcs /\ record \in [Parties -> Records]
    BY DEF Base, TypeOK
  <1>3. CASE BeginRecalc \/ ReadHistory
    <2>1. SeenIsWritten'
      <3>1. CASE recalc'.pc = "write"
        <4>1. ReadHistory /\ recalc.todo # {}
          <5>1. CASE BeginRecalc
            <6>1. recalc'.pc = "read"
              BY <5>1 DEF BeginRecalc, NoRecalc
            <6> QED BY <3>1, <6>1
          <5>2. CASE ReadHistory /\ recalc.todo = {}
            BY <3>1, <5>2 DEF ReadHistory, NoRecalc
          <5> QED BY <1>3, <5>1, <5>2
        <4>2. PICK a \in recalc.todo :
                recalc' = [todo |-> recalc.todo \ {a}, who |-> a, pc |-> "write", seen |-> KindsOf(a)]
          BY <4>1 DEF ReadHistory
        <4> QED BY <1>1, <4>2 DEF SeenIsWritten, KindsOf
      <3>2. CASE recalc'.pc # "write"
        BY <3>2 DEF SeenIsWritten
      <3> QED BY <3>1, <3>2
    <2>2. UNCHANGED record
      BY <1>3 DEF BeginRecalc, ReadHistory
    <2> QED BY <1>1, <2>1, <2>2, BackedRest
  <1>4. CASE WriteRecord
    <2> DEFINE new == Recomputed(recalc.who, recalc.seen)
    <2>1. /\ record' = [record EXCEPT ![recalc.who] = new]
          /\ recalc'.pc = "read" /\ recalc.pc = "write"
      BY <1>2, <1>4 DEF WriteRecord, Recalcs
    <2>2. /\ new.completed > 0 => <<recalc.who, "ESCROW_COMPLETED">> \in history
          /\ new.won > 0 => <<recalc.who, "DISPUTE_WON">> \in history
      BY <1>2, <2>1, RecomputedTyped DEF BackedInv, SeenIsWritten, Recalcs
    <2> HIDE DEF new
    <2>3. CountsBacked'
      BY <1>1, <1>2, <2>1, <2>2 DEF CountsBacked, BackedInv, Recalcs
    <2>4. SeenIsWritten'
      BY <2>1 DEF SeenIsWritten
    <2>5. \A t \in Slots : PlanFits(t)'
      BY <1>1, PlanKept
    <2> QED BY <2>3, <2>4, <2>5 DEF BackedInv
  <1> QED BY <1>3, <1>4

LEMMA BackedStep == Base /\ BackedInv /\ [Next]_vars => BackedInv'
  <1> SUFFICES ASSUME Base, BackedInv, [Next]_vars PROVE BackedInv'
    OBVIOUS
  <1>1. CASE \E t \in Slots : DispatchEvent(t) \/ RunStatement(t)
    BY <1>1, BackedDispatch, BackedRun
  <1>2. CASE \E t \in Slots : Aside(t)
    <2>1. PICK t \in Slots : Aside(t)
      BY <1>2
    <2>2. /\ UNCHANGED <<record, history, recalc>>
          /\ \A u \in Slots : polls'[u].pc = "run" => polls'[u] = polls[u]
      BY <2>1, AsideQuiet
    <2>3. SeenIsWritten'
      BY <2>2 DEF BackedInv, SeenIsWritten
    <2> QED BY <2>2, <2>3, BackedRest
  <1>3. CASE CloseLedger \/ CrashIndexer \/ StartIndexer \/ UNCHANGED vars
    <2>1. UNCHANGED <<record, history, recalc>>
      BY <1>3 DEF CloseLedger, CrashIndexer, StartIndexer, vars
    <2>2. \A u \in Slots : polls'[u].pc = "run" => polls'[u] = polls[u]
      BY <1>3, NoPollIsPoll DEF CloseLedger, CrashIndexer, StartIndexer, vars
    <2>3. SeenIsWritten'
      BY <2>1 DEF BackedInv, SeenIsWritten
    <2> QED BY <2>1, <2>2, <2>3, BackedRest
  <1>4. CASE BeginRecalc \/ ReadHistory \/ WriteRecord
    BY <1>4, BackedRecalc
  <1> QED BY <1>1, <1>2, <1>3, <1>4 DEF Next, PollStep, Aside

-------------------------------------------------------------------------------
(***************************************************************************)
(* A score below zero is on its way back to zero, or was left behind.      *)
(***************************************************************************)
Mending(t, a) == InHand(t) /\ (polls[t].pc = "run" => Mends(polls[t].plan, a))

Excused(i, a) ==
  /\ i \in Emitted /\ Script[i].type = "dis_res" /\ a = Loser(Script[i])
  /\ i \in settled.cut \/ \E t \in Slots : Mending(t, a) /\ i = Current(t)

FloorInv == \A a \in Parties : record[a].score < 0 => \E i \in Indexes : Excused(i, a)

LEMMA FloorInit == Init => FloorInv
  <1> SUFFICES ASSUME Init, NEW a \in Parties PROVE ~(record[a].score < 0)
    BY DEF FloorInv
  <1>1. record[a] = NoRecord \/ record[a] = NewRecord
    BY DEF Init
  <1> QED BY <1>1 DEF NoRecord, NewRecord

(* Every excuse stays one, and no score falls.  *)
LEMMA FloorKept ==
  ASSUME FloorInv, UNCHANGED record, \A i \in Indexes, a \in Parties : Excused(i, a) => Excused(i, a)'
  PROVE  FloorInv'
  BY DEF FloorInv

LEMMA MendingKept ==
  ASSUME NEW u \in Slots, polls'[u] = polls[u], NEW a
  PROVE  /\ Mending(u, a) => Mending(u, a)'
         /\ Current(u)' = Current(u)
  BY DEF Mending, InHand, Current

LEMMA ExcusedAside ==
  ASSUME Base, NEW t \in Slots, Aside(t), NEW i \in Indexes, NEW a \in Parties, Excused(i, a)
  PROVE  Excused(i, a)'
  <1>1. Emitted' = Emitted /\ \A u \in Slots : u # t => polls'[u] = polls[u]
    BY AsideQuiet, EmittedKept
  <1>2. settled.cut \subseteq settled'.cut
    BY DEF Aside, StartPoll, GetContractEvents, GetLatestLedger, FinishEvent, RetryEvent, GiveUp,
           AdvanceCursor, PersistCursor, FailPoll, Base, TypeOK
  <1>3. CASE i \in settled.cut
    BY <1>1, <1>2, <1>3 DEF Excused
  <1>4. CASE \E u \in Slots : u # t /\ Mending(u, a) /\ i = Current(u)
    <2>1. PICK u \in Slots : u # t /\ Mending(u, a) /\ i = Current(u)
      BY <1>4
    <2>2. Mending(u, a)' /\ i = Current(u)'
      BY <1>1, <2>1, MendingKept
    <2> QED BY <1>1, <2>2 DEF Excused
  <1>5. CASE Mending(t, a) /\ i = Current(t)
    <2>1. polls[t] \in Polls /\ polls \in [Slots -> Polls]
      BY DEF Base, TypeOK
    <2>2. CASE FinishEvent(t)
      <3>1. polls[t].pc = "run" /\ polls[t].plan = <<>>
        BY <2>2 DEF FinishEvent, At
      <3>2. Mends(<<>>, a)
        BY <1>5, <3>1 DEF Mending
      <3> QED BY <3>2 DEF Mends
    <2>3. CASE RetryEvent(t)
      <3> DEFINE q == [polls[t] EXCEPT !.pc = "next", !.tries = polls[t].tries + 1, !.plan = <<>>]
      <3>1. polls' = [polls EXCEPT ![t] = q]
        BY <2>3 DEF RetryEvent
      <3>2. q.pc = "next" /\ q.tries = polls[t].tries + 1 /\ q.todo = polls[t].todo
        BY <2>1 DEF Polls
      <3>3. polls[t].tries \in Nat
        BY <2>1, ReputationAssumption DEF Polls
      <3>4. q.tries > 0
        BY <3>2, <3>3
      <3> HIDE DEF q
      <3>5. polls'[t] = q
        BY <2>1, <3>1
      <3>6. Mending(t, a)' /\ Current(t)' = Current(t)
        BY <3>2, <3>4, <3>5 DEF Mending, InHand, Current
      <3> QED BY <1>1, <1>5, <3>6 DEF Excused
    <2>4. CASE GiveUp(t)
      <3>1. i \in settled'.cut
        BY <1>5, <2>4 DEF GiveUp, Base, TypeOK
      <3> QED BY <1>1, <3>1 DEF Excused
    <2>5. CASE ~(FinishEvent(t) \/ RetryEvent(t) \/ GiveUp(t))
      <3>1. polls[t].pc \in {"idle", "fetch", "latest", "save"} \/ (polls[t].pc = "next" /\ polls[t].todo = {})
        BY <2>5 DEF Aside, StartPoll, GetContractEvents, GetLatestLedger, AdvanceCursor,
                    PersistCursor, FailPoll, At
      <3>2. ~InHand(t)
        <4>1. CASE polls[t].pc \in {"idle", "fetch", "latest", "save"}
          BY <4>1 DEF InHand
        <4>2. CASE polls[t].pc = "next" /\ polls[t].todo = {}
          BY <4>2 DEF Base, PollFits
        <4> QED BY <3>1, <4>1, <4>2
      <3> QED BY <1>5, <3>2 DEF Mending
    <2> QED BY <2>2, <2>3, <2>4, <2>5
  <1> QED BY <1>3, <1>4, <1>5 DEF Excused

LEMMA ExcusedProcess ==
  ASSUME Base, CloseLedger \/ CrashIndexer \/ StartIndexer \/ UNCHANGED vars,
         NEW i \in Indexes, NEW a \in Parties, Excused(i, a)
  PROVE  Excused(i, a)'
  <1>1. CASE UNCHANGED <<chain, polls, settled>>
    <2>1. \A u \in Slots : Mending(u, a) => Mending(u, a)' /\ Current(u)' = Current(u)
      BY <1>1, MendingKept
    <2> QED BY <1>1, <2>1, EmittedKept DEF Excused
  <1>2. CASE CloseLedger
    <2>1. \A u \in Slots : Mending(u, a) => Mending(u, a)' /\ Current(u)' = Current(u)
      BY <1>2, MendingKept DEF CloseLedger
    <2>2. i \in Emitted'
      <3>1. i \in Nat /\ i <= Len(chain.ledgerOf) /\ i \in Indexes
        BY ScriptTypes DEF Excused, Emitted
      <3>2. Len(chain.ledgerOf) \in Nat /\ Len(chain'.ledgerOf) \in Nat
        BY DEF Base, TypeOK
      <3>3. Len(chain.ledgerOf) <= Len(chain'.ledgerOf)
        BY <1>2, LedgerGrows
      <3> QED BY <3>1, <3>2, <3>3 DEF Emitted
    <2> QED BY <1>2, <2>1, <2>2 DEF Excused, CloseLedger
  <1>3. CASE CrashIndexer
    <2>1. settled'.cut = settled.cut \cup {Current(t) : t \in {u \in Slots : InHand(u)}}
      BY <1>3 DEF CrashIndexer, Base, TypeOK
    <2>2. i \in settled'.cut
      BY <2>1 DEF Excused, Mending
    <2> QED BY <1>3, <2>2, EmittedKept DEF Excused, CrashIndexer
  <1> QED BY <1>1, <1>2, <1>3 DEF StartIndexer, vars

LEMMA ExcusedDispatch ==
  ASSUME Base, NEW t \in Slots, DispatchEvent(t), NEW i \in Indexes, NEW a \in Parties, Excused(i, a)
  PROVE  Excused(i, a)'
  <1>1. /\ Emitted' = Emitted /\ \A u \in Slots : u # t => polls'[u] = polls[u]
        /\ polls'[t].pc = "run" /\ Current(t)' = Current(t)
        /\ polls'[t].plan = Program(Script[Current(t)], TRUE)
        /\ Script[Current(t)] \in Events
        /\ settled'.cut = settled.cut \ {Current(t)}
    BY DispatchEffect, EmittedKept DEF Current, Base, TypeOK
  <1>2. CASE i = Current(t)
    <2> DEFINE e == Script[Current(t)]
    <2> HIDE DEF e
    <2>1. e.type = "dis_res" /\ a = Loser(e) /\ e \in Events
      BY <1>1, <1>2 DEF Excused, e
    <2>2. Mends(Program(e, TRUE), a)
      BY <2>1, ProgramShape
    <2>3. Mending(t, a)'
      BY <1>1, <2>2 DEF Mending, InHand, e
    <2> QED BY <1>1, <1>2, <2>3 DEF Excused
  <1>3. CASE i # Current(t) /\ i \in settled.cut
    BY <1>1, <1>3 DEF Excused
  <1>4. CASE i # Current(t) /\ \E u \in Slots : Mending(u, a) /\ i = Current(u)
    <2>1. PICK u \in Slots : Mending(u, a) /\ i = Current(u) /\ u # t
      BY <1>4
    <2>2. Mending(u, a)' /\ i = Current(u)'
      BY <1>1, <2>1, MendingKept
    <2> QED BY <1>1, <2>2 DEF Excused
  <1> QED BY <1>2, <1>3, <1>4 DEF Excused

LEMMA ExcusedRun ==
  ASSUME Base, NEW t \in Slots, RunStatement(t), NEW i \in Indexes, NEW a \in Parties, Excused(i, a),
         ~ /\ polls[t].plan[1].who = a
           /\ \/ polls[t].plan[1].op = "floor"
              \/ polls[t].plan[1].op = "count" /\ polls[t].plan[1].kind = "DISPUTE_LOST"
  PROVE  Excused(i, a)'
  <1> DEFINE p == polls[t].plan
             new == polls'[t].plan
             st == polls[t].plan[1]
  <1>1. /\ UNCHANGED <<chain, settled>> /\ \A u \in Slots : u # t => polls'[u] = polls[u]
        /\ polls[t].pc = "run" /\ polls'[t].pc = "run" /\ polls'[t].todo = polls[t].todo
        /\ Rest(new, p) \/ Floored(new, p, st.who)
    BY RunEffect
  <1>2. p \in Seq(Statements) /\ p # <<>> /\ st \in Statements /\ st.who \in Parties
    BY AtStatement DEF RunStatement, Statements
  <1>3. Emitted' = Emitted
    BY <1>1, EmittedKept
  <1>4. \A u \in Slots : Mending(u, a) => Mending(u, a)' /\ Current(u)' = Current(u)
    <2> SUFFICES ASSUME NEW u \in Slots, Mending(u, a)
                 PROVE  Mending(u, a)' /\ Current(u)' = Current(u)
      OBVIOUS
    <2>1. CASE u # t
      BY <1>1, <2>1, MendingKept
    <2>2. CASE u = t
      <3>1. Mends(p, a)
        BY <1>1, <2>2 DEF Mending
      <3> HIDE DEF p, new
      <3>2. Mends(new, a)
        BY <1>1, <1>2, <3>1, RestStill DEF p
      <3> QED BY <1>1, <2>2, <3>2 DEF Mending, InHand, Current, new
    <2> QED BY <2>1, <2>2
  <1> QED BY <1>1, <1>3, <1>4 DEF Excused

LEMMA FloorRun ==
  ASSUME Base, BackedInv, FloorInv, NEW t \in Slots, RunStatement(t)
  PROVE  FloorInv'
  <1> SUFFICES ASSUME NEW a \in Parties, record'[a].score < 0
               PROVE  \E i \in Indexes : Excused(i, a)'
    BY DEF FloorInv
  <1> DEFINE p == polls[t].plan
             new == polls'[t].plan
             st == polls[t].plan[1]
             e == Script[Current(t)]
  <1>1. /\ p \in Seq(Statements) /\ p # <<>> /\ st \in Statements /\ st.who \in Parties /\ st.kind \in Kinds
        /\ Current(t) \in Emitted /\ Current(t) \in Indexes /\ e \in Events /\ polls[t].pc = "run"
    BY AtStatement DEF RunStatement, Statements
  <1>2. record \in [Parties -> Records] /\ record[a].score \in Int
    BY DEF Base, TypeOK, Records, NoRecord
  <1>3. ASSUME record[a].score < 0,
               ~(st.who = a /\ (st.op = "floor" \/ (st.op = "count" /\ st.kind = "DISPUTE_LOST")))
        PROVE  \E i \in Indexes : Excused(i, a)'
    <2>1. PICK i \in Indexes : Excused(i, a)
      BY <1>3 DEF FloorInv
    <2> QED BY <1>3, <2>1, ExcusedRun
  <1>4. CASE st.op = "count" /\ st.who = a
    <2>1. /\ HasRecord(a)
          /\ record' = [record EXCEPT ![a] = Counted(record[a], a, st.kind)]
          /\ Counted(record[a], a, st.kind).score < 0 /\ st.kind # "ESCROW_COMPLETED" => Floored(new, p, a)
      BY <1>4, RunEffect
    <2>2. record[a] \in [score : Int, completed : Nat, won : Nat]
      BY <2>1, HasRecordTyped DEF Base
    <2>3. /\ Counted(record[a], a, st.kind).score < 0 /\ Counted(record[a], a, st.kind).score \in Int
          /\ st.kind # "DISPUTE_LOST" => Counted(record[a], a, st.kind).score > record[a].score
      BY <1>1, <1>2, <2>1, <2>2, CountedTyped
    <2>4. CASE st.kind = "DISPUTE_LOST"
      <3>1. e.type = "dis_res" /\ a = Loser(e)
        <4>1. LossesOf(p, e) /\ 1 \in DOMAIN p
          BY <1>1 DEF BackedInv, PlanFits
        <4> QED BY <1>4, <2>4, <4>1 DEF LossesOf
      <3>2. Mends(new, a)
        <4>1. Floored(new, p, a)
          BY <2>1, <2>3, <2>4
        <4> HIDE DEF p, new
        <4> QED BY <1>1, <4>1, RestStill
      <3>3. /\ polls'[t].pc = "run" /\ Current(t)' = Current(t) /\ Emitted' = Emitted
        BY RunEffect, EmittedKept DEF Current
      <3>4. Mending(t, a)'
        BY <3>2, <3>3 DEF Mending, InHand
      <3> QED BY <1>1, <3>1, <3>3, <3>4 DEF Excused
    <2>5. CASE st.kind # "DISPUTE_LOST"
      <3>1. record[a].score < 0
        BY <1>2, <2>3, <2>5
      <3> QED BY <1>3, <1>4, <2>5, <3>1
    <2> QED BY <2>4, <2>5
  <1>5. CASE st.who # a
    <2>1. record'[a] = record[a]
      <3>1. CASE st.op = "count"
        <4>1. record' = [record EXCEPT ![st.who] = Counted(record[st.who], st.who, st.kind)]
          BY <3>1, RunEffect
        <4> QED BY <1>2, <1>5, <4>1
      <3>2. CASE st.op = "floor"
        <4>1. record' = [record EXCEPT ![st.who] = [record[st.who] EXCEPT !.score = 0]]
          BY <3>2, RunEffect
        <4> QED BY <1>2, <1>5, <4>1
      <3>3. CASE st.op = "score"
        <4>1. record' = [record EXCEPT ![st.who] =
                [(IF HasRecord(st.who) THEN record[st.who] ELSE NewRecord)
                   EXCEPT !.score = Script[Current(t)].amount]]
          BY <3>3, RunEffect
        <4> QED BY <1>2, <1>5, <4>1
      <3>4. CASE st.op \notin {"count", "floor", "score"}
        BY <3>4, RunEffect
      <3> QED BY <3>1, <3>2, <3>3, <3>4
    <2> QED BY <1>3, <1>5, <2>1
  <1>6. CASE st.who = a /\ st.op = "floor"
    <2>1. HasRecord(a) /\ record' = [record EXCEPT ![a] = [record[a] EXCEPT !.score = 0]]
      BY <1>6, RunEffect
    <2>2. record[a] \in [score : Int, completed : Nat, won : Nat]
      BY <2>1, HasRecordTyped DEF Base
    <2>3. record'[a].score = 0
      BY <1>2, <2>1, <2>2
    <2> QED BY <2>3
  <1>7. CASE st.who = a /\ st.op = "score"
    <2> DEFINE kept == IF HasRecord(a) THEN record[a] ELSE NewRecord
               up == [kept EXCEPT !.score = e.amount]
    <2>1. record' = [record EXCEPT ![a] = up]
      BY <1>7, RunEffect
    <2>2. kept \in [score : Int, completed : Nat, won : Nat]
      BY HasRecordTyped DEF Base, NewRecord
    <2>3. up.score = e.amount /\ e.amount \in Nat
      BY <1>1, <2>2 DEF Events
    <2>4. record'[a] = up
      BY <1>2, <2>1
    <2> HIDE DEF up, e
    <2> QED BY <2>3, <2>4
  <1>8. CASE st.who = a /\ st.op \notin {"count", "floor", "score"}
    <2>1. UNCHANGED record
      BY <1>8, RunEffect
    <2> QED BY <1>3, <1>8, <2>1
  <1> QED BY <1>4, <1>5, <1>6, <1>7, <1>8

LEMMA FloorStep == Base /\ BackedInv /\ FloorInv /\ [Next]_vars => FloorInv'
  <1> SUFFICES ASSUME Base, BackedInv, FloorInv, [Next]_vars PROVE FloorInv'
    OBVIOUS
  <1>1. CASE \E t \in Slots : Aside(t)
    BY <1>1, AsideQuiet, ExcusedAside, FloorKept
  <1>2. CASE \E t \in Slots : DispatchEvent(t)
    BY <1>2, DispatchEffect, ExcusedDispatch, FloorKept
  <1>3. CASE \E t \in Slots : RunStatement(t)
    BY <1>3, FloorRun
  <1>4. CASE CloseLedger \/ CrashIndexer \/ StartIndexer \/ UNCHANGED vars
    <2>1. UNCHANGED record
      BY <1>4 DEF CloseLedger, CrashIndexer, StartIndexer, vars
    <2> QED BY <1>4, <2>1, ExcusedProcess, FloorKept
  <1>5. CASE BeginRecalc \/ ReadHistory \/ WriteRecord
    <2>1. UNCHANGED <<chain, polls, settled>>
      BY <1>5 DEF BeginRecalc, ReadHistory, WriteRecord
    <2>2. \A i \in Indexes, a \in Parties : Excused(i, a) => Excused(i, a)'
      <3>1. \A u \in Slots, a \in Parties : Mending(u, a) => Mending(u, a)' /\ Current(u)' = Current(u)
        BY <2>1, MendingKept
      <3> QED BY <2>1, <3>1, EmittedKept DEF Excused
    <2>3. \A a \in Parties : record'[a].score < 0 => record[a].score < 0
      <3>1. recalc \in Recalcs /\ record \in [Parties -> Records]
        BY DEF Base, TypeOK
      <3>2. CASE WriteRecord
        <4> DEFINE new == Recomputed(recalc.who, recalc.seen)
        <4>1. record' = [record EXCEPT ![recalc.who] = new]
          BY <3>2 DEF WriteRecord
        <4>2. recalc.who \in Parties /\ new.score \in Nat
          BY <3>1, RecomputedTyped DEF Recalcs
        <4> HIDE DEF new
        <4>3. ~(new.score < 0)
          BY <4>2
        <4> QED BY <3>1, <4>1, <4>2, <4>3
      <3>3. CASE BeginRecalc \/ ReadHistory
        BY <3>3 DEF BeginRecalc, ReadHistory
      <3> QED BY <1>5, <3>2, <3>3
    <2> QED BY <2>2, <2>3 DEF FloorInv
  <1> QED BY <1>1, <1>2, <1>3, <1>4, <1>5 DEF Next, PollStep, Aside


-------------------------------------------------------------------------------
(***************************************************************************)
(* What a poll has begun to handle it counts, whatever fails on the way.   *)
(***************************************************************************)
Completed(a) == record[a].completed > 0
Won(a) == record[a].won > 0

Tells(t) ==
  polls[t].pc = "run" =>
    /\ Script[Current(t)].type = "funds_rel" =>
         \A a \in Parties : Completed(a) \/ Counts(polls[t].plan, a, "ESCROW_COMPLETED")
    /\ Script[Current(t)].type = "dis_res" =>
         \/ Won(Winner(Script[Current(t)]))
         \/ Counts(polls[t].plan, Winner(Script[Current(t)]), "DISPUTE_WON")

Told(i) ==
  /\ Script[i].type = "funds_rel" => \A a \in Parties : Completed(a)
  /\ Script[i].type = "dis_res" => Won(Winner(Script[i]))

CountedInv ==
  count.recalcs = 0 =>
    /\ recalc.pc = "idle"
    /\ \A t \in Slots : Tells(t)
    /\ \A i \in settled.handled : Told(i)

LEMMA CountedInit == Init => CountedInv
  <1> SUFFICES ASSUME Init PROVE CountedInv
    OBVIOUS
  <1>1. recalc.pc = "idle" /\ settled.handled = {}
    BY DEF Init, NoRecalc
  <1>2. \A t \in Slots : polls[t].pc = "idle"
    BY DEF Init, NoPoll
  <1> QED BY <1>1, <1>2 DEF CountedInv, Tells

LEMMA PartyOfEvent == \A i \in Indexes : Winner(Script[i]) \in Parties
  BY DEF Winner, Parties

(* The counts that are above zero stay above zero.  *)
StillCounted ==
  \A a \in Parties : (Completed(a) => Completed(a)') /\ (Won(a) => Won(a)')

LEMMA TellsKept ==
  ASSUME CountedInv, count.recalcs = 0, StillCounted, NEW u \in Slots,
         Base, polls'[u].pc = "run" => polls'[u] = polls[u]
  PROVE  Tells(u)'
  <1> SUFFICES ASSUME polls'[u].pc = "run" PROVE Tells(u)'
    BY DEF Tells
  <1>1. polls'[u] = polls[u] /\ Current(u)' = Current(u) /\ InHand(u) /\ polls[u].pc = "run"
    BY DEF Current, InHand
  <1>2. Tells(u)
    BY DEF CountedInv
  <1>3. Winner(Script[Current(u)]) \in Parties
    BY <1>1, InHandEmitted, PartyOfEvent
  <1> QED BY <1>1, <1>2, <1>3 DEF Tells, StillCounted

LEMMA ToldKept ==
  ASSUME StillCounted, NEW i \in Indexes, Told(i)
  PROVE  Told(i)'
  BY PartyOfEvent DEF Told, StillCounted

(* Steps that leave the records alone.  *)
LEMMA CountedRest ==
  ASSUME Base, CountedInv, UNCHANGED <<record, recalc>>, count'.recalcs = count.recalcs,
         \A t \in Slots : polls'[t].pc = "run" => polls'[t] = polls[t],
         count.recalcs = 0 => \A i \in settled'.handled : Told(i)
  PROVE  CountedInv'
  <1>1. StillCounted
    BY DEF StillCounted, Completed, Won
  <1>2. \A i : Told(i) => Told(i)'
    BY DEF Told, Completed, Won
  <1>3. count.recalcs = 0 => \A t \in Slots : Tells(t)'
    BY <1>1, TellsKept
  <1> QED BY <1>2, <1>3 DEF CountedInv

LEMMA CountedAside ==
  ASSUME Base, CountedInv, NEW t \in Slots, Aside(t)
  PROVE  CountedInv'
  <1>1. /\ UNCHANGED <<record, recalc>> /\ count'.recalcs = count.recalcs
        /\ \A u \in Slots : polls'[u].pc = "run" => polls'[u] = polls[u]
    BY AsideQuiet
  <1>2. ASSUME count.recalcs = 0, NEW i \in settled'.handled PROVE Told(i)
    <2>1. CASE i \in settled.handled
      BY <1>2, <2>1 DEF CountedInv
    <2>2. CASE i \notin settled.handled
      <3>1. FinishEvent(t)
        BY <1>2, <2>2 DEF Aside, StartPoll, GetContractEvents, GetLatestLedger, FinishEvent, RetryEvent,
                          GiveUp, AdvanceCursor, PersistCursor, FailPoll, Base, TypeOK
      <3>2. i = Current(t) /\ polls[t].pc = "run" /\ polls[t].plan = <<>>
        BY <1>2, <2>2, <3>1 DEF FinishEvent, At, Base, TypeOK
      <3>3. Tells(t)
        BY <1>2 DEF CountedInv
      <3>4. \A a, kind : ~Counts(<<>>, a, kind)
        BY DEF Counts
      <3> QED BY <3>2, <3>3, <3>4 DEF Tells, Told
    <2> QED BY <2>1, <2>2
  <1> QED BY <1>1, <1>2, CountedRest

LEMMA CountedDispatch ==
  ASSUME Base, CountedInv, NEW t \in Slots, DispatchEvent(t)
  PROVE  CountedInv'
  <1> SUFFICES ASSUME count.recalcs = 0
               PROVE  /\ recalc'.pc = "idle"
                      /\ \A u \in Slots : Tells(u)'
                      /\ \A i \in settled'.handled : Told(i)'
    BY DispatchEffect DEF CountedInv
  <1>1. UNCHANGED <<record, recalc>> /\ settled'.handled = settled.handled
    BY DispatchEffect DEF Base, TypeOK
  <1>2. StillCounted
    BY <1>1 DEF StillCounted, Completed, Won
  <1>3. Tells(t)'
    <2> DEFINE e == Script[Current(t)]
               plan == polls'[t].plan
    <2>1. plan = Program(e, TRUE) /\ e \in Events /\ Current(t)' = Current(t)
      BY DispatchEffect DEF Current
    <2> HIDE DEF e, plan
    <2>2. /\ e.type = "funds_rel" => \A a \in Parties : Counts(plan, a, "ESCROW_COMPLETED")
          /\ e.type = "dis_res" => Counts(plan, Winner(e), "DISPUTE_WON")
      BY <2>1, ProgramShape
    <2> QED BY <2>1, <2>2 DEF Tells, e, plan
  <1>4. \A u \in Slots : u # t => Tells(u)'
    BY <1>2, DispatchEffect, TellsKept
  <1>5. \A i \in settled'.handled : Told(i)'
    BY <1>1 DEF CountedInv, Told, Completed, Won
  <1> QED BY <1>1, <1>3, <1>4, <1>5 DEF CountedInv

LEMMA CountedRun ==
  ASSUME Base, CountedInv, NEW t \in Slots, RunStatement(t)
  PROVE  CountedInv'
  <1> SUFFICES ASSUME count.recalcs = 0
               PROVE  /\ recalc'.pc = "idle"
                      /\ \A u \in Slots : Tells(u)'
                      /\ \A i \in settled'.handled : Told(i)'
    BY RunEffect DEF CountedInv
  <1> DEFINE p == polls[t].plan
             new == polls'[t].plan
             st == polls[t].plan[1]
             e == Script[Current(t)]
  <1>1. /\ UNCHANGED <<recalc, settled>> /\ \A u \in Slots : u # t => polls'[u] = polls[u]
        /\ polls[t].pc = "run" /\ polls'[t].todo = polls[t].todo
        /\ Rest(new, p) \/ Floored(new, p, st.who)
    BY RunEffect
  <1>2. p \in Seq(Statements) /\ p # <<>> /\ st \in Statements /\ st.who \in Parties /\ e \in Events
    BY AtStatement DEF RunStatement, Statements
  <1>3. ASSUME NEW a \in Parties
        PROVE  /\ Completed(a) => Completed(a)'
               /\ Won(a) => Won(a)'
               /\ st = Statement("count", a, "ESCROW_COMPLETED") => Completed(a)'
               /\ st = Statement("count", a, "DISPUTE_WON") => Won(a)'
    <2>1. CASE st.op = "count" /\ st.who = a
      <3>1. /\ record[a].completed \in Nat /\ record[a].won \in Nat
            /\ st.kind = "ESCROW_COMPLETED" => record'[a].completed = record[a].completed + 1
            /\ st.kind # "ESCROW_COMPLETED" => record'[a].completed = record[a].completed
            /\ st.kind = "DISPUTE_WON" => record'[a].won = record[a].won + 1
            /\ st.kind # "DISPUTE_WON" => record'[a].won = record[a].won
        BY <2>1, RecordRun
      <3> HIDE DEF p, new, e
      <3> QED BY <3>1 DEF Completed, Won, Statement
    <2>2. CASE ~(st.op = "count" /\ st.who = a)
      <3>1. /\ \/ record'[a].completed = record[a].completed
               \/ (record'[a].completed = 0 /\ record[a].completed = -1)
            /\ \/ record'[a].won = record[a].won
               \/ (record'[a].won = 0 /\ record[a].won = -1)
        BY <2>2, RecordRun
      <3>2. st # Statement("count", a, "ESCROW_COMPLETED") /\ st # Statement("count", a, "DISPUTE_WON")
        BY <2>2 DEF Statement
      <3>3. ~(-1 > 0)
        OBVIOUS
      <3> HIDE DEF p, new, st, e
      <3> QED BY <3>1, <3>2, <3>3 DEF Completed, Won
    <2> QED BY <2>1, <2>2
  <1>4. StillCounted
    BY <1>3 DEF StillCounted
  <1>5. Tells(t)'
    <2>1. Current(t)' = Current(t) /\ Winner(e) \in Parties /\ Tells(t)
      BY <1>1 DEF Current, Winner, Parties, CountedInv
    <2> HIDE DEF p, new, e
    <2>2. \A a, kind : Counts(p, a, kind) /\ st # Statement("count", a, kind) => Counts(new, a, kind)
      BY <1>1, <1>2, RestStill DEF p
    <2>3. /\ e.type = "funds_rel" => \A a \in Parties : Completed(a) \/ Counts(p, a, "ESCROW_COMPLETED")
          /\ e.type = "dis_res" => Won(Winner(e)) \/ Counts(p, Winner(e), "DISPUTE_WON")
      BY <1>1, <2>1 DEF Tells, p, e
    <2>4. /\ e.type = "funds_rel" => \A a \in Parties : Completed(a)' \/ Counts(new, a, "ESCROW_COMPLETED")
          /\ e.type = "dis_res" => Won(Winner(e))' \/ Counts(new, Winner(e), "DISPUTE_WON")
      <3> HIDE DEF st
      <3>1. ASSUME e.type = "funds_rel", NEW a \in Parties
            PROVE  Completed(a)' \/ Counts(new, a, "ESCROW_COMPLETED")
        <4>1. Completed(a) => Completed(a)'
          BY <1>3
        <4>2. st = Statement("count", a, "ESCROW_COMPLETED") => Completed(a)'
          BY <1>3
        <4>3. \/ Counts(new, a, "ESCROW_COMPLETED")
              \/ ~Counts(p, a, "ESCROW_COMPLETED")
              \/ st = Statement("count", a, "ESCROW_COMPLETED")
          BY <2>2
        <4>4. Completed(a) \/ Counts(p, a, "ESCROW_COMPLETED")
          BY <2>3, <3>1
        <4> QED BY <4>1, <4>2, <4>3, <4>4
      <3>2. ASSUME e.type = "dis_res"
            PROVE  Won(Winner(e))' \/ Counts(new, Winner(e), "DISPUTE_WON")
        <4>1. PICK a \in Parties : a = Winner(e)
          BY <2>1
        <4>2. Won(a) => Won(a)'
          BY <1>3
        <4>3. st = Statement("count", a, "DISPUTE_WON") => Won(a)'
          BY <1>3
        <4>4. \/ Counts(new, a, "DISPUTE_WON")
              \/ ~Counts(p, a, "DISPUTE_WON")
              \/ st = Statement("count", a, "DISPUTE_WON")
          BY <2>2
        <4>5. Won(a) \/ Counts(p, a, "DISPUTE_WON")
          BY <2>3, <3>2, <4>1
        <4>6. Won(Winner(e))' = Won(a)'
          <5>1. Winner(e)' = a
            BY <2>1, <4>1 DEF e, Winner
          <5> QED BY <4>1, <5>1 DEF Won
        <4> QED BY <4>1, <4>2, <4>3, <4>4, <4>5, <4>6
      <3> QED BY <3>1, <3>2
    <2> QED BY <2>1, <2>4 DEF Tells, new, e
  <1>6. \A u \in Slots : u # t => Tells(u)'
    BY <1>1, <1>4, TellsKept
  <1>7. \A i \in settled'.handled : Told(i)'
    <2>1. settled.handled \subseteq Indexes
      BY DEF Base, TypeOK
    <2> QED BY <1>1, <1>4, <2>1, ToldKept DEF CountedInv
  <1> QED BY <1>1, <1>5, <1>6, <1>7 DEF CountedInv

LEMMA CountedStep == Base /\ CountedInv /\ [Next]_vars => CountedInv'
  <1> SUFFICES ASSUME Base, CountedInv, [Next]_vars PROVE CountedInv'
    OBVIOUS
  <1>1. CASE \E t \in Slots : Aside(t)
    BY <1>1, CountedAside
  <1>2. CASE \E t \in Slots : DispatchEvent(t)
    BY <1>2, CountedDispatch
  <1>3. CASE \E t \in Slots : RunStatement(t)
    BY <1>3, CountedRun
  <1>4. CASE CloseLedger \/ CrashIndexer \/ StartIndexer \/ UNCHANGED vars
    <2>1. UNCHANGED <<record, recalc>>
      BY <1>4 DEF CloseLedger, CrashIndexer, StartIndexer, vars
    <2>2. count'.recalcs = count.recalcs
      BY <1>4, CountTyped DEF CloseLedger, CrashIndexer, StartIndexer, vars, Base
    <2>3. settled'.handled = settled.handled
      BY <1>4 DEF CloseLedger, CrashIndexer, StartIndexer, vars, Base, TypeOK
    <2>4. \A u \in Slots : polls'[u].pc = "run" => polls'[u] = polls[u]
      BY <1>4, NoPollIsPoll DEF CloseLedger, CrashIndexer, StartIndexer, vars
    <2>5. count.recalcs = 0 => \A i \in settled'.handled : Told(i)
      BY <2>3 DEF CountedInv
    <2> QED BY <2>1, <2>2, <2>4, <2>5, CountedRest
  <1>5. CASE BeginRecalc
    <2>1. count'.recalcs = count.recalcs + 1 /\ count.recalcs \in Nat
      BY <1>5 DEF BeginRecalc, Occurs, Base, TypeOK
    <2>2. count'.recalcs # 0
      BY <2>1
    <2> QED BY <2>2 DEF CountedInv
  <1>6. CASE ReadHistory \/ WriteRecord
    <2>1. recalc.pc # "idle" /\ UNCHANGED count
      BY <1>6 DEF ReadHistory, WriteRecord
    <2> QED BY <2>1 DEF CountedInv
  <1> QED BY <1>1, <1>2, <1>3, <1>4, <1>5, <1>6 DEF Next, PollStep, Aside

-------------------------------------------------------------------------------
(***************************************************************************)
(* The theorems.                                                           *)
(***************************************************************************)
IInv == Base /\ BackedInv /\ FloorInv /\ CountedInv

(* The invariant that the theorems below rest on, for any number of polls.  *)
THEOREM ReputationInvariant == Spec => []IInv
  <1>1. Init => IInv
    BY BaseInit, BackedInit, FloorInit, CountedInit DEF IInv
  <1>2. IInv /\ [Next]_vars => IInv'
    BY BaseStep, BackedStep, FloorStep, CountedStep DEF IInv
  <1> QED BY <1>1, <1>2, PTL DEF Spec

(* Every variable stays in its type: the handlers write only statuses that    *)
(* the enums of the schema have.                                              *)
THEOREM ReputationTypeCorrect == Spec => []TypeOK
  <1>1. IInv => TypeOK
    BY DEF IInv, Base
  <1> QED BY <1>1, ReputationInvariant, PTL

(* What a record counts has its row in the history, and a score is below zero *)
(* only while a loss is being counted or after a count was cut short.         *)
THEOREM RecordsAreHonest == Spec => []RecordHonest
  <1>1. IInv => CountsBacked
    BY DEF IInv, BackedInv
  <1>2. IInv => FloorHeld
    BY DEF IInv, FloorInv, Excused, Mending, FloorHeld
  <1>3. IInv => RecordHonest
    BY <1>1, <1>2 DEF RecordHonest
  <1> QED BY <1>3, ReputationInvariant, PTL

(* Without a recalculation, a handled release and a handled dispute are       *)
(* counted, whatever failed and was tried again on the way.                   *)
THEOREM NothingIsForgotten == Spec => []NoneForgotten
  <1>1. IInv => NoneForgotten
    BY DEF IInv, CountedInv, Told, Completed, Won, NoneForgotten
  <1> QED BY <1>1, ReputationInvariant, PTL


===============================================================================
