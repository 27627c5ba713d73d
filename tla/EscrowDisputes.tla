---------------------------- MODULE EscrowDisputes ----------------------------
(***************************************************************************)
(* Disputes, cancellation by request and slashes:                          *)
(* src/contracts/escrow_contract/src/lib.rs from raise_dispute to          *)
(* oracle_resolve_dispute and from request_cancellation to                 *)
(* resolve_slash_dispute.                                                  *)
(*                                                                         *)
(* The platform fee of settle_completion_fee is zero throughout: no        *)
(* handler stores an EscrowFeeSnapshot that is not collected.              *)
(***************************************************************************)
EXTENDS EscrowMilestones

CONSTANTS
  DisputeTimeout,      \* dispute_timeout_ledger, NoTime for None
  DisputeCooldown,     \* DISPUTE_COOLDOWN_LEDGERS
  ArbiterFee,          \* total * arbiter_fee_bps / 10000, 0 without an arbiter
  Awards,              \* bound: amounts the arbiter awards to the client
  FairArbiter,         \* the arbiter awards no more than remains, nor less than 0
  CancellationPeriod,  \* CANCELLATION_DISPUTE_PERIOD
  SlashPeriod,         \* SLASH_DISPUTE_PERIOD
  SlashPercent         \* SLASH_PERCENTAGE

ASSUME DisputeAssumption ==
  /\ DisputeTimeout \in OptionalTime /\ DisputeCooldown \in Nat
  /\ ArbiterFee \in Nat /\ Awards \subseteq Int /\ FairArbiter \in BOOLEAN
  /\ CancellationPeriod \in Nat /\ SlashPeriod \in Nat /\ SlashPercent \in 0 .. 100

(* i128 division truncates toward zero. *)
Quotient(a, b) == IF a >= 0 THEN a \div b ELSE -((-a) \div b)

(***************************************************************************)
(* raise_dispute, on the escrow or on one milestone that is still open.    *)
(***************************************************************************)
Disputing ==
  /\ LiveUnfrozen /\ status = "Active"
  /\ status' = "Disputed" /\ Relist("Active", "Disputed")
  /\ dispute_started' = seq /\ dispute_start' = Now
  /\ Books(0, 0)
  /\ UNCHANGED <<world, money, milestone_count, approved_count, released_count,
                 terms, records, paid>>

RaiseDispute == Disputing /\ UNCHANGED <<ms, submitted_count>>

(* A milestone that is neither pending nor submitted is left as it is. *)
RaiseMilestoneDispute(m) ==
  /\ ms[m].status \in {"Pending", "Submitted"}
  /\ ms' = Setting(m, "Disputed")
  /\ submitted_count' = IF ms[m].status = "Submitted"
                        THEN Positive(submitted_count - 1) ELSE submitted_count
  /\ Disputing

(* mutant: the freelancer's share is taken of the total *)
SettleOfTotal(client_amount) ==
  /\ remaining' = 0
  /\ status' = "Completed" /\ Relist("Disputed", "Completed")
  /\ Books(0, ArbiterFee + Positive(client_amount) + Positive(total - client_amount))
  /\ UNCHANGED <<world, total, allocated, counters, ms, terms, dispute_start,
                 records, paid>>

(* The end of a dispute: client_amount to the client, the rest to the    *)
(* freelancer, and the arbiter's fee on top of them.  Only a positive    *)
(* amount is paid.                                                       *)
Settle(client_amount) ==
  /\ remaining' = 0
  /\ status' = "Completed" /\ Relist("Disputed", "Completed")
  /\ Books(0, ArbiterFee + Positive(client_amount) + Positive(remaining - client_amount))
  /\ UNCHANGED <<world, total, allocated, counters, ms, terms, dispute_start,
                 records, paid>>

(* mutant: the timeout can be claimed in one ledger only *)
ClaimTimeoutAtOnce ==
  /\ LiveUnfrozen /\ status = "Disputed"
  /\ DisputeTimeout # NoTime /\ dispute_started # NoTime
  /\ seq = dispute_started + DisputeTimeout
  /\ ArbiterFee <= total
  /\ Settle(Quotient(remaining, 2))
  /\ dispute_started' = NoTime

ClaimDisputeTimeout ==
  /\ LiveUnfrozen /\ status = "Disputed"
  /\ DisputeTimeout # NoTime /\ dispute_started # NoTime
  /\ seq >= dispute_started + DisputeTimeout
  /\ ArbiterFee <= total
  /\ Settle(Quotient(remaining, 2))
  /\ dispute_started' = NoTime

(* The cooldown adds a number of ledgers to a timestamp and compares the *)
(* sum with the ledger sequence.                                         *)
CooldownOver == seq >= dispute_start + DisputeCooldown

(* The award is not checked to be between zero and the balance. *)
ResolveDispute(client_amount) ==
  /\ LiveUnfrozen /\ status = "Disputed"
  /\ dispute_start # NoTime /\ CooldownOver
  /\ ArbiterFee <= total
  /\ Settle(client_amount)
  /\ dispute_started' = NoTime

(* The grace period is an argument of the caller's, zero if they like; *)
(* the share is a signed percentage, in half shares here.              *)
OracleResolveDispute(halves) ==
  /\ Live /\ status = "Disputed"
  /\ dispute_start # NoTime
  /\ Settle(Quotient(remaining * halves, 2))
  /\ UNCHANGED dispute_started

(***************************************************************************)
(* Cancellation by request.                                                *)
(***************************************************************************)
RequestCancellation(party) ==
  /\ Live /\ status = "Active" /\ ~Requested
  /\ request' = [requester |-> party, dispute_deadline |-> Now + CancellationPeriod,
                 disputed |-> FALSE, approved |-> FALSE]
  /\ status' = "CancellationPending" /\ Relist("Active", "CancellationPending")
  /\ Books(Reserve(1), 0)
  /\ UNCHANGED <<world, money, counters, ms, terms, dispute, slash, fee_collected, paid>>

(* client_approve_cancellation, by the party that did not request it. *)
ApproveCancellation ==
  /\ Live /\ Requested
  /\ request' = [request EXCEPT !.approved = TRUE]
  /\ Books(0, 0)
  /\ UNCHANGED <<world, status, listed, money, counters, ms, terms, dispute,
                 slash, fee_collected, paid>>

(* mutant: an approval is needed even after the deadline *)
CancellationDueApproved == ~request.disputed /\ request.approved

CancellationDue == ~request.disputed /\ (request.approved \/ Now >= request.dispute_deadline)

(* The status is not looked at; the slash stays in the contract. *)
ExecuteCancellation ==
  LET slashed == Quotient(remaining * SlashPercent, 100)
  IN  /\ Live /\ Requested /\ CancellationDue
      /\ ~Slashed
      /\ slash' = [slashed_user |-> request.requester, amount |-> slashed,
                   slashed_at |-> Now, disputed |-> FALSE]
      /\ request' = NoRequest /\ fee_collected' = FALSE
      /\ remaining' = 0
      /\ status' = "Cancelled" /\ Relist("CancellationPending", "Cancelled")
      /\ Books(0, Positive(remaining - slashed))
      /\ UNCHANGED <<world, total, allocated, counters, ms, terms, dispute, paid>>

(* By anyone but the requester, whatever the status: the dispute's own *)
(* fields are not set.                                                 *)
DisputeCancellation ==
  /\ Live /\ Requested /\ ~request.disputed /\ Now < request.dispute_deadline
  /\ request' = [request EXCEPT !.disputed = TRUE]
  /\ status' = "Disputed" /\ Relist("CancellationPending", "Disputed")
  /\ Books(0, 0)
  /\ UNCHANGED <<world, money, counters, ms, terms, dispute, slash, fee_collected, paid>>

(***************************************************************************)
(* The slash held from a cancellation.                                     *)
(***************************************************************************)
SlashDisputable == Now < slash.slashed_at + SlashPeriod

(* A transfer of a negative amount fails in the token contract. *)
FinalizeSlash ==
  /\ ~paused /\ Stored /\ Slashed
  /\ ~slash.disputed /\ ~SlashDisputable
  /\ slash.amount >= 0
  /\ slash' = NoSlash
  /\ BooksUnsettled(slash.amount)
  /\ UNCHANGED <<world, status, listed, money, counters, ms, terms, dispute,
                 request, fee_collected, paid>>

DisputeSlash ==
  /\ Live /\ Slashed /\ ~slash.disputed /\ SlashDisputable
  /\ slash' = [slash EXCEPT !.disputed = TRUE]
  /\ Books(0, 0)
  /\ UNCHANGED <<world, status, listed, money, counters, ms, terms, dispute,
                 request, fee_collected, paid>>

(* Upheld, nothing moves and the record that held the amount is dropped. *)
ResolveSlashDispute(upheld) ==
  /\ Live /\ Slashed /\ slash.disputed
  /\ ~upheld => slash.amount >= 0
  /\ slash' = NoSlash
  /\ Books(0, IF upheld THEN 0 ELSE slash.amount)
  /\ UNCHANGED <<world, status, listed, money, counters, ms, terms, dispute,
                 request, fee_collected, paid>>

DisputeStep ==
  \/ RaiseDispute
  \/ \E m \in MilestoneIds : RaiseMilestoneDispute(m)
  \/ ClaimDisputeTimeout
  \/ \E award \in Awards :
        (FairArbiter => award \in 0 .. remaining) /\ ResolveDispute(award)
  \/ \E halves \in 0 .. 2 : OracleResolveDispute(halves)

CancellationStep ==
  \/ \E party \in Parties : RequestCancellation(party)
  \/ ApproveCancellation
  \/ ExecuteCancellation
  \/ DisputeCancellation

SlashStep ==
  \/ FinalizeSlash
  \/ DisputeSlash
  \/ \E upheld \in BOOLEAN : ResolveSlashDispute(upheld)
==============================================================================
