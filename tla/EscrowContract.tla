---------------------------- MODULE EscrowContract ----------------------------
(***************************************************************************)
(* The escrow contract seen by one escrow: the entry points of             *)
(* EscrowMilestones and EscrowDisputes, the admin's pause and freeze,      *)
(* storage rent, expiry, the platform fee, the advance of the ledger, and  *)
(* the properties of the whole.                                            *)
(***************************************************************************)
EXTENDS EscrowDisputes

CONSTANTS
  CompletionFee,       \* platform_fee::calculate_fee(total)
  TopUps,              \* bound: numbers of periods given to top_up_rent
  MaxRent              \* bound: no top-up takes the rent reserve beyond this

ASSUME ServiceAssumption ==
  CompletionFee \in Nat /\ TopUps \subseteq Nat \ {0} /\ MaxRent \in Nat

(* Ledgers close: the sequence and the timestamp advance together. *)
Tick ==
  /\ seq < MaxSeq
  /\ seq' = seq + 1
  /\ UNCHANGED <<paused, frozen, status, listed, money, counters, ms, terms,
                 dispute, records, rent_balance, last_rent, vault, paid>>

escrowVars == <<status, listed, money, counters, ms, terms, dispute, records, paid>>

(* pause and unpause *)
SetPaused(p) ==
  /\ paused # p /\ paused' = p
  /\ UNCHANGED <<seq, frozen, escrowVars, rent_balance, last_rent, vault>>

(* freeze_escrow and unfreeze_escrow, also while the contract is paused *)
SetFrozen(f) ==
  /\ Accessible
  /\ frozen # f /\ frozen' = f
  /\ Books(0, 0)
  /\ UNCHANGED <<seq, paused, escrowVars>>

(***************************************************************************)
(* Storage rent.                                                           *)
(***************************************************************************)

(* The rent a period at a time: collect_rent, by anyone, paused or not, and *)
(* every read that loads the escrow with rent, get_escrow_meta for one.     *)
CollectRent ==
  /\ Accessible
  /\ Books(0, 0)
  /\ UNCHANGED <<world, escrowVars>>

(* mutant: the rent that is left stays in the contract *)
ExpireEscrowKeepingRent ==
  /\ Stored /\ RentExpired
  /\ CanPay(Positive(remaining))
  /\ vault' = vault - Positive(remaining)
  /\ status' = "Removed" /\ rent_balance' = 0 /\ remaining' = 0
  /\ milestone_count' = 0 /\ ms' = [m \in MilestoneIds |-> NoMilestone]
  /\ request' = NoRequest /\ slash' = NoSlash
  /\ UNCHANGED <<world, listed, total, allocated, approved_count, released_count,
                 submitted_count, terms, dispute, fee_collected, last_rent, paid>>

(* collect_rent past the balance: the client is refunded, the escrow erased. *)
ExpireEscrow ==
  /\ Stored /\ RentExpired
  /\ CanPay(rent_balance + Positive(remaining))
  /\ vault' = vault - rent_balance - Positive(remaining)
  /\ status' = "Removed" /\ rent_balance' = 0 /\ remaining' = 0
  /\ milestone_count' = 0 /\ ms' = [m \in MilestoneIds |-> NoMilestone]
  /\ request' = NoRequest /\ slash' = NoSlash
  /\ UNCHANGED <<world, listed, total, allocated, approved_count, released_count,
                 submitted_count, terms, dispute, fee_collected, last_rent, paid>>

TopUpRent(periods) ==
  /\ Live
  /\ rent_balance + periods * RentRate <= MaxRent
  /\ Books(periods * RentRate, 0)
  /\ UNCHANGED <<world, escrowVars>>

WithdrawRentOverpayment(amount) ==
  /\ Live
  /\ amount <= rent_balance - RentOwed - Reserve(Entries)
  /\ CanPay(RentOwed + amount)
  /\ Books(-amount, 0)
  /\ UNCHANGED <<world, escrowVars>>

(***************************************************************************)
(* trigger_expiry, by anyone, without settling the rent: the index keeps   *)
(* its entry, and approved milestones are not looked at.                   *)
(***************************************************************************)
TriggerExpiry ==
  /\ ~paused /\ status = "Active"
  /\ deadline # NoTime /\ Now > deadline
  /\ status' = "Cancelled" /\ remaining' = 0
  /\ BooksUnsettled(Positive(remaining))
  /\ UNCHANGED <<world, listed, total, allocated, counters, ms, terms, dispute,
                 records, paid>>

(* collect_escrow_fee: out of the contract, not out of the remaining balance. *)
CollectEscrowFee ==
  /\ ~paused /\ status \in {"Completed", "Cancelled"} /\ ~fee_collected
  /\ fee_collected' = TRUE
  /\ BooksUnsettled(CompletionFee)
  /\ UNCHANGED <<world, status, listed, money, counters, ms, terms, dispute,
                 request, slash, paid>>

AdminStep ==
  \/ \E p \in BOOLEAN : SetPaused(p)
  \/ \E f \in BOOLEAN : SetFrozen(f)

RentStep ==
  \/ CollectRent
  \/ ExpireEscrow
  \/ \E n \in TopUps : TopUpRent(n)
  \/ \E a \in Amounts : WithdrawRentOverpayment(a)

ClosingStep == TriggerExpiry \/ CollectEscrowFee

Next == \/ Tick
        \/ MilestoneStep
        \/ DisputeStep \/ CancellationStep \/ SlashStep
        \/ AdminStep \/ RentStep \/ ClosingStep

Spec == Init /\ [][Next]_vars
==============================================================================
