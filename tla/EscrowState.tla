----------------------------- MODULE EscrowState -----------------------------
(***************************************************************************)
(* The stored state of one escrow of the Soroban escrow contract           *)
(* (src/contracts/escrow_contract/src/lib.rs): its EscrowMeta, its         *)
(* milestones, its cancellation request and slash record, its rent, and    *)
(* the tokens the contract holds for it.  EscrowMilestones,                *)
(* EscrowDisputes and EscrowContract add the entry points.                 *)
(*                                                                         *)
(* A Soroban call is atomic: a handler that returns Err or panics leaves   *)
(* no trace.  An action is therefore the Ok path of one entry point, and   *)
(* the early returns of that entry point are its guard.                    *)
(***************************************************************************)
EXTENDS Integers, FiniteSets, Sequences, Sums

CONSTANTS
  MaxMilestones,      \* the configured cap on milestones
  IdBound,            \* bound: no more milestone ids than this are explored
  Amounts,            \* bound: milestone, swap and withdrawal amounts tried
  Totals,             \* bound: escrow totals tried
  Deadlines,          \* bound: values of the optional deadline, NoTime included
  LockTimes,          \* bound: values of the optional lock_time
  Timelocks,          \* bound: values of the optional timelock duration
  Approvers,          \* who may approve a milestone
  Weight,             \* [Approvers -> Nat]: the multisig weights
  Threshold,          \* the multisig threshold, 0 in legacy mode
  GenesisTime,        \* ledger timestamp at ledger sequence 0
  MaxSeq,             \* bound: last ledger sequence explored
  RentPeriod, RentPerEntry, ReservePeriods,
  OtherFunds          \* tokens the contract holds for other escrows

NoTime == -1          \* Option::None of a time, a ledger or a duration
OptionalTime == Nat \cup {NoTime}
MilestoneIds == 0 .. (IdBound - 1)

ASSUME BoundsAssumption ==
  /\ IdBound \in Nat \ {0} /\ MaxMilestones \in 1 .. IdBound
  /\ MaxSeq \in Nat /\ GenesisTime \in Nat /\ OtherFunds \in Nat
ASSUME InputsAssumption ==
  /\ Amounts \subseteq Nat \ {0} /\ Totals \subseteq Nat \ {0}
  /\ Deadlines \subseteq OptionalTime /\ LockTimes \subseteq OptionalTime
  /\ Timelocks \subseteq (Nat \ {0}) \cup {NoTime}
ASSUME RentAssumption ==
  /\ RentPeriod \in Nat \ {0} /\ RentPerEntry \in Nat \ {0}
  /\ ReservePeriods \in Nat \ {0}
(* validate_multisig_config, or the legacy mode of a zero threshold *)
ASSUME PolicyAssumption ==
  /\ Weight \in [Approvers -> Nat] /\ Threshold \in Nat
  /\ Threshold > 0 => \A s \in Approvers : Weight[s] > 0

VARIABLES
  seq,               \* ledger sequence number
  paused,            \* the contract is paused
  frozen,            \* EscrowFrozen
  status,            \* EscrowStatus, "None" before creation, "Removed" once expired
  listed,            \* the statuses whose EscrowsByStatus index holds the escrow
  total, allocated, remaining,
  milestone_count, approved_count, released_count, submitted_count,
  ms,                \* the milestones, NoMilestone where there is none
  deadline, lock_time,
  timelock,          \* end of the timelock (start_ledger + duration_ledger)
  release_time,      \* TimelockReleaseTime
  dispute_started,   \* dispute_started_ledger: a ledger sequence
  dispute_start,     \* dispute_start_ledger: a ledger timestamp
  request,           \* CancellationRequest
  slash,             \* SlashRecord
  rent_balance, last_rent,
  fee_collected,     \* EscrowFeeSnapshot.collected
  vault,             \* tokens held for this escrow: deposits less payments
  paid               \* history: what each milestone has paid the freelancer

world    == <<seq, paused, frozen>>
money    == <<total, allocated, remaining>>
counters == <<milestone_count, approved_count, released_count, submitted_count>>
terms    == <<deadline, lock_time, timelock, release_time>>
dispute  == <<dispute_started, dispute_start>>
records  == <<request, slash, fee_collected>>
vars == <<world, status, listed, money, counters, ms, terms, dispute, records,
          rent_balance, last_rent, vault, paid>>

Statuses == {"Active", "Completed", "Disputed", "Cancelled", "CancellationPending"}
MilestoneStatuses ==
  {"Pending", "Submitted", "Approved", "Rejected", "Released", "Disputed"}

Milestone == [status : MilestoneStatuses \cup {"None"}, amount : Nat,
              approvals : Seq(Approvers), priced : BOOLEAN]
NoMilestone == [status |-> "None", amount |-> 0, approvals |-> <<>>, priced |-> FALSE]
NewMilestone(amount, priced) ==
  [status |-> "Pending", amount |-> amount, approvals |-> <<>>, priced |-> priced]

Parties == {"client", "freelancer"}
CancellationRequest == [requester : Parties \cup {"none"}, dispute_deadline : Nat,
                        disputed : BOOLEAN, approved : BOOLEAN]
NoRequest == [requester |-> "none", dispute_deadline |-> 0,
              disputed |-> FALSE, approved |-> FALSE]
SlashRecord == [slashed_user : Parties \cup {"none"}, amount : Int,
                slashed_at : Nat, disputed : BOOLEAN]
NoSlash == [slashed_user |-> "none", amount |-> 0, slashed_at |-> 0, disputed |-> FALSE]

TypeOK ==
  /\ seq \in Nat /\ paused \in BOOLEAN /\ frozen \in BOOLEAN
  /\ status \in Statuses \cup {"None", "Removed"}
  /\ listed \subseteq Statuses
  /\ total \in Nat /\ allocated \in Nat /\ remaining \in Int
  /\ milestone_count \in 0 .. IdBound
  /\ approved_count \in Nat /\ released_count \in Nat /\ submitted_count \in Nat
  /\ ms \in [MilestoneIds -> Milestone]
  /\ deadline \in OptionalTime /\ lock_time \in OptionalTime
  /\ timelock \in OptionalTime /\ release_time \in OptionalTime
  /\ dispute_started \in OptionalTime /\ dispute_start \in OptionalTime
  /\ request \in CancellationRequest /\ slash \in SlashRecord
  /\ fee_collected \in BOOLEAN
  /\ rent_balance \in Int /\ last_rent \in Nat /\ vault \in Int
  /\ paid \in [MilestoneIds -> Nat]

(***************************************************************************)
(* Time and rent.                                                          *)
(***************************************************************************)
Now == GenesisTime + seq

Requested == request.requester # "none"
Slashed   == slash.slashed_user # "none"

(* Storage entries that pay rent; the recurring schedule is not modelled. *)
Entries == 1 + milestone_count + (IF Requested THEN 1 ELSE 0) + (IF Slashed THEN 1 ELSE 0)
RentRate == Entries * RentPerEntry
Reserve(entries) == entries * RentPerEntry * ReservePeriods

ElapsedPeriods == IF Now > last_rent THEN (Now - last_rent) \div RentPeriod ELSE 0
RentExpired == ElapsedPeriods > rent_balance \div RentRate

(* collect_rent_due, where the balance covers the elapsed periods *)
RentOwed == ElapsedPeriods * RentRate

CanPay(amount) == vault + OtherFunds >= amount

(* mutant: new rent is credited and never transferred in *)
BooksUncharged(charge, payout) ==
  /\ CanPay(RentOwed + payout)
  /\ rent_balance' = rent_balance - RentOwed + charge
  /\ last_rent' = last_rent + ElapsedPeriods * RentPeriod
  /\ vault' = vault - RentOwed - payout

(* The balances of an entry point that settles the rent, takes `charge` of *)
(* new rent from its caller and pays `payout` out of the contract.         *)
Books(charge, payout) ==
  /\ CanPay(RentOwed + payout)
  /\ rent_balance' = rent_balance - RentOwed + charge
  /\ last_rent' = last_rent + ElapsedPeriods * RentPeriod
  /\ vault' = vault - RentOwed + charge - payout

(* The balances of an entry point that does not settle the rent. *)
BooksUnsettled(payout) ==
  /\ CanPay(payout)
  /\ vault' = vault - payout
  /\ UNCHANGED <<rent_balance, last_rent>>

(***************************************************************************)
(* Guards shared by the entry points.                                      *)
(***************************************************************************)
Stored == status \in Statuses
Accessible == Stored /\ ~RentExpired

(* mutant: the pause is not looked at *)
LiveThoughPaused == Accessible

Live == ~paused /\ Accessible           \* require_not_paused, load with rent
LiveUnfrozen == Live /\ ~frozen         \* and require_not_frozen

(* mutant: the lock ends a moment early *)
UnlockedEarly == Now + 1 >= lock_time

Unlocked == Now >= lock_time            \* check_lock_time_expired
TimelockOver == Now >= timelock         \* check_timelock_expired

(* mutant: the new index is not appended to *)
RelistDropped(from, to) == listed' = listed \ {from}

(* remove_from_vec_index then append_to_vec_index *)
Relist(from, to) == listed' = (listed \ {from}) \cup {to}

Positive(n) == IF n > 0 THEN n ELSE 0

Init ==
  /\ seq = 0 /\ paused = FALSE /\ frozen = FALSE
  /\ status = "None" /\ listed = {}
  /\ total = 0 /\ allocated = 0 /\ remaining = 0
  /\ milestone_count = 0 /\ approved_count = 0
  /\ released_count = 0 /\ submitted_count = 0
  /\ ms = [i \in MilestoneIds |-> NoMilestone]
  /\ deadline = NoTime /\ lock_time = NoTime
  /\ timelock = NoTime /\ release_time = NoTime
  /\ dispute_started = NoTime /\ dispute_start = NoTime
  /\ request = NoRequest /\ slash = NoSlash /\ fee_collected = FALSE
  /\ rent_balance = 0 /\ last_rent = 0 /\ vault = 0
  /\ paid = [i \in MilestoneIds |-> 0]
==============================================================================
