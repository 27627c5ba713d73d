--------------------------- MODULE EscrowMilestones ---------------------------
(***************************************************************************)
(* Funding an escrow, its milestones from creation to payment, the locks   *)
(* on payments, and the client's ways to take money back while it is       *)
(* Active: the entry points of                                             *)
(* src/contracts/escrow_contract/src/lib.rs between create_escrow and      *)
(* release_with_timelock.                                                  *)
(*                                                                         *)
(* check_slippage, terms acceptance and the price oracle only refuse       *)
(* calls: a model that never takes the refused call is the same system, so *)
(* they leave no trace here.  depends_on is None in every milestone the    *)
(* contract creates.                                                       *)
(***************************************************************************)
EXTENDS EscrowState

CONSTANTS
  CancelFee,          \* calculate_platform_fee(total), taken by cancel_escrow
  Batches             \* bound: id sequences of length 1 or 2 given to batch calls

ASSUME BatchAssumption ==
  /\ CancelFee \in Nat
  /\ Batches \subseteq {s \in Seq(MilestoneIds) : Len(s) \in {1, 2}}

IdsOf(ids) == {ids[i] : i \in 1 .. Len(ids)}
TotalOver(ids, f) == f[ids[1]] + (IF Len(ids) = 2 THEN f[ids[2]] ELSE 0)

(* Sum of the weights of the recorded signatures, one term per record. *)
AccruedWeight(approvals) ==
  SumTo(Len(approvals), [i \in 0 .. (Len(approvals) - 1) |-> Weight[approvals[i + 1]]])

(* mutant: duplicate signatures are not looked for *)
HasSignedNever(m, signer) == FALSE

HasSigned(m, signer) == \E i \in 1 .. Len(ms[m].approvals) : ms[m].approvals[i] = signer

(* The signatures of m once `signer` has approved it `times` times: a legacy *)
(* escrow (threshold zero) records none.                                     *)
Signatures(m, signer, times) ==
  IF Threshold = 0 THEN ms[m].approvals
  ELSE ms[m].approvals \o [i \in 1 .. times |-> signer]

Amount == [m \in MilestoneIds |-> ms[m].amount]

(* mutant: the first release completes the escrow *)
AllReleasedEarly(released) == released > 0

AllReleased(released) == milestone_count > 0 /\ released = milestone_count

(* What a release does to the status: complete the escrow or leave it. *)
CompleteIf(done) == status' = IF done THEN "Completed" ELSE status
RelistIf(done) ==
  IF done THEN Relist("Active", "Completed") ELSE UNCHANGED listed

Setting(m, newStatus) == [ms EXCEPT ![m].status = newStatus]

(***************************************************************************)
(* create_escrow_internal.  The timelock is normalised to start now.       *)
(***************************************************************************)
CreateEscrow(amount, dl, lt, duration) ==
  /\ ~paused /\ status = "None"
  /\ dl # NoTime => dl > Now
  /\ lt # NoTime => lt > Now
  /\ status' = "Active" /\ listed' = {"Active"}
  /\ total' = amount /\ remaining' = amount /\ allocated' = 0
  /\ deadline' = dl /\ lock_time' = lt
  /\ timelock' = IF duration = NoTime THEN NoTime ELSE Now + duration
  /\ rent_balance' = Reserve(1) /\ last_rent' = Now
  /\ vault' = amount + Reserve(1)
  /\ UNCHANGED <<world, counters, ms, release_time, dispute, records, paid>>

(* mutant: the cap is off by one *)
AddMilestonesOverCap(amounts) ==
  LET n == Len(amounts)
      sum == amounts[1] + (IF n = 2 THEN amounts[2] ELSE 0)
  IN  /\ LiveUnfrozen /\ status = "Active"
      /\ allocated + sum <= total
      /\ milestone_count + n <= MaxMilestones + 1
      /\ milestone_count' = milestone_count + n
      /\ allocated' = allocated + sum
      /\ ms' = [i \in MilestoneIds |->
                  IF i \in milestone_count .. (milestone_count + n - 1)
                  THEN NewMilestone(amounts[i - milestone_count + 1], FALSE)
                  ELSE ms[i]]
      /\ Books(Reserve(n), 0)
      /\ UNCHANGED <<world, status, listed, total, remaining, approved_count,
                     released_count, submitted_count, terms, dispute, records, paid>>

(* add_milestone and batch_add_milestones: one rent entry per milestone. *)
AddMilestones(amounts) ==
  LET n == Len(amounts)
      sum == amounts[1] + (IF n = 2 THEN amounts[2] ELSE 0)
  IN  /\ LiveUnfrozen /\ status = "Active"
      /\ allocated + sum <= total
      /\ milestone_count + n <= MaxMilestones
      /\ milestone_count' = milestone_count + n
      /\ allocated' = allocated + sum
      /\ ms' = [i \in MilestoneIds |->
                  IF i \in milestone_count .. (milestone_count + n - 1)
                  THEN NewMilestone(amounts[i - milestone_count + 1], FALSE)
                  ELSE ms[i]]
      /\ Books(Reserve(n), 0)
      /\ UNCHANGED <<world, status, listed, total, remaining, approved_count,
                     released_count, submitted_count, terms, dispute, records, paid>>

AddMilestone(a) == AddMilestones(<<a>>)
BatchAddMilestones(a, b) == AddMilestones(<<a, b>>)

(* Neither the cap on milestones nor the rent of the new entry applies. *)
CreatePriceIndexedMilestone(a) ==
  /\ Live /\ status = "Active"
  /\ allocated + a <= total
  /\ milestone_count < IdBound
  /\ milestone_count' = milestone_count + 1
  /\ allocated' = allocated + a
  /\ ms' = [ms EXCEPT ![milestone_count] = NewMilestone(a, TRUE)]
  /\ Books(0, 0)
  /\ UNCHANGED <<world, status, listed, total, remaining, approved_count,
                 released_count, submitted_count, terms, dispute, records, paid>>

(***************************************************************************)
(* submit_milestone, with the automatic extension of a near deadline.      *)
(***************************************************************************)
CONSTANT AutoExtension      \* AUTO_DEADLINE_EXTENSION_SECONDS
ASSUME ExtensionAssumption == AutoExtension \in Nat \ {0}

ExtendedDeadline ==
  IF /\ deadline # NoTime /\ deadline > Now /\ deadline - Now < AutoExtension
     /\ lock_time = NoTime \/ Now + AutoExtension < lock_time
  THEN Now + AutoExtension
  ELSE deadline

SubmitMilestone(m) ==
  /\ LiveUnfrozen
  /\ ms[m].status \in {"Pending", "Rejected"}
  /\ ms' = Setting(m, "Submitted")
  /\ submitted_count' = submitted_count + 1
  /\ deadline' = ExtendedDeadline
  /\ Books(0, 0)
  /\ UNCHANGED <<world, status, listed, money, milestone_count, approved_count,
                 released_count, lock_time, timelock, release_time, dispute,
                 records, paid>>

(* reject_milestone refuses a frozen escrow, reject_milestone_with_reason *)
(* does not; the rest is the same.                                        *)
Reject(m) ==
  /\ status = "Active" /\ ms[m].status = "Submitted"
  /\ ms' = Setting(m, "Rejected")
  /\ submitted_count' = Positive(submitted_count - 1)
  /\ Books(0, 0)
  /\ UNCHANGED <<world, status, listed, money, milestone_count, approved_count,
                 released_count, terms, dispute, records, paid>>

RejectMilestone(m) == LiveUnfrozen /\ Reject(m)
RejectMilestoneWithReason(m) == Live /\ Reject(m)

(***************************************************************************)
(* approve_milestone: record a signature; once the threshold is met,       *)
(* release at once unless a timelock runs, and look whether all is done.   *)
(***************************************************************************)
ApproveMilestone(m, caller) ==
  LET signed == Signatures(m, caller, 1)
      enough == AccruedWeight(signed) >= Threshold
      pays   == enough /\ TimelockOver
      due    == IF pays THEN ms[m].amount ELSE 0
      one    == IF pays THEN 1 ELSE 0
      done   == enough /\ approved_count + 1 = milestone_count
                       /\ AllReleased(released_count + one)
  IN  /\ LiveUnfrozen /\ status = "Active" /\ Unlocked
      /\ ms[m].status = "Submitted"
      /\ Threshold > 0 => ~HasSigned(m, caller)
      /\ ms' = [ms EXCEPT ![m].approvals = signed,
                          ![m].status = IF pays THEN "Released"
                                        ELSE IF enough THEN "Approved" ELSE "Submitted"]
      /\ approved_count' = approved_count + (IF enough THEN 1 ELSE 0)
      /\ released_count' = released_count + one
      /\ remaining' = remaining - due
      /\ paid' = [paid EXCEPT ![m] = @ + due]
      /\ CompleteIf(done) /\ RelistIf(done)
      /\ Books(0, due)
      /\ UNCHANGED <<world, total, allocated, milestone_count, submitted_count,
                     terms, dispute, records>>

(***************************************************************************)
(* batch_approve_milestones.  Pass 1 prices the batch on the stored        *)
(* milestones; pass 2 rewrites each id in turn, so the second occurrence   *)
(* of an id sees the signature the first one added.                        *)
(***************************************************************************)
(* mutant: every id of the batch counts for each *)
OccurrencesAll(ids, m) == Len(ids)

Occurrences(ids, m) == Cardinality({i \in 1 .. Len(ids) : ids[i] = m})

(* The occurrences of m in the batch that reach the threshold in pass 2. *)
Passes(ids, m, caller) ==
  Cardinality({n \in 1 .. Occurrences(ids, m) :
                 AccruedWeight(Signatures(m, caller, n)) >= Threshold})

BatchApproveMilestones(ids, caller) ==
  LET passes  == [m \in MilestoneIds |-> Passes(ids, m, caller)]
      first   == [m \in MilestoneIds |->
                    IF AccruedWeight(Signatures(m, caller, 1)) >= Threshold
                    THEN ms[m].amount ELSE 0]
      \* each distinct id once, with all its passes
      count   == passes[ids[1]]
                   + (IF Len(ids) = 2 /\ ids[2] # ids[1] THEN passes[ids[2]] ELSE 0)
      due     == IF TimelockOver THEN TotalOver(ids, first) ELSE 0
      freed   == IF TimelockOver THEN count ELSE 0
      done    == AllReleased(released_count + freed)
  IN  /\ Live /\ status = "Active" /\ Unlocked
      /\ \A m \in IdsOf(ids) : /\ ms[m].status = "Submitted"
                               /\ Threshold > 0 => ~HasSigned(m, caller)
      /\ ms' = [m \in MilestoneIds |->
                  IF m \in IdsOf(ids)
                  THEN [ms[m] EXCEPT
                          !.approvals = Signatures(m, caller, Occurrences(ids, m)),
                          !.status = IF passes[m] = 0 THEN "Submitted"
                                     ELSE IF TimelockOver THEN "Released" ELSE "Approved"]
                  ELSE ms[m]]
      /\ approved_count' = approved_count + count
      /\ submitted_count' = Positive(submitted_count - count)
      /\ released_count' = released_count + freed
      /\ remaining' = remaining - due
      /\ paid' = [m \in MilestoneIds |->
                    IF TimelockOver /\ m \in IdsOf(ids)
                    THEN paid[m] + Occurrences(ids, m) * first[m] ELSE paid[m]]
      /\ CompleteIf(done)
      /\ Books(0, due)
      /\ UNCHANGED <<world, listed, total, allocated, milestone_count,
                     terms, dispute, records>>

(***************************************************************************)
(* Paying approved milestones.  Each entry point has a guard of its own.   *)
(***************************************************************************)

(* batch_release_funds, by the admin: no check of status or freeze. *)
BatchReleaseFunds(ids) ==
  LET due  == TotalOver(ids, Amount)
      done == AllReleased(released_count + Len(ids))
  IN  /\ Live /\ Unlocked
      /\ \A m \in IdsOf(ids) : ms[m].status = "Approved"
      /\ ms' = [m \in MilestoneIds |->
                  IF m \in IdsOf(ids) THEN [ms[m] EXCEPT !.status = "Released"] ELSE ms[m]]
      /\ released_count' = released_count + Len(ids)
      /\ remaining' = remaining - due
      /\ paid' = [m \in MilestoneIds |->
                    IF m \in IdsOf(ids)
                    THEN paid[m] + Occurrences(ids, m) * ms[m].amount ELSE paid[m]]
      /\ CompleteIf(done) /\ RelistIf(done)
      /\ Books(0, due)
      /\ UNCHANGED <<world, total, allocated, milestone_count, approved_count,
                     submitted_count, terms, dispute, records>>

(* mutant: the released milestone is not saved *)
PayMilestoneUnsaved(m, done) ==
  /\ ms[m].status = "Approved"
  /\ released_count' = released_count + 1
  /\ remaining' = remaining - ms[m].amount
  /\ paid' = [paid EXCEPT ![m] = @ + ms[m].amount]
  /\ CompleteIf(done)
  /\ Books(0, ms[m].amount)
  /\ UNCHANGED <<world, total, allocated, milestone_count, approved_count,
                 submitted_count, ms, terms, dispute, records>>

(* The part common to the releases of one milestone. *)
PayMilestone(m, done) ==
  /\ ms[m].status = "Approved"
  /\ ms' = Setting(m, "Released")
  /\ released_count' = released_count + 1
  /\ remaining' = remaining - ms[m].amount
  /\ paid' = [paid EXCEPT ![m] = @ + ms[m].amount]
  /\ CompleteIf(done)
  /\ Books(0, ms[m].amount)
  /\ UNCHANGED <<world, total, allocated, milestone_count, approved_count,
                 submitted_count, terms, dispute, records>>

(* release_funds, by the admin or, without a running timelock, by anyone: *)
(* the status of the escrow is not looked at.                             *)
ReleaseFunds(m, caller) ==
  /\ LiveUnfrozen /\ Unlocked
  /\ caller = "admin" \/ TimelockOver
  /\ RelistIf(AllReleased(released_count + 1))
  /\ PayMilestone(m, AllReleased(released_count + 1))

(* release_with_timelock, by either party, once release_time has come.  The *)
(* lock_time is not looked at and the status index keeps its old entry.     *)
ReleaseWithTimelock(m) ==
  /\ LiveUnfrozen /\ status = "Active"
  /\ release_time # NoTime /\ Now >= release_time
  /\ UNCHANGED listed
  /\ PayMilestone(m, released_count + 1 >= milestone_count)

(* trigger_oracle_release, by anyone once the price condition holds: a *)
(* pending milestone is approved and paid at once.                     *)
TriggerOracleRelease(m) ==
  /\ Live /\ status = "Active"
  /\ ms[m].status = "Pending" /\ ms[m].priced
  /\ ms' = Setting(m, "Released")
  /\ approved_count' = approved_count + 1
  /\ released_count' = released_count + 1
  /\ remaining' = remaining - ms[m].amount
  /\ paid' = [paid EXCEPT ![m] = @ + ms[m].amount]
  /\ CompleteIf(AllReleased(released_count + 1))
  /\ Books(0, ms[m].amount)
  /\ UNCHANGED <<world, listed, total, allocated, milestone_count, submitted_count,
                 terms, dispute, records>>

(***************************************************************************)
(* Locks.                                                                  *)
(***************************************************************************)
StartTimelock(duration) ==
  /\ LiveUnfrozen /\ status = "Active" /\ timelock = NoTime
  /\ timelock' = Now + duration
  /\ Books(0, 0)
  /\ UNCHANGED <<world, status, listed, money, counters, ms, deadline, lock_time,
                 release_time, dispute, records, paid>>

(* Any future time is accepted, an earlier one than the present lock included. *)
ExtendLockTime(t) ==
  /\ Live /\ status = "Active" /\ t > Now
  /\ lock_time' = t
  /\ Books(0, 0)
  /\ UNCHANGED <<world, status, listed, money, counters, ms, deadline, timelock,
                 release_time, dispute, records, paid>>

SetTimelock(t) ==
  /\ LiveUnfrozen /\ status = "Active" /\ t > Now /\ release_time = NoTime
  /\ release_time' = t
  /\ Books(0, 0)
  /\ UNCHANGED <<world, status, listed, money, counters, ms, deadline, lock_time,
                 timelock, dispute, records, paid>>

(***************************************************************************)
(* The client takes money back.                                            *)
(***************************************************************************)

(* The swap only debits the books: no token moves. *)
SwapAssetViaDex(a) ==
  /\ LiveUnfrozen /\ status = "Active" /\ a <= remaining
  /\ remaining' = remaining - a
  /\ Books(0, 0)
  /\ UNCHANGED <<world, status, listed, total, allocated, counters, ms, terms,
                 dispute, records, paid>>

(* What is neither allocated nor spent goes back; total stays as it was, so *)
(* the allocation guard of add_milestone does not notice.                   *)
PartialCancel ==
  LET unallocated == Positive(remaining - allocated)
  IN  /\ LiveUnfrozen /\ status = "Active"
      /\ remaining' = remaining - unallocated
      /\ Books(0, unallocated)
      /\ UNCHANGED <<world, status, listed, total, allocated, counters, ms, terms,
                     dispute, records, paid>>

(* Amounts of approved milestones, the unpaid debt to the freelancer. *)
ApprovedDue ==
  SumTo(IdBound, [m \in MilestoneIds |->
                    IF ms[m].status = "Approved" THEN ms[m].amount ELSE 0])

(* cancel_escrow: fee, debt to the freelancer and refund add up to what *)
(* remains; the paid milestones keep the status Approved.               *)
CancelEscrow ==
  LET fee == IF CancelFee > remaining THEN remaining ELSE CancelFee
  IN  /\ LiveUnfrozen /\ status = "Active"
      /\ ApprovedDue <= remaining - fee
      /\ remaining' = 0
      /\ paid' = [m \in MilestoneIds |->
                    IF ms[m].status = "Approved" THEN paid[m] + ms[m].amount ELSE paid[m]]
      /\ status' = "Cancelled" /\ Relist("Active", "Cancelled")
      /\ fee_collected' = FALSE
      /\ Books(0, Positive(remaining))
      /\ UNCHANGED <<world, total, allocated, counters, ms, terms, dispute,
                     request, slash>>

FundingStep ==
  \/ \E amount \in Totals, dl \in Deadlines, lt \in LockTimes, d \in Timelocks :
        CreateEscrow(amount, dl, lt, d)
  \/ \E a \in Amounts : AddMilestone(a)
  \/ \E a, b \in Amounts : BatchAddMilestones(a, b)
  \/ \E a \in Amounts : CreatePriceIndexedMilestone(a)

ReviewStep ==
  \/ \E m \in MilestoneIds : SubmitMilestone(m)
  \/ \E m \in MilestoneIds : RejectMilestone(m)
  \/ \E m \in MilestoneIds : RejectMilestoneWithReason(m)
  \/ \E m \in MilestoneIds, s \in Approvers : ApproveMilestone(m, s)
  \/ \E ids \in Batches, s \in Approvers : BatchApproveMilestones(ids, s)

ReleaseStep ==
  \/ \E ids \in Batches : BatchReleaseFunds(ids)
  \/ \E m \in MilestoneIds, c \in {"admin", "anyone"} : ReleaseFunds(m, c)
  \/ \E m \in MilestoneIds : ReleaseWithTimelock(m)
  \/ \E m \in MilestoneIds : TriggerOracleRelease(m)

LockStep ==
  \/ \E d \in Timelocks \ {NoTime} : StartTimelock(d)
  \/ \E t \in LockTimes : ExtendLockTime(t)
  \/ \E t \in LockTimes : SetTimelock(t)

RefundStep ==
  \/ \E a \in Amounts : SwapAssetViaDex(a)
  \/ PartialCancel
  \/ CancelEscrow

MilestoneStep == FundingStep \/ ReviewStep \/ ReleaseStep \/ LockStep \/ RefundStep
==============================================================================
