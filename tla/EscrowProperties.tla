--------------------------- MODULE EscrowProperties ---------------------------
(***************************************************************************)
(* What the escrow contract keeps, and what its documentation says of it.  *)
(***************************************************************************)
EXTENDS EscrowContract

Open == status \in {"Active", "Disputed", "CancellationPending"}

With(statuses) == {m \in MilestoneIds : ms[m].status \in statuses}

(* allocated_amount, which guards every new milestone, is their sum and     *)
(* never more than the deposit, partial cancellations included.            *)
AllocationFits ==
  Stored => allocated = SumTo(IdBound, Amount) /\ allocated <= total

(* No batch names a milestone twice.  The code does not look: the README tells *)
(* what happens when one does.                                                 *)
DistinctIds == \A ids \in Batches : Len(ids) = 2 => ids[1] # ids[2]

(* The counters of EscrowMeta stand for a scan of the milestones: they decide *)
(* completion in every release, so a milestone counted twice, or not at all,  *)
(* completes an escrow early or never.  submitted_count may only be too high. *)
CountersMatchMilestones ==
  /\ AllocationFits
  /\ Stored => /\ milestone_count = Cardinality(With(MilestoneStatuses))
               /\ approved_count = Cardinality(With({"Approved", "Released"}))
               /\ released_count = Cardinality(With({"Released"}))
               /\ submitted_count >= Cardinality(With({"Submitted"}))

(* While an escrow is open the freelancer has been paid the amount of each   *)
(* released milestone exactly once and nothing for the others, whichever of  *)
(* the six entry points released it.                                         *)
PaidAsReleased ==
  Open => \A m \in MilestoneIds :
            paid[m] = IF ms[m].status = "Released" THEN ms[m].amount ELSE 0

(* The tokens held for an escrow cover what its books still owe: the balance, *)
(* the rent reserve and the slash held back from a cancellation.              *)
Backed == Stored => vault >= remaining + rent_balance + slash.amount

(* A milestone approved by review carries the signatures of distinct       *)
(* approvers whose weights reach the threshold: no signer counts twice and *)
(* no rejection, resubmission or batch lets one slip in.  The price oracle *)
(* approves without signatures.                                            *)
Signers(m) == {ms[m].approvals[i] : i \in 1 .. Len(ms[m].approvals)}

ThresholdBacked ==
  \A m \in With({"Approved", "Released"}) :
    \/ ms[m].priced
    \/ /\ Len(ms[m].approvals) = Cardinality(Signers(m))
       /\ AccruedWeight(ms[m].approvals) >= Threshold

(* The status index finds an open escrow: get_escrow_ids_by_status lists it *)
(* at least under the status it has.                                        *)
ListedWhereOpen == Open => status \in listed

(* The tokens held for an escrow beside its rent, and what its books owe:  *)
(* the balance, unless it is overdrawn, and a slash that is held back.     *)
Held == vault - rent_balance
Owed == Positive(remaining) + Positive(slash.amount)

TakenOut   == Held - Held'
WrittenOff == Owed - Owed'

(* Where tokens and books come apart: a milestone that a partial cancellation *)
(* has left without money, a swap and an upheld slash, whose tokens stay, the *)
(* platform's fee, and the arbiter's fee and, unless the arbiter is fair, an  *)
(* award beyond what there is.                                                *)
ComesApart ==
  \/ remaining' < 0 /\ TakenOut = remaining - remaining'
  \/ (\E a \in Amounts : SwapAssetViaDex(a)) /\ TakenOut = 0
  \/ ResolveSlashDispute(TRUE) /\ TakenOut = 0
  \/ CollectEscrowFee /\ TakenOut = CompletionFee
  \/ /\ status = "Disputed" /\ status' = "Completed" /\ ms' = ms
     /\ \/ TakenOut = WrittenOff + ArbiterFee
        \/ ~FairArbiter /\ TakenOut > WrittenOff + ArbiterFee

(* Every token that leaves the contract for an escrow is written off its books *)
(* and the other way round, whichever of the entry points moves it and whatever *)
(* fees, cancellations and swaps went before: but for the named exceptions     *)
(* nothing is paid twice, kept back or taken from other escrows.  A new escrow *)
(* holds what it owes, and one that expires refunds what remains.              *)
FundsAccounted ==
  [][/\ Stored /\ Stored' => TakenOut = WrittenOff \/ ComesApart
     /\ status = "None" /\ Stored' => Held' = Owed'
     /\ Stored /\ status' = "Removed" => TakenOut = Positive(remaining)]_vars

(* The counters implement the look at the board: MilestoneBoard. *)
Board == INSTANCE MilestoneBoard WITH
  Ids <- MilestoneIds,
  board <- [m \in MilestoneIds |-> ms[m].status],
  phase <- CASE status = "None" -> "none"
             [] status = "Active" -> "working"
             [] status = "Completed" -> "complete"
             [] status = "Removed" -> "erased"
             [] OTHER -> "aside"

(* Every step of the contract is a step of the board, or none: milestones   *)
(* move along its edges only, a released one never moves, an active escrow  *)
(* completes in the very step that releases its last milestone, and one     *)
(* that is taken out of work does not come back to it.                      *)
ImplementsBoard == Board!Spec

(* While lock_time or a review timelock runs, a milestone is released only   *)
(* through the doors that ignore it: the price oracle and the release time   *)
(* for both, and for the timelock also the admin, who needs the approval.    *)
NewlyReleased(m) == ms[m].status # "Released" /\ ms'[m].status = "Released"

PastLocks(m) ==
  NewlyReleased(m) /\ ~(ms[m].priced /\ ms[m].status = "Pending")
                  /\ ~(release_time # NoTime /\ Now >= release_time) =>
    /\ Now >= lock_time
    /\ Now < timelock => ms[m].status = "Approved"

LocksHold == [][\A m \in MilestoneIds : PastLocks(m)]_vars

(* A paused contract moves no escrow money: only rent is taken, and an escrow *)
(* whose rent ran out is refunded and erased.                                 *)
PauseHoldsFunds ==
  [][paused => \/ remaining' = remaining /\ ms' = ms /\ paid' = paid
               \/ status' = "Removed"]_vars

(* Whatever rent, milestones and refunds an escrow went through, once it is  *)
(* erased nothing of it is left in the contract, where nobody could claim it *)
(* any more.  (A milestone released after the refund of an expiry takes even *)
(* more than was deposited: EscrowClaims, PaidAtMostOnce.)                   *)
ErasedEmpty == status = "Removed" => vault <= 0

(* The rent reserve is accounted for from both sides: the tokens are there    *)
(* while the escrow stands, and gone once it is erased.                       *)
ReserveAccounted == Backed /\ ErasedEmpty

(* A dispute that is settled, and not cut short by the release of an approved *)
(* milestone, pays out exactly what remained, whoever settles it and however  *)
(* the halves round: the payouts, the rent due and the arbiter's fee are all  *)
(* that leave the contract.  The arbiter is taken to split what there is.     *)
Paying == vault - vault' - (rent_balance - rent_balance')

SettlementExact ==
  [][status = "Disputed" /\ status' = "Completed" /\ ms' = ms =>
       Paying = Positive(remaining) + ArbiterFee]_vars

(* The escrow that a dispute or a cancellation takes out of work does not come *)
(* back to work: part of the promise of the board.                             *)
NeverReactivated == [][status \notin {"None", "Active"} => status' # "Active"]_vars

(***************************************************************************)
(* Progress, when the parties use what the contract gives them.            *)
(***************************************************************************)

(* A raised dispute with a timeout ends, whatever the arbiter does, if the *)
(* party that may claim the timeout does.                                  *)
DisputesEnd ==
  (status = "Disputed" /\ dispute_started # NoTime
     /\ DisputeTimeout # NoTime /\ dispute_started + DisputeTimeout <= MaxSeq)
  ~> (status # "Disputed")

(* An undisputed cancellation request is carried out after its period, by  *)
(* whoever calls execute_cancellation, or is disputed.                     *)
CancellationsEnd ==
  (Requested /\ request.dispute_deadline <= GenesisTime + MaxSeq)
  ~> (~Requested \/ request.disputed)
==============================================================================
