----------------------------- MODULE EscrowClaims -----------------------------
(***************************************************************************)
(* What the documentation and the comments say of the escrow contract and  *)
(* the code does not keep.  TLC refutes each of these; the README names    *)
(* the specification and the constants that show it.                       *)
(***************************************************************************)
EXTENDS EscrowProperties

(* docs/security/security-checklist-template.md:56, "`remaining_balance` is  *)
(* always >= 0 after any operation".  partial_cancel returns the unallocated *)
(* money but leaves total_amount, so add_milestone allocates it again.       *)
RemainingNonNegative == Stored => remaining >= 0

(* The comment of raise_dispute, "Raises a dispute, freezing further fund *)
(* releases".  An approved milestone is still released.                   *)
DisputeFreezesReleases ==
  [][status = "Disputed" => \A m \in MilestoneIds : ~NewlyReleased(m)]_vars

(* docs/security-model.md:81, the contract's tokens cover all unreleased     *)
(* funds: what is held for an escrow covers its balance and its rent.  The   *)
(* arbiter's fee is paid on top of the whole remaining balance.              *)
Solvent == Stored => vault >= Positive(remaining) + rent_balance

(* The comment of release_funds, "Milestone must be `Approved` to prevent     *)
(* double-payment".  cancel_escrow pays the approved milestones and leaves    *)
(* them Approved, so release_funds pays them again.                           *)
PaidAtMostOnce == \A m \in MilestoneIds : ms[m].status # "None" => paid[m] <= ms[m].amount

(* docs/milestone-state-machine.md:113, "`Approved` and `Disputed` have no   *)
(* outgoing transitions".  An approved milestone is released, and erased     *)
(* with its escrow.                                                          *)
ApprovedIsTerminal ==
  [][status' # "Removed" =>
       \A m \in With({"Approved"}) : ms'[m].status = "Approved"]_vars

(* docs/milestone-state-machine.md:240, the guard "prevents the client from  *)
(* cancelling after the freelancer has submitted work or after funds have    *)
(* been approved".  cancel_escrow looks at no milestone but to pay it.       *)
CancelGuarded == [][CancelEscrow => With({"Submitted", "Approved"}) = {}]_vars

(* The comment of DISPUTE_COOLDOWN_LEDGERS, "Minimum number of ledgers a     *)
(* dispute must remain open before it can be resolved".  The code adds the   *)
(* ledgers to a timestamp, and no ledger sequence is ever that large.        *)
CooldownCountsLedgers ==
  status = "Disputed" /\ dispute_started # NoTime =>
    (seq >= dispute_started + DisputeCooldown => CooldownOver)

(* docs/smart-contract-guide.md:635, "call `dispute_cancellation()` to     *)
(* escalate to a full dispute".  The dispute it raises has no start, and   *)
(* every way to end a dispute asks for one.                                *)
CancellationDisputesEnd ==
  (status = "Disputed" /\ request.disputed) ~> (status # "Disputed")
==============================================================================
