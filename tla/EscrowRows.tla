------------------------------ MODULE EscrowRows ------------------------------
(***************************************************************************)
(* The rows of one escrow in PostgreSQL (database/schema.prisma) that the  *)
(* three indexers write: escrows, milestones, disputes and the score of    *)
(* reputation_records.  "none" stands for a row that does not exist.       *)
(***************************************************************************)
EXTENDS Integers

CONSTANT Milestones  \* milestone indexes

EscrowStatuses == {"none", "Active", "Disputed", "Cancelled", "Completed"}
MilestoneStatuses == {"none", "Pending", "Submitted", "Approved", "Rejected"}
DisputeStatuses == {"none", "open", "resolved"}

Rows == [status    : EscrowStatuses,
         balance   : Int,
         milestone : [Milestones -> MilestoneStatuses],
         dispute   : DisputeStatuses,
         score     : Nat]
EmptyRows == [status    |-> "none",
              balance   |-> 0,
              milestone |-> [m \in Milestones |-> "none"],
              dispute   |-> "none",
              score     |-> 0]

(* upsert with an empty update: the first insert wins.  *)
InsertEscrow(r, total) ==
  IF r.status = "none" THEN [r EXCEPT !.status = "Active", !.balance = total] ELSE r
InsertMilestone(r, m) == [r EXCEPT !.milestone[m] = IF @ = "none" THEN "Pending" ELSE @]
OpenDispute(r) == [r EXCEPT !.dispute = IF @ = "none" THEN "open" ELSE @]

(* updateMany: a row that does not exist is not an error.  *)
SetStatus(r, to) == [r EXCEPT !.status = IF @ = "none" THEN @ ELSE to]
SetMilestone(r, m, to) == [r EXCEPT !.milestone[m] = IF @ = "none" THEN @ ELSE to]
CloseDispute(r) == [r EXCEPT !.dispute = IF @ = "none" THEN @ ELSE "resolved"]
SubtractReleased(r, amount) ==
  [r EXCEPT !.balance = IF r.status = "none" THEN @ ELSE @ - amount]
===============================================================================
