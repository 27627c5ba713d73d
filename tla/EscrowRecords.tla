----------------------------- MODULE EscrowRecords -----------------------------
(***************************************************************************)
(* One escrow and its dispute in the database, and the requests that read  *)
(* them and write them later: services/escrowService.js and the expiry job *)
(* (services/expiryService.js), whose transactions are those of            *)
(* lib/transaction.js; the administrator's and the automatic resolution    *)
(* (api/controllers/adminController.js, services/disputeResolution.js).    *)
(*                                                                         *)
(* A request reads in one step and writes in a later one.  PostgreSQL, as  *)
(* the code relies on it: the writes of a transaction are one step; a      *)
(* serializable transaction fails when a row it updates has changed since  *)
(* it read it; a read-committed one writes over the change.                *)
(***************************************************************************)
EXTENDS Integers, FiniteSets

CONSTANTS
  Requests,     \* the requests and ticks of the expiry job under way
  Milestones,   \* milestone indexes
  Amounts,      \* amounts that callers ask to release: the milestone's own is not looked at
  Total,        \* totalAmount
  MaxRequests   \* bound: requests that come, and failures of the expiry job

ASSUME RecordsAssumption ==
  /\ Amounts \subseteq Nat
  /\ Total \in Nat /\ MaxRequests \in Nat

VARIABLES
  escrow,    \* its row; version counts the updates of a row
  milestone, \* their rows
  dispute,   \* its row
  evidence,  \* the roles that submitted evidence
  clock,     \* is the escrow's deadline past, is the dispute open for 72 hours
  request,   \* the requests
  paid,      \* what the releases that committed add up to
  requests   \* requests so far

vars == <<escrow, milestone, dispute, evidence, clock, request, paid, requests>>

Parties == {"client", "freelancer"}
Roles == Parties \cup {"other"}  \* the arbiter or the administrator: no rule tells them apart
EscrowRow == [status  : {"none", "Active", "Disputed", "Completed", "Cancelled"},
              balance : 0 .. Total,
              version : Nat]
MilestoneRow == [status     : {"Pending", "Approved", "Rejected"},
                 resolvedAt : {"never", "before", "after"}]  \* the dispute was raised
NoDispute == [type |-> "none", by |-> "none", client |-> 0, freelancer |-> 0, version |-> 0]
DisputeRow == [type       : {"none", "open", "AUTO", "ESCALATED"},
               by         : {"none", "admin", "service", "system"},  \* resolvedBy
               client     : Int,
               freelancer : Int,
               version    : Nat]
Raised == dispute.type # "none"
Resolved == dispute.by # "none"

Operations == {"none", "release", "raise", "resolve", "expire", "admin", "auto", "evidence"}
Idle == [op |-> "none", pc |-> "idle", status |-> "none", balance |-> 0, version |-> <<0, 0>>,
         milestone |-> 0, amount |-> 0, client |-> 0, freelancer |-> 0, outcome |-> "none"]
RequestStates ==
  [op : Operations, pc : {"idle", "read", "write"},
   status : {"none", "Active", "Disputed", "Completed", "Cancelled"},
   balance : 0 .. Total, version : Nat \X Nat,  \* what it read of the rows
   milestone : Milestones \cup {0}, amount : Amounts \cup {0},
   client : 0 .. Total, freelancer : 0 .. Total, outcome : {"none", "AUTO", "ESCALATED"}]

At(r, op, pc) == request[r].op = op /\ request[r].pc = pc
End(r) == request' = [request EXCEPT ![r] = Idle]
Update(status, balance) ==
  escrow' = [status |-> status, balance |-> balance, version |-> escrow.version + 1]
Resolve(by, toClient, toFreelancer) ==
  dispute' = [dispute EXCEPT !.by = by, !.client = toClient, !.freelancer = toFreelancer,
                             !.version = @ + 1]

-------------------------------------------------------------------------------
(* The rules, in their order; each of them has a confidence above the         *)
(* threshold of 0.75, so that the first that fires decides.  A split is what  *)
(* the client gets, in ten thousandths.                                       *)
OneSidedEvidence == Cardinality(evidence \cap Parties) = 1
NoEvidence == evidence = {} /\ clock.waited
MilestoneApproved ==
  \E m \in Milestones : milestone[m].status = "Approved" /\ milestone[m].resolvedAt = "before"
NothingSubmitted == clock.expired /\ \A m \in Milestones : milestone[m].status = "Pending"
RuleFires == OneSidedEvidence \/ NoEvidence \/ MilestoneApproved \/ NothingSubmitted

ClientSplit ==
  CASE OneSidedEvidence                        -> IF "client" \in evidence THEN 10000 ELSE 0
    [] ~OneSidedEvidence /\ NoEvidence         -> 5000
    [] ~OneSidedEvidence /\ ~NoEvidence /\ MilestoneApproved -> 0
    [] OTHER                                   -> 10000

ClientAmount(total, split) == (total * split) \div 10000
FreelancerAmount(total, split) == total - ClientAmount(total, split)

-------------------------------------------------------------------------------
Come(r, op, pc) ==
  /\ request[r].pc = "idle"
  /\ requests < MaxRequests /\ requests' = requests + 1
  /\ request' = [request EXCEPT ![r] = [Idle EXCEPT !.op = op, !.pc = pc]]

FundEscrow ==
  /\ escrow.status = "none"
  /\ Update("Active", Total)
  /\ UNCHANGED <<milestone, dispute, evidence, clock, request, paid, requests>>

BeginRequest(r) ==
  /\ escrow.status # "none"
  /\ \E op \in Operations \ {"none", "expire"} : Come(r, op, "read")
  /\ UNCHANGED <<escrow, milestone, dispute, evidence, clock, paid>>

(* The escrow as a transaction reads it, and what the request asks for.  *)
Seen(r) == [request[r] EXCEPT !.pc = "write", !.status = escrow.status,
                              !.balance = escrow.balance,
                              !.version = <<escrow.version, dispute.version>>]
Refuse(r) ==
  /\ End(r)
  /\ UNCHANGED <<escrow, milestone, dispute, evidence, clock, paid, requests>>
Proceed(r, as) ==
  /\ request' = [request EXCEPT ![r] = as]
  /\ UNCHANGED <<escrow, milestone, dispute, evidence, clock, paid, requests>>

(* mutant: a conflict goes unnoticed, as under ReadCommitted *)
EscrowUnchangedNever(r) == TRUE
EscrowUnchanged(r) == escrow.version = request[r].version[1]
DisputeUnchanged(r) == dispute.version = request[r].version[2]

(* mutant: the balance is not looked at *)
ReadForReleaseAny(r) ==
  /\ At(r, "release", "read")
  /\ \E m \in Milestones, amount \in Amounts :
       IF escrow.status = "Active"
       THEN Proceed(r, [Seen(r) EXCEPT !.milestone = m, !.amount = amount]) ELSE Refuse(r)
ReadForRelease(r) ==
  /\ At(r, "release", "read")
  /\ \E m \in Milestones, amount \in Amounts :
       IF escrow.status = "Active" /\ escrow.balance >= amount
       THEN Proceed(r, [Seen(r) EXCEPT !.milestone = m, !.amount = amount]) ELSE Refuse(r)

(* ReadCommitted: the balance is written as it was computed.  *)
ReleaseMilestone(r) ==
  LET left == request[r].balance - request[r].amount IN
  /\ At(r, "release", "write")
  /\ milestone' = [milestone EXCEPT ![request[r].milestone] =
       [status |-> "Approved", resolvedAt |-> IF Raised THEN "after" ELSE "before"]]
  /\ Update(IF left = 0 THEN "Completed" ELSE escrow.status, left)
  /\ paid' = paid + request[r].amount
  /\ End(r)
  /\ UNCHANGED <<dispute, evidence, clock, requests>>

ReadForRaise(r) ==
  /\ At(r, "raise", "read")
  /\ IF escrow.status = "Active" THEN Proceed(r, Seen(r)) ELSE Refuse(r)

(* Serializable; disputes.escrow_id is unique.  A milestone may be named.  *)
RaiseDispute(r) ==
  /\ At(r, "raise", "write")
  /\ IF ~EscrowUnchanged(r) \/ Raised THEN Refuse(r)
     ELSE /\ Update("Disputed", escrow.balance)
          /\ dispute' = [NoDispute EXCEPT !.type = "open"]
          /\ \/ UNCHANGED milestone
             \/ \E m \in Milestones : milestone' = [milestone EXCEPT ![m].status = "Rejected"]
          /\ End(r)
          /\ UNCHANGED <<evidence, clock, paid, requests>>

ReadForResolve(r) ==
  /\ At(r, "resolve", "read")
  /\ \E c \in {0, escrow.balance} :
       IF escrow.status = "Disputed"
       THEN Proceed(r, [Seen(r) EXCEPT !.client = c, !.freelancer = escrow.balance - c])
       ELSE Refuse(r)

ResolveDispute(r) ==
  /\ At(r, "resolve", "write")
  /\ IF ~(EscrowUnchanged(r) /\ DisputeUnchanged(r)) THEN Refuse(r)
     ELSE /\ Update("Completed", 0)
          /\ Resolve("service", request[r].client, request[r].freelancer)
          /\ End(r)
          /\ UNCHANGED <<milestone, evidence, clock, paid, requests>>

-------------------------------------------------------------------------------
(* The expiry job: findExpiredEscrows, then the transaction of expireEscrow,  *)
(* which reads the escrow again.  An error is counted and the job goes on.    *)
Expired == escrow.status = "Active" /\ clock.expired

FindExpired(r) ==
  /\ request[r].pc = "idle" /\ Expired
  /\ request' = [request EXCEPT ![r] = [Idle EXCEPT !.op = "expire", !.pc = "read"]]
  /\ UNCHANGED <<escrow, milestone, dispute, evidence, clock, paid, requests>>

(* mutant: the deadline is expected to be ahead *)
ReadForExpireAhead(r) ==
  /\ At(r, "expire", "read")
  /\ IF escrow.status = "Active" /\ ~clock.expired THEN Proceed(r, Seen(r)) ELSE Refuse(r)
ReadForExpire(r) ==
  /\ At(r, "expire", "read")
  /\ IF Expired THEN Proceed(r, Seen(r)) ELSE Refuse(r)

ExpireEscrow(r) ==
  /\ At(r, "expire", "write")
  /\ IF ~EscrowUnchanged(r) THEN Refuse(r)
     ELSE /\ Update("Cancelled", escrow.balance)
          /\ End(r)
          /\ UNCHANGED <<milestone, dispute, evidence, clock, paid, requests>>

-------------------------------------------------------------------------------
(* The resolutions that write the dispute only, without looking again.  *)
ReadForAdmin(r) ==
  /\ At(r, "admin", "read")
  /\ \E c \in {0, Total} :
       IF Raised /\ ~Resolved
       THEN Proceed(r, [request[r] EXCEPT !.pc = "write", !.client = c, !.freelancer = Total - c])
       ELSE Refuse(r)

ResolveByAdmin(r) ==
  /\ At(r, "admin", "write")
  /\ Resolve("admin", request[r].client, request[r].freelancer)
  /\ End(r)
  /\ UNCHANGED <<escrow, milestone, evidence, clock, paid, requests>>

ReadForAuto(r) ==
  /\ At(r, "auto", "read")
  /\ IF ~Raised \/ Resolved THEN Refuse(r)
     ELSE Proceed(r, [request[r] EXCEPT !.pc = "write",
            !.outcome = IF RuleFires THEN "AUTO" ELSE "ESCALATED",
            !.client = IF RuleFires THEN ClientAmount(Total, ClientSplit) ELSE 0,
            !.freelancer = IF RuleFires THEN FreelancerAmount(Total, ClientSplit) ELSE 0])

RunAutomatedResolution(r) ==
  /\ At(r, "auto", "write")
  /\ dispute' = IF request[r].outcome = "AUTO"
                THEN [dispute EXCEPT !.type = "AUTO", !.by = "system",
                        !.client = request[r].client, !.freelancer = request[r].freelancer,
                        !.version = @ + 1]
                ELSE [dispute EXCEPT !.type = "ESCALATED", !.version = @ + 1]
  /\ End(r)
  /\ UNCHANGED <<escrow, milestone, evidence, clock, paid, requests>>

ReadForEvidence(r) ==
  /\ At(r, "evidence", "read")
  /\ IF Raised /\ ~Resolved
     THEN Proceed(r, [request[r] EXCEPT !.pc = "write"]) ELSE Refuse(r)

SubmitEvidence(r) ==
  /\ At(r, "evidence", "write")
  /\ \E role \in Roles : evidence' = evidence \cup {role}
  /\ End(r)
  /\ UNCHANGED <<escrow, milestone, dispute, clock, paid, requests>>

-------------------------------------------------------------------------------
PassDeadline ==
  /\ ~clock.expired /\ clock' = [clock EXCEPT !.expired = TRUE]
  /\ UNCHANGED <<escrow, milestone, dispute, evidence, request, paid, requests>>
PassWindow ==
  /\ Raised /\ ~clock.waited /\ clock' = [clock EXCEPT !.waited = TRUE]
  /\ UNCHANGED <<escrow, milestone, dispute, evidence, request, paid, requests>>

(* A read or a transaction fails, with no effect.  *)
FailRequest(r) ==
  /\ request[r].pc # "idle"
  /\ IF request[r].op = "expire"
     THEN requests < MaxRequests /\ requests' = requests + 1 ELSE UNCHANGED requests
  /\ End(r)
  /\ UNCHANGED <<escrow, milestone, dispute, evidence, clock, paid>>

Init ==
  /\ escrow = [status |-> "none", balance |-> 0, version |-> 0]
  /\ milestone = [m \in Milestones |-> [status |-> "Pending", resolvedAt |-> "never"]]
  /\ dispute = NoDispute /\ evidence = {}
  /\ clock = [expired |-> FALSE, waited |-> FALSE]
  /\ request = [r \in Requests |-> Idle]
  /\ paid = 0 /\ requests = 0

ExpiryStep(r) == ReadForExpire(r) \/ ExpireEscrow(r)
Serve(r) ==
  \/ ReadForRelease(r) \/ ReleaseMilestone(r) \/ ReadForRaise(r) \/ RaiseDispute(r)
  \/ ReadForResolve(r) \/ ResolveDispute(r) \/ ReadForAdmin(r) \/ ResolveByAdmin(r)
  \/ ReadForAuto(r) \/ RunAutomatedResolution(r) \/ ReadForEvidence(r) \/ SubmitEvidence(r)

Next ==
  \/ FundEscrow \/ PassDeadline \/ PassWindow
  \/ \E r \in Requests :
       BeginRequest(r) \/ Serve(r) \/ FailRequest(r) \/ FindExpired(r) \/ ExpiryStep(r)

Spec == Init /\ [][Next]_vars

(* Requests end, and the job's timer goes on.  *)
FairSpec ==
  /\ Spec
  /\ \A r \in Requests :
       WF_vars(Serve(r)) /\ WF_vars(FindExpired(r)) /\ WF_vars(ExpiryStep(r))

-------------------------------------------------------------------------------
TypeOK ==
  /\ escrow \in EscrowRow
  /\ milestone \in [Milestones -> MilestoneRow]
  /\ dispute \in DisputeRow
  /\ evidence \subseteq Roles
  /\ clock \in [expired : BOOLEAN, waited : BOOLEAN]
  /\ request \in [Requests -> RequestStates]
  /\ paid \in Nat /\ requests \in 0 .. MaxRequests

(* The expiry job and a dispute race for the same escrow and one of them      *)
(* loses: an escrow with a dispute is never cancelled for its deadline.       *)
DisputeOrExpiry == Raised => escrow.status # "Cancelled"

(* "Amounts must sum to remaining balance": what the service's resolution     *)
(* gives the parties is what the escrow held when it committed, although a    *)
(* release that read the escrow earlier may commit before it.                 *)
SettlesWhatIsLeft ==
  [][(escrow' # escrow /\ dispute' # dispute /\ dispute'.by = "service")
     => dispute'.client + dispute'.freelancer = escrow.balance]_vars

(* Past its deadline an escrow does not stay Active: an attempt of the job    *)
(* that loses a conflict is made up for by a later one.                       *)
ExpiryGetsThere == Expired ~> ~Expired

(* "Insufficient escrow balance" (services/escrowService.js:60): releases     *)
(* never add up to more than the escrow holds.                                *)
ReleasesCovered == paid <= Total
===============================================================================
