----------------------------- MODULE InsuranceFund -----------------------------
(***************************************************************************)
(* The insurance fund: contributions, claims that governors vote on, and   *)
(* payouts.  contracts/insurance_contract/src/lib.rs, one action per entry *)
(* point, each of which is one atomic call; a call that returns an error   *)
(* changes nothing, also where the code stored something before it.        *)
(* Who contributes and who claims is left out: authentication only decides *)
(* who may take a step.                                                    *)
(***************************************************************************)
EXTENDS Integers, FiniteSets

CONSTANTS
  Governors,       \* those the admin may appoint
  MaxClaims,       \* bound: claims
  Amounts,         \* bound: amounts of calls
  MinContribution, \* min_contribution
  Caps,            \* the values of claim_cap an admin may choose
  Quorums,         \* the values of the quorum an admin may choose
  ClaimExpiry,     \* DEFAULT_CLAIM_EXPIRY_LEDGERS, added to a timestamp
  MaxTime,         \* bound: the last timestamp
  MaxIn            \* bound: tokens that anybody sends in, of each kind

ClaimIds == 0 .. MaxClaims - 1
Ballots == {"none", "for", "against"}

ASSUME FundAssumption ==
  /\ IsFiniteSet(Governors)
  /\ {MaxClaims, ClaimExpiry, MaxTime, MaxIn} \subseteq Nat
  /\ MinContribution \in Nat \ {0}
  /\ Amounts \subseteq Nat \ {0}
  /\ Caps \subseteq Nat \ {0} /\ Caps # {}
  /\ Quorums \subseteq Nat \ {0} /\ Quorums # {}

VARIABLES
  governors,     \* DataKey::Governor
  claim_cap, quorum,
  claim_counter, \* the next claim's id; total_claims is the same number
  claims,        \* DataKey::Claim
  claim_vote,    \* DataKey::Vote: claim and governor; it outlives the governor
  stats,         \* FundStats, without the counts of claims and governors
  vault,         \* the contract's token balance
  now,           \* the ledger's timestamp
  gifts          \* history: tokens sent to the contract outside its entry points

fundVars == <<governors, claim_cap, quorum, claim_counter, claims, claim_vote, stats, vault,
              now, gifts>>

NoClaim == [status |-> "none", amount |-> 0, expires_at |-> 0, votes_for |-> 0,
            votes_against |-> 0]
ClaimStates == {"none", "Pending", "Approved", "Rejected", "Paid", "Withdrawn"}

NoVotes == [g \in Governors |-> "none"]

(* initialize, with some of the parameters it accepts.  *)
FundInit ==
  /\ governors = {}
  /\ claim_cap \in Caps
  /\ quorum \in Quorums
  /\ claim_counter = 0
  /\ claims = [c \in ClaimIds |-> NoClaim]
  /\ claim_vote = [c \in ClaimIds |-> NoVotes]
  /\ stats = [total_contributed |-> 0, total_paid_out |-> 0, paid_claims |-> 0]
  /\ vault = 0
  /\ now = 0
  /\ gifts = 0

FundTypeOK ==
  /\ governors \in SUBSET Governors
  /\ claim_cap \in Nat \ {0} /\ quorum \in Nat \ {0}
  /\ claim_counter \in 0 .. MaxClaims
  /\ claims \in [ClaimIds -> [status : ClaimStates, amount : Nat, expires_at : Nat,
                              votes_for : Nat, votes_against : Nat]]
  /\ claim_vote \in [ClaimIds -> [Governors -> Ballots]]
  /\ stats \in [total_contributed : Nat, total_paid_out : Nat, paid_claims : Nat]
  /\ vault \in Nat /\ now \in Nat /\ gifts \in Nat

-------------------------------------------------------------------------------
Ballot(approve) == IF approve THEN "for" ELSE "against"

Counted(b, approve) ==
  IF approve THEN [b EXCEPT !.votes_for = @ + 1] ELSE [b EXCEPT !.votes_against = @ + 1]

(* The state after a counted vote: open until the quorum has voted at all. *)
ClaimVerdict(b) ==
  CASE b.votes_for + b.votes_against < quorum -> "Pending"
    [] b.votes_for >= quorum /\ b.votes_for > b.votes_against -> "Approved"
    [] OTHER -> "Rejected"

Contribute(amount) ==
  /\ amount >= MinContribution
  /\ stats.total_contributed + amount <= MaxIn
  /\ vault' = vault + amount
  /\ stats' = [stats EXCEPT !.total_contributed = @ + amount]
  /\ UNCHANGED <<governors, claim_cap, quorum, claim_counter, claims, claim_vote, now, gifts>>

SubmitClaim(amount) ==
  /\ claim_counter < MaxClaims
  /\ amount <= claim_cap
  /\ claims' = [claims EXCEPT ![claim_counter] =
                  [status |-> "Pending", amount |-> amount, expires_at |-> now + ClaimExpiry,
                   votes_for |-> 0, votes_against |-> 0]]
  /\ claim_counter' = claim_counter + 1
  /\ UNCHANGED <<governors, claim_cap, quorum, claim_vote, stats, vault, now, gifts>>

WithdrawClaim(c) ==
  /\ claims[c].status = "Pending"
  /\ claims' = [claims EXCEPT ![c].status = "Withdrawn"]
  /\ UNCHANGED <<governors, claim_cap, quorum, claim_counter, claim_vote, stats, vault, now, gifts>>

(* mutant: whoever voted may vote again *)
VoteAgain(g, c, approve) ==
  /\ g \in governors
  /\ claims[c].status = "Pending"
  /\ now <= claims[c].expires_at
  /\ claim_vote' = [claim_vote EXCEPT ![c][g] = Ballot(approve)]
  /\ LET counted == Counted(claims[c], approve)
     IN  claims' = [claims EXCEPT ![c] = [counted EXCEPT !.status = ClaimVerdict(counted)]]
  /\ UNCHANGED <<governors, claim_cap, quorum, claim_counter, stats, vault, now, gifts>>

(* A vote on an expired claim rejects it and returns an error, which undoes *)
(* the rejection: the claim stays pending, and nobody can vote on it.       *)
Vote(g, c, approve) ==
  /\ g \in governors
  /\ claim_vote[c][g] = "none"
  /\ claims[c].status = "Pending"
  /\ now <= claims[c].expires_at
  /\ claim_vote' = [claim_vote EXCEPT ![c][g] = Ballot(approve)]
  /\ LET counted == Counted(claims[c], approve)
     IN  claims' = [claims EXCEPT ![c] = [counted EXCEPT !.status = ClaimVerdict(counted)]]
  /\ UNCHANGED <<governors, claim_cap, quorum, claim_counter, stats, vault, now, gifts>>

(* mutant: the balance is not looked at *)
ExecutePayoutBlind(c) ==
  /\ claims[c].status = "Approved"
  /\ claims' = [claims EXCEPT ![c].status = "Paid"]
  /\ vault' = vault - claims[c].amount
  /\ stats' = [stats EXCEPT !.total_paid_out = @ + claims[c].amount, !.paid_claims = @ + 1]
  /\ UNCHANGED <<governors, claim_cap, quorum, claim_counter, claim_vote, now, gifts>>

(* Looks at the balance only, whatever it is made of.  *)
ExecutePayout(c) ==
  /\ claims[c].status = "Approved"
  /\ vault >= claims[c].amount
  /\ claims' = [claims EXCEPT ![c].status = "Paid"]
  /\ vault' = vault - claims[c].amount
  /\ stats' = [stats EXCEPT !.total_paid_out = @ + claims[c].amount, !.paid_claims = @ + 1]
  /\ UNCHANGED <<governors, claim_cap, quorum, claim_counter, claim_vote, now, gifts>>

AddGovernor(g) ==
  /\ g \notin governors
  /\ governors' = governors \cup {g}
  /\ UNCHANGED <<claim_cap, quorum, claim_counter, claims, claim_vote, stats, vault, now, gifts>>

RemoveGovernor(g) ==
  /\ g \in governors
  /\ governors' = governors \ {g}
  /\ UNCHANGED <<claim_cap, quorum, claim_counter, claims, claim_vote, stats, vault, now, gifts>>

SetClaimCap(cap) ==
  /\ claim_cap' = cap
  /\ UNCHANGED <<governors, quorum, claim_counter, claims, claim_vote, stats, vault, now, gifts>>

SetQuorum(q) ==
  /\ quorum' = q
  /\ UNCHANGED <<governors, claim_cap, claim_counter, claims, claim_vote, stats, vault, now, gifts>>

(* Anybody may send tokens to a contract; platform fees arrive like this.  *)
Transfer(amount) ==
  /\ gifts + amount <= MaxIn
  /\ vault' = vault + amount
  /\ gifts' = gifts + amount
  /\ UNCHANGED <<governors, claim_cap, quorum, claim_counter, claims, claim_vote, stats, now>>

Tick ==
  /\ now < MaxTime
  /\ now' = now + 1
  /\ UNCHANGED <<governors, claim_cap, quorum, claim_counter, claims, claim_vote, stats, vault, gifts>>

FundNext ==
  \/ \E amount \in Amounts : Contribute(amount) \/ SubmitClaim(amount) \/ Transfer(amount)
  \/ \E c \in ClaimIds : WithdrawClaim(c) \/ ExecutePayout(c)
  \/ \E g \in Governors, c \in ClaimIds, approve \in BOOLEAN : Vote(g, c, approve)
  \/ \E g \in Governors : AddGovernor(g) \/ RemoveGovernor(g)
  \/ \E cap \in Caps : SetClaimCap(cap)
  \/ \E q \in Quorums : SetQuorum(q)
  \/ Tick
===============================================================================
