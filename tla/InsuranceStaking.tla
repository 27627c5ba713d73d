--------------------------- MODULE InsuranceStaking ---------------------------
(***************************************************************************)
(* Stakes in the insurance fund: a staker owns a share of a pool, which    *)
(* governors may slash, and earns a share of the platform's fees through   *)
(* an accumulator.  Stakes, fees and contributions lie in one balance.     *)
(* The reentrancy lock is taken and given back within each call.           *)
(***************************************************************************)
EXTENDS InsuranceFund, FiniteSetsExt

CONSTANTS
  Stakers,
  MaxSlashes,     \* bound: slash proposals
  SlashBps,       \* the parts of the pool a governor may propose to slash
  MaxBps,         \* the ceilings an admin may choose for them
  YieldPrecision, \* YIELD_PRECISION
  MaxStake,       \* bound: stake_total
  MaxFees         \* bound: fees announced

SlashIds == 0 .. MaxSlashes - 1

ASSUME StakingAssumption ==
  /\ IsFiniteSet(Stakers)
  /\ {MaxSlashes, MaxStake, MaxFees} \subseteq Nat
  /\ YieldPrecision \in Nat \ {0}
  /\ SlashBps \subseteq Nat \ {0}
  /\ MaxBps \subseteq 1 .. 4000 /\ MaxBps # {}

VARIABLES
  stake,         \* DataKey::Stake; an amount of 0 stands for no record
  stake_total,   \* the sum of the amounts
  stake_pool,    \* the tokens the stakes are still worth
  yield_acc,     \* YieldAccumulator: fees for one staked token
  max_slash_bps,
  slash_counter,
  slashes,       \* DataKey::SlashProposal
  slash_vote,    \* DataKey::SlashVote
  ledger         \* history: fees announced and yield paid

stakingVars == <<stake, stake_total, stake_pool, yield_acc, max_slash_bps, slash_counter,
                 slashes, slash_vote, ledger>>
vars == <<fundVars, stakingVars>>

NoStake == [amount |-> 0, reward_debt |-> 0]
NoSlash == [status |-> "none", bps |-> 0, votes_for |-> 0, votes_against |-> 0]

DefaultMaxBps == 4000

Init ==
  /\ FundInit
  /\ stake = [s \in Stakers |-> NoStake]
  /\ stake_total = 0 /\ stake_pool = 0 /\ yield_acc = 0
  /\ max_slash_bps = DefaultMaxBps
  /\ slash_counter = 0
  /\ slashes = [p \in SlashIds |-> NoSlash]
  /\ slash_vote = [p \in SlashIds |-> NoVotes]
  /\ ledger = [fees |-> 0, yield |-> 0]

(* The types of the two parts.  Totals are integers here: that they do not *)
(* fall below zero follows from what the stakes add up to.                 *)
TypeOK ==
  /\ FundTypeOK
  /\ stake \in [Stakers -> [amount : Nat, reward_debt : Int]]
  /\ stake_total \in Int /\ stake_pool \in Int /\ yield_acc \in Int
  /\ max_slash_bps \in 1 .. 4000
  /\ slash_counter \in 0 .. MaxSlashes
  /\ slashes \in [SlashIds -> [status : {"none", "Pending", "Approved", "Rejected", "Executed"},
                               bps : Nat, votes_for : Nat, votes_against : Nat]]
  /\ slash_vote \in [SlashIds -> [Governors -> Ballots]]
  /\ ledger \in [fees : Nat, yield : Int]

-------------------------------------------------------------------------------
PendingYield(s) == (stake[s].amount * (yield_acc - stake[s].reward_debt)) \div YieldPrecision

(* What a change of the stake pays first; what the balance does not cover  *)
(* is dropped, since the debt is brought up to date all the same.          *)
YieldDue(s) == IF PendingYield(s) > 0 /\ vault >= PendingYield(s) THEN PendingYield(s) ELSE 0

(* mutant: the debt of a changed stake starts from nothing *)
SettledAfresh(amount) == [amount |-> amount, reward_debt |-> 0]

Settled(amount) ==
  IF amount = 0 THEN NoStake ELSE [amount |-> amount, reward_debt |-> yield_acc]

Stake(s, amount) ==
  /\ stake_total + amount <= MaxStake
  /\ vault' = vault - YieldDue(s) + amount
  /\ ledger' = [ledger EXCEPT !.yield = @ + YieldDue(s)]
  /\ stake' = [stake EXCEPT ![s] = Settled(stake[s].amount + amount)]
  /\ stake_total' = stake_total + amount
  /\ stake_pool' = stake_pool + amount
  /\ UNCHANGED <<governors, claim_cap, quorum, claim_counter, claims, claim_vote, stats, now,
                 gifts, yield_acc, max_slash_bps, slash_counter, slashes, slash_vote>>

(* mutant: rounded in favour of whoever leaves *)
ActualReturnUp(amount) ==
  IF stake_total > 0 THEN (amount * stake_pool + stake_total - 1) \div stake_total ELSE amount

ActualReturn(amount) ==
  IF stake_total > 0 THEN (amount * stake_pool) \div stake_total ELSE amount

Unstake(s, amount) ==
  /\ amount <= stake[s].amount
  /\ vault - YieldDue(s) >= ActualReturn(amount)
  /\ vault' = vault - YieldDue(s) - ActualReturn(amount)
  /\ ledger' = [ledger EXCEPT !.yield = @ + YieldDue(s)]
  /\ stake' = [stake EXCEPT ![s] = Settled(stake[s].amount - amount)]
  /\ stake_total' = stake_total - amount
  /\ stake_pool' = stake_pool - ActualReturn(amount)
  /\ UNCHANGED <<governors, claim_cap, quorum, claim_counter, claims, claim_vote, stats, now,
                 gifts, yield_acc, max_slash_bps, slash_counter, slashes, slash_vote>>

(* The tokens of the fees come by a transfer of their own.  Without stakes *)
(* the fees are announced to nobody.                                       *)
AddPlatformFees(amount) ==
  /\ ledger.fees + amount <= MaxFees
  /\ yield_acc' = IF stake_total > 0
                  THEN yield_acc + (amount * YieldPrecision) \div stake_total
                  ELSE yield_acc
  /\ ledger' = [ledger EXCEPT !.fees = @ + amount]
  /\ UNCHANGED <<fundVars, stake, stake_total, stake_pool, max_slash_bps, slash_counter,
                 slashes, slash_vote>>

ClaimYield(s) ==
  /\ stake[s].amount > 0
  /\ PendingYield(s) > 0
  /\ vault >= PendingYield(s)
  /\ vault' = vault - PendingYield(s)
  /\ ledger' = [ledger EXCEPT !.yield = @ + PendingYield(s)]
  /\ stake' = [stake EXCEPT ![s].reward_debt = yield_acc]
  /\ UNCHANGED <<governors, claim_cap, quorum, claim_counter, claims, claim_vote, stats, now,
                 gifts, stake_total, stake_pool, yield_acc, max_slash_bps, slash_counter, slashes,
                 slash_vote>>

ProposeSlash(g, bps) ==
  /\ slash_counter < MaxSlashes
  /\ g \in governors
  /\ bps <= max_slash_bps
  /\ slashes' = [slashes EXCEPT ![slash_counter] =
                   [NoSlash EXCEPT !.status = "Pending", !.bps = bps]]
  /\ slash_counter' = slash_counter + 1
  /\ UNCHANGED <<fundVars, stake, stake_total, stake_pool, yield_acc, max_slash_bps, slash_vote,
                 ledger>>

(* Other than a claim's, a slash's verdict does not compare the two sides. *)
SlashVerdict(b) ==
  CASE b.votes_for + b.votes_against < quorum -> "Pending"
    [] b.votes_for >= quorum -> "Approved"
    [] OTHER -> "Rejected"

VoteSlash(g, p, approve) ==
  /\ g \in governors
  /\ slash_vote[p][g] = "none"
  /\ slashes[p].status = "Pending"
  /\ slash_vote' = [slash_vote EXCEPT ![p][g] = Ballot(approve)]
  /\ LET counted == Counted(slashes[p], approve)
     IN  slashes' = [slashes EXCEPT ![p] = [counted EXCEPT !.status = SlashVerdict(counted)]]
  /\ UNCHANGED <<fundVars, stake, stake_total, stake_pool, yield_acc, max_slash_bps,
                 slash_counter, ledger>>

ActualSlash(p) ==
  LET amount == (stake_pool * slashes[p].bps) \div 10000
  IN  IF amount <= vault THEN amount ELSE vault

ExecuteSlash(p) ==
  /\ slashes[p].status = "Approved"
  /\ slashes' = [slashes EXCEPT ![p].status = "Executed"]
  /\ vault' = vault - ActualSlash(p)
  /\ stake_pool' = stake_pool - ActualSlash(p)
  /\ UNCHANGED <<governors, claim_cap, quorum, claim_counter, claims, claim_vote, stats, now,
                 gifts, stake, stake_total, yield_acc, max_slash_bps, slash_counter, slash_vote, ledger>>

SetMaxSlashBps(bps) ==
  /\ max_slash_bps' = bps
  /\ UNCHANGED <<fundVars, stake, stake_total, stake_pool, yield_acc, slash_counter, slashes,
                 slash_vote, ledger>>

StakingNext ==
  \/ \E s \in Stakers, amount \in Amounts : Stake(s, amount) \/ Unstake(s, amount)
  \/ \E amount \in Amounts : AddPlatformFees(amount)
  \/ \E s \in Stakers : ClaimYield(s)
  \/ \E g \in Governors, bps \in SlashBps : ProposeSlash(g, bps)
  \/ \E g \in Governors, p \in SlashIds, approve \in BOOLEAN : VoteSlash(g, p, approve)
  \/ \E p \in SlashIds : ExecuteSlash(p)
  \/ \E bps \in MaxBps : SetMaxSlashBps(bps)

Next == (FundNext /\ UNCHANGED stakingVars) \/ StakingNext

Spec == Init /\ [][Next]_vars

-------------------------------------------------------------------------------
(* Each counter of a claim and of a slash proposal is the number of        *)
(* governors whose recorded vote is on its side, also after governors were *)
(* removed and appointed again, and no claim is approved or paid on fewer  *)
(* votes for it than against it.                                           *)
Votes(ballots, side) == Cardinality({g \in Governors : ballots[g] = side})

Tallied(b, ballots) ==
  b.votes_for = Votes(ballots, "for") /\ b.votes_against = Votes(ballots, "against")

TallyHonest ==
  /\ \A c \in ClaimIds : Tallied(claims[c], claim_vote[c])
  /\ \A p \in SlashIds : Tallied(slashes[p], slash_vote[p])
  /\ \A c \in ClaimIds : claims[c].status \in {"Approved", "Paid"} =>
                           claims[c].votes_for > claims[c].votes_against

(* Every token of the contract's balance is accounted for: contributions   *)
(* less payouts, transfers from outside, and the pool, less the yield paid *)
(* to stakers out of whatever was there.                                   *)
VaultExplained ==
  vault = stats.total_contributed - stats.total_paid_out + gifts + stake_pool - ledger.yield

(* What a staked token is worth never falls because somebody else stakes,  *)
(* leaves, is paid yield or a claim: only a slash lowers it, although      *)
(* every leaving rounds and the pool may hold less than the stakes.  The   *)
(* last to leave takes what is left of the pool.                           *)
SlashExecuted ==
  \E p \in SlashIds : slashes[p].status = "Approved" /\ slashes'[p].status = "Executed"

SharesHold ==
  [][~SlashExecuted /\ stake_total > 0 =>
       IF stake_total' > 0
       THEN stake_pool' * stake_total >= stake_pool * stake_total'
       ELSE stake_pool' = 0]_vars

(* The yield paid and the yield that stakers could still claim are never   *)
(* more than the fees announced: nobody earns on a time before the stake,  *)
(* twice for one, or by the rounding of shares.                            *)
YieldCovered ==
  ledger.yield + MapThenSumSet(PendingYield, Stakers) <= ledger.fees
===============================================================================
