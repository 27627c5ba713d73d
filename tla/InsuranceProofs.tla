---------------------------- MODULE InsuranceProofs ----------------------------
(***************************************************************************)
(* Type correctness of the insurance fund, the account of its tokens, and  *)
(* the count of its votes, for any governors, stakers, amounts and bounds. *)
(***************************************************************************)
EXTENDS InsuranceStaking, SumProofs

-------------------------------------------------------------------------------
(* Types.  *)

SlashRecords ==
  [status : {"none", "Pending", "Approved", "Rejected", "Executed"}, bps : Nat,
   votes_for : Nat, votes_against : Nat]

ClaimRecords ==
  [status : ClaimStates, amount : Nat, expires_at : Nat, votes_for : Nat, votes_against : Nat]

LEMMA Bounds ==
  /\ MaxClaims \in Nat /\ ClaimExpiry \in Nat /\ MaxSlashes \in Nat
  /\ YieldPrecision \in Nat \ {0} /\ YieldPrecision > 0
<1> QED
  BY FundAssumption, StakingAssumption

LEMMA AmountsNat == ASSUME NEW amount \in Amounts PROVE amount \in Nat \ {0}
<1> QED
  BY FundAssumption

LEMMA Quotient == ASSUME NEW x \in Int, NEW d \in Nat \ {0} PROVE x \div d \in Int
<1> QED
  OBVIOUS

(* What is due to a staker is never more than the balance, so that it can   *)
(* be paid.                                                                 *)
LEMMA DueCovered ==
  ASSUME TypeOK, NEW s \in Stakers
  PROVE  YieldDue(s) \in Nat /\ YieldDue(s) <= vault /\ PendingYield(s) \in Int
<1>1. PendingYield(s) \in Int
  <2>1. stake[s].amount * (yield_acc - stake[s].reward_debt) \in Int
    BY DEF TypeOK
  <2> QED
    BY <2>1, Bounds, Quotient DEF PendingYield
<1>2. vault \in Nat
  BY DEF TypeOK, FundTypeOK
<1> QED
  BY <1>1, <1>2 DEF YieldDue

LEMMA ReturnTyped ==
  ASSUME TypeOK, NEW amount \in Amounts
  PROVE  ActualReturn(amount) \in Int
<1>1. amount * stake_pool \in Int /\ stake_total \in Int
  BY AmountsNat DEF TypeOK
<1>2. stake_total > 0 => stake_total \in Nat \ {0}
  BY <1>1
<1> QED
  BY <1>1, <1>2, AmountsNat, Quotient DEF ActualReturn

(* A slash takes no more than the balance.  *)
LEMMA SlashTyped ==
  ASSUME TypeOK, NEW p \in SlashIds
  PROVE  ActualSlash(p) \in Int /\ ActualSlash(p) <= vault
<1>1. vault \in Nat /\ stake_pool \in Int /\ slashes[p].bps \in Nat
  BY DEF TypeOK, FundTypeOK
<1>2. stake_pool * slashes[p].bps \in Int
  BY <1>1
<1>3. (stake_pool * slashes[p].bps) \div 10000 \in Int
  BY <1>2, Quotient
<1> QED
  BY <1>1, <1>3 DEF ActualSlash

LEMMA SettledTyped ==
  ASSUME TypeOK, NEW n \in Nat
  PROVE  Settled(n) \in [amount : Nat, reward_debt : Int]
<1>1. yield_acc \in Int
  BY DEF TypeOK
<1> QED
  BY <1>1 DEF Settled, NoStake

LEMMA TypeInit == Init => TypeOK
<1> QED
  BY FundAssumption, StakingAssumption DEF Init, FundInit, TypeOK, FundTypeOK, NoClaim, NoVotes, NoStake, NoSlash, ClaimIds,
         DefaultMaxBps, SlashIds, ClaimStates, Ballots

(* The steps of the fund leave the stakes alone.  *)
LEMMA TypeFund ==
  ASSUME TypeOK, FundNext, UNCHANGED stakingVars
  PROVE  TypeOK'
<1>1. SUFFICES FundTypeOK'
  BY DEF TypeOK, stakingVars
<1>a. FundTypeOK
  BY DEF TypeOK
<1>2. ASSUME NEW amount \in Amounts, Contribute(amount)
      PROVE  FundTypeOK'
  BY <1>2, <1>a, AmountsNat DEF FundTypeOK, Contribute
<1>3. ASSUME NEW amount \in Amounts, SubmitClaim(amount)
      PROVE  FundTypeOK'
  <2>1. claim_counter < MaxClaims /\ claim_counter \in 0 .. MaxClaims /\ now \in Nat
    BY <1>3, <1>a DEF FundTypeOK, SubmitClaim
  <2>2. claim_counter \in ClaimIds /\ claim_counter + 1 \in 0 .. MaxClaims
    BY <2>1, Bounds DEF ClaimIds
  <2>3. /\ amount \in Nat /\ now + ClaimExpiry \in Nat
        /\ claims' = [claims EXCEPT ![claim_counter] =
                        [status |-> "Pending", amount |-> amount, expires_at |-> now + ClaimExpiry,
                         votes_for |-> 0, votes_against |-> 0]]
    BY <1>3, <2>1, Bounds, AmountsNat DEF SubmitClaim
  <2>4. claims' \in [ClaimIds -> [status : ClaimStates, amount : Nat, expires_at : Nat,
                                  votes_for : Nat, votes_against : Nat]]
    BY <1>a, <2>2, <2>3 DEF FundTypeOK, ClaimStates
  <2> QED
    BY <1>3, <1>a, <2>2, <2>4 DEF FundTypeOK, SubmitClaim
<1>4. ASSUME NEW amount \in Amounts, Transfer(amount)
      PROVE  FundTypeOK'
  BY <1>4, <1>a, AmountsNat DEF FundTypeOK, Transfer
<1>5. ASSUME NEW c \in ClaimIds, WithdrawClaim(c)
      PROVE  FundTypeOK'
  BY <1>5, <1>a DEF FundTypeOK, WithdrawClaim, ClaimStates
<1>6. ASSUME NEW c \in ClaimIds, ExecutePayout(c)
      PROVE  FundTypeOK'
  <2>1. claims' \in [ClaimIds -> [status : ClaimStates, amount : Nat, expires_at : Nat,
                                  votes_for : Nat, votes_against : Nat]]
    BY <1>6, <1>a DEF FundTypeOK, ExecutePayout, ClaimStates
  <2>2. claims[c].amount \in Nat /\ vault' \in Nat
    BY <1>6, <1>a DEF FundTypeOK, ExecutePayout
  <2>3. stats' \in [total_contributed : Nat, total_paid_out : Nat, paid_claims : Nat]
    <3> DEFINE amount == claims[c].amount
    <3> HIDE DEF amount
    <3>1. amount \in Nat
      BY <2>2 DEF amount
    <3>2. stats' = [stats EXCEPT !.total_paid_out = @ + amount, !.paid_claims = @ + 1]
      BY <1>6 DEF ExecutePayout, amount
    <3>3. stats' = [total_contributed |-> stats.total_contributed,
                    total_paid_out |-> stats.total_paid_out + amount,
                    paid_claims |-> stats.paid_claims + 1]
      BY <3>2, <1>a DEF FundTypeOK
    <3> QED
      BY <3>1, <3>3, <1>a DEF FundTypeOK
  <2> QED
    BY <1>6, <1>a, <2>1, <2>2, <2>3 DEF FundTypeOK, ExecutePayout
<1>7. ASSUME NEW g \in Governors, NEW c \in ClaimIds, NEW approve \in BOOLEAN, Vote(g, c, approve)
      PROVE  FundTypeOK'
  <2>1. ClaimVerdict(Counted(claims[c], approve)) \in ClaimStates
    BY DEF ClaimVerdict, ClaimStates
  <2>2. [Counted(claims[c], approve) EXCEPT !.status = ClaimVerdict(Counted(claims[c], approve))]
          \in ClaimRecords
    <3>1. claims[c] \in ClaimRecords
      BY <1>a DEF FundTypeOK, ClaimRecords
    <3>2. Counted(claims[c], approve) \in ClaimRecords
      BY <3>1 DEF Counted, ClaimRecords
    <3> QED
      BY <2>1, <3>2 DEF ClaimRecords
  <2>3. claims' \in [ClaimIds -> ClaimRecords]
    BY <1>7, <1>a, <2>2 DEF FundTypeOK, Vote, ClaimRecords
  <2>4. claim_vote' \in [ClaimIds -> [Governors -> Ballots]]
    <3>1. Ballot(approve) \in Ballots
      BY DEF Ballot, Ballots
    <3> QED
      BY <1>7, <1>a, <3>1 DEF FundTypeOK, Vote
  <2> QED
    BY <1>7, <1>a, <2>3, <2>4 DEF FundTypeOK, Vote, ClaimRecords
<1>8. ASSUME NEW g \in Governors, AddGovernor(g) \/ RemoveGovernor(g)
      PROVE  FundTypeOK'
  BY <1>8, <1>a DEF FundTypeOK, AddGovernor, RemoveGovernor
<1>9. ASSUME NEW n \in Nat \ {0}, SetClaimCap(n)
      PROVE  FundTypeOK'
  BY <1>9, <1>a DEF FundTypeOK, SetClaimCap
<1>11. ASSUME NEW n \in Nat \ {0}, SetQuorum(n)
      PROVE  FundTypeOK'
  BY <1>11, <1>a DEF FundTypeOK, SetQuorum
<1>10. CASE Tick
  BY <1>10, <1>a DEF FundTypeOK, Tick
<1> QED
  BY <1>2, <1>3, <1>4, <1>5, <1>6, <1>7, <1>8, <1>9, <1>10, <1>11, FundAssumption DEF FundNext

LEMMA TypeStaking ==
  ASSUME TypeOK, StakingNext
  PROVE  TypeOK'
<1>a. FundTypeOK
  BY DEF TypeOK
<1>1. ASSUME NEW s \in Stakers, NEW amount \in Amounts, Stake(s, amount)
      PROVE  TypeOK'
  <2>1. vault - YieldDue(s) + amount \in Nat /\ ledger.yield + YieldDue(s) \in Int
    BY <1>a, DueCovered, AmountsNat DEF FundTypeOK, TypeOK
  <2>2. Settled(stake[s].amount + amount) \in [amount : Nat, reward_debt : Int]
    BY AmountsNat, SettledTyped DEF TypeOK
  <2>3. FundTypeOK'
    BY <1>1, <1>a, <2>1 DEF FundTypeOK, Stake
  <2> QED
    BY <1>1, <2>1, <2>2, <2>3, AmountsNat DEF TypeOK, Stake
<1>2. ASSUME NEW s \in Stakers, NEW amount \in Amounts, Unstake(s, amount)
      PROVE  TypeOK'
  <2>1. /\ vault - YieldDue(s) - ActualReturn(amount) \in Nat
        /\ ledger.yield + YieldDue(s) \in Int
        /\ stake_pool - ActualReturn(amount) \in Int
    <3>1. vault \in Nat /\ ledger.yield \in Int /\ stake_pool \in Int
      BY <1>a DEF FundTypeOK, TypeOK
    <3>2. YieldDue(s) \in Nat /\ ActualReturn(amount) \in Int
      BY DueCovered, ReturnTyped
    <3>3. vault - YieldDue(s) >= ActualReturn(amount)
      BY <1>2 DEF Unstake
    <3> QED
      BY <3>1, <3>2, <3>3
  <2>2. Settled(stake[s].amount - amount) \in [amount : Nat, reward_debt : Int]
    BY <1>2, AmountsNat, SettledTyped DEF TypeOK, Unstake
  <2>3. FundTypeOK'
    BY <1>2, <1>a, <2>1 DEF FundTypeOK, Unstake
  <2> QED
    BY <1>2, <2>1, <2>2, <2>3, AmountsNat DEF TypeOK, Unstake
<1>3. ASSUME NEW amount \in Amounts, AddPlatformFees(amount)
      PROVE  TypeOK'
  <2>1. FundTypeOK'
    BY <1>3, <1>a DEF FundTypeOK, AddPlatformFees, fundVars
  <2>2. yield_acc' \in Int
    <3>1. amount * YieldPrecision \in Int /\ stake_total \in Int /\ yield_acc \in Int
      BY AmountsNat, Bounds DEF TypeOK
    <3>2. stake_total > 0 => (amount * YieldPrecision) \div stake_total \in Int
      BY <3>1, Quotient
    <3> QED
      BY <1>3, <3>1, <3>2 DEF AddPlatformFees
  <2> QED
    BY <1>3, <2>1, <2>2, AmountsNat DEF TypeOK, AddPlatformFees
<1>4. ASSUME NEW s \in Stakers, ClaimYield(s)
      PROVE  TypeOK'
  <2>1. vault - PendingYield(s) \in Nat /\ ledger.yield + PendingYield(s) \in Int
    BY <1>4, <1>a, DueCovered DEF FundTypeOK, TypeOK, ClaimYield
  <2>2. FundTypeOK'
    BY <1>4, <1>a, <2>1 DEF FundTypeOK, ClaimYield
  <2> QED
    BY <1>4, <2>1, <2>2 DEF TypeOK, ClaimYield
<1>5. ASSUME NEW g \in Governors, NEW bps \in SlashBps, ProposeSlash(g, bps)
      PROVE  TypeOK'
  <2>1. FundTypeOK'
    BY <1>5, <1>a DEF FundTypeOK, ProposeSlash, fundVars
  <2>2. slash_counter < MaxSlashes /\ slash_counter \in 0 .. MaxSlashes
    BY <1>5 DEF TypeOK, ProposeSlash
  <2>3. slash_counter \in SlashIds /\ slash_counter + 1 \in 0 .. MaxSlashes
    BY <2>2, Bounds DEF SlashIds
  <2>4. bps \in Nat
    BY StakingAssumption
  <2>5. [NoSlash EXCEPT !.status = "Pending", !.bps = bps] \in SlashRecords
    BY <2>4 DEF NoSlash, SlashRecords
  <2> QED
    BY <1>5, <2>1, <2>3, <2>5 DEF TypeOK, ProposeSlash, SlashRecords
<1>6. ASSUME NEW g \in Governors, NEW p \in SlashIds, NEW approve \in BOOLEAN,
             VoteSlash(g, p, approve)
      PROVE  TypeOK'
  <2>1. FundTypeOK'
    BY <1>6, <1>a DEF FundTypeOK, VoteSlash, fundVars
  <2>2. SlashVerdict(Counted(slashes[p], approve)) \in {"Pending", "Approved", "Rejected"}
    BY DEF SlashVerdict
  <2>3. Counted(slashes[p], approve) \in SlashRecords
    BY DEF TypeOK, Counted, SlashRecords
  <2>4. [Counted(slashes[p], approve) EXCEPT !.status = SlashVerdict(Counted(slashes[p], approve))]
          \in SlashRecords
    BY <2>2, <2>3 DEF SlashRecords
  <2>5. slashes' \in [SlashIds -> SlashRecords]
    BY <1>6, <2>4 DEF TypeOK, VoteSlash, SlashRecords
  <2>6. slash_vote' \in [SlashIds -> [Governors -> Ballots]]
    BY <1>6 DEF TypeOK, VoteSlash, Ballot, Ballots
  <2>7. UNCHANGED <<stake, stake_total, stake_pool, yield_acc, max_slash_bps, slash_counter, ledger>>
    BY <1>6 DEF VoteSlash
  <2> QED
    BY <2>1, <2>5, <2>6, <2>7 DEF TypeOK, SlashRecords
<1>7. ASSUME NEW p \in SlashIds, ExecuteSlash(p)
      PROVE  TypeOK'
  <2>1. vault - ActualSlash(p) \in Nat /\ stake_pool - ActualSlash(p) \in Int
    BY <1>a, SlashTyped DEF FundTypeOK, TypeOK
  <2>2. FundTypeOK'
    BY <1>7, <1>a, <2>1 DEF FundTypeOK, ExecuteSlash
  <2> QED
    BY <1>7, <2>1, <2>2 DEF TypeOK, ExecuteSlash
<1>8. ASSUME NEW bps \in MaxBps, SetMaxSlashBps(bps)
      PROVE  TypeOK'
  <2>1. FundTypeOK'
    BY <1>8, <1>a DEF FundTypeOK, SetMaxSlashBps, fundVars
  <2> QED
    BY <1>8, <2>1, StakingAssumption DEF TypeOK, SetMaxSlashBps
<1> QED
  BY <1>1, <1>2, <1>3, <1>4, <1>5, <1>6, <1>7, <1>8 DEF StakingNext

LEMMA TypeStep == TypeOK /\ [Next]_vars => TypeOK'
<1> SUFFICES ASSUME TypeOK, [Next]_vars PROVE TypeOK'
  OBVIOUS
<1>1. CASE FundNext /\ UNCHANGED stakingVars
  BY <1>1, TypeFund
<1>2. CASE StakingNext
  BY <1>2, TypeStaking
<1>3. CASE UNCHANGED vars
  BY <1>3 DEF vars, fundVars, stakingVars, TypeOK, FundTypeOK
<1> QED
  BY <1>1, <1>2, <1>3 DEF Next

(* Every reachable state of the fund is well typed: in particular the      *)
(* balance never goes below zero, whatever is paid, staked and slashed.    *)
THEOREM InsuranceTypeCorrect == Spec => []TypeOK
<1> QED
  BY TypeInit, TypeStep, PTL DEF Spec

-------------------------------------------------------------------------------
(* The account of the balance.  *)

LEMMA ExplainedFund ==
  ASSUME TypeOK, VaultExplained, FundNext, UNCHANGED stakingVars
  PROVE  VaultExplained'
<1>a. FundTypeOK /\ stake_pool \in Int /\ ledger.yield \in Int
  BY DEF TypeOK
<1>b. stake_pool' = stake_pool /\ ledger' = ledger
  BY DEF stakingVars
<1>2. ASSUME NEW amount \in Amounts, Contribute(amount) PROVE VaultExplained'
  BY <1>2, <1>a, <1>b, AmountsNat DEF FundTypeOK, Contribute, VaultExplained
<1>3. ASSUME NEW amount \in Amounts, Transfer(amount) PROVE VaultExplained'
  BY <1>3, <1>a, <1>b, AmountsNat DEF FundTypeOK, Transfer, VaultExplained
<1>4. ASSUME NEW c \in ClaimIds, ExecutePayout(c) PROVE VaultExplained'
  <2> DEFINE amount == claims[c].amount
  <2>1. amount \in Nat
    BY <1>a DEF FundTypeOK
  <2>2. /\ vault' = vault - amount /\ gifts' = gifts
        /\ stats' = [stats EXCEPT !.total_paid_out = @ + amount, !.paid_claims = @ + 1]
    BY <1>4 DEF ExecutePayout
  <2> HIDE DEF amount
  <2>3. /\ stats'.total_contributed = stats.total_contributed
        /\ stats'.total_paid_out = stats.total_paid_out + amount
    BY <2>2, <1>a DEF FundTypeOK
  <2> QED
    BY <2>1, <2>2, <2>3, <1>a, <1>b DEF FundTypeOK, VaultExplained
<1>5. CASE UNCHANGED <<vault, stats, gifts>>
  BY <1>5, <1>b DEF VaultExplained
<1>6. \/ \E amount \in Amounts : Contribute(amount) \/ Transfer(amount)
      \/ \E c \in ClaimIds : ExecutePayout(c)
      \/ UNCHANGED <<vault, stats, gifts>>
  BY DEF FundNext, SubmitClaim, WithdrawClaim, Vote, AddGovernor, RemoveGovernor, SetClaimCap,
         SetQuorum, Tick
<1> QED
  BY <1>2, <1>3, <1>4, <1>5, <1>6

LEMMA ExplainedStaking ==
  ASSUME TypeOK, VaultExplained, StakingNext
  PROVE  VaultExplained'
<1>a. /\ vault \in Nat /\ gifts \in Nat /\ stake_pool \in Int /\ ledger.yield \in Int
      /\ stats.total_contributed \in Nat /\ stats.total_paid_out \in Nat
      /\ ledger \in [fees : Nat, yield : Int]
  BY DEF TypeOK, FundTypeOK
<1>1. ASSUME NEW s \in Stakers, NEW amount \in Amounts, Stake(s, amount) PROVE VaultExplained'
  BY <1>1, <1>a, AmountsNat, DueCovered DEF Stake, VaultExplained
<1>2. ASSUME NEW s \in Stakers, NEW amount \in Amounts, Unstake(s, amount) PROVE VaultExplained'
  BY <1>2, <1>a, AmountsNat, DueCovered, ReturnTyped DEF Unstake, VaultExplained
<1>3. ASSUME NEW s \in Stakers, ClaimYield(s) PROVE VaultExplained'
  BY <1>3, <1>a, DueCovered DEF ClaimYield, VaultExplained
<1>4. ASSUME NEW p \in SlashIds, ExecuteSlash(p) PROVE VaultExplained'
  BY <1>4, <1>a, SlashTyped DEF ExecuteSlash, VaultExplained
<1>5. ASSUME NEW amount \in Amounts, AddPlatformFees(amount) PROVE VaultExplained'
  BY <1>5, <1>a DEF AddPlatformFees, fundVars, VaultExplained
<1>6. CASE UNCHANGED <<vault, stats, gifts, stake_pool, ledger>>
  BY <1>6 DEF VaultExplained
<1>7. \/ \E s \in Stakers, amount \in Amounts : Stake(s, amount) \/ Unstake(s, amount)
      \/ \E s \in Stakers : ClaimYield(s)
      \/ \E p \in SlashIds : ExecuteSlash(p)
      \/ \E amount \in Amounts : AddPlatformFees(amount)
      \/ UNCHANGED <<vault, stats, gifts, stake_pool, ledger>>
  BY DEF StakingNext, ProposeSlash, VoteSlash, SetMaxSlashBps, fundVars
<1> QED
  BY <1>1, <1>2, <1>3, <1>4, <1>5, <1>6, <1>7

(* Every token of the contract's balance is accounted for at any time:     *)
(* nothing is created, and nothing leaves but by payouts, yield, returned  *)
(* stakes and slashes.                                                     *)
THEOREM InsuranceVaultExplained == Spec => []VaultExplained
<1>1. Init => VaultExplained
  BY DEF Init, FundInit, VaultExplained
<1>2. TypeOK /\ VaultExplained /\ [Next]_vars => VaultExplained'
  <2> SUFFICES ASSUME TypeOK, VaultExplained, [Next]_vars PROVE VaultExplained'
    OBVIOUS
  <2>1. CASE FundNext /\ UNCHANGED stakingVars
    BY <2>1, ExplainedFund
  <2>2. CASE StakingNext
    BY <2>2, ExplainedStaking
  <2>3. CASE UNCHANGED vars
    BY <2>3 DEF vars, fundVars, stakingVars, VaultExplained
  <2> QED
    BY <2>1, <2>2, <2>3 DEF Next
<1> QED
  BY <1>1, <1>2, InsuranceTypeCorrect, PTL DEF Spec

-------------------------------------------------------------------------------
(* The count of votes.  A vote is only counted on what was submitted or    *)
(* proposed, so that a new claim or proposal starts without votes: that is *)
(* what the count needs beside itself to be kept by every step.            *)

NothingEarly ==
  /\ \A c \in ClaimIds : c >= claim_counter => claims[c].status = "none"
  /\ \A c \in ClaimIds : claims[c].status = "none" => claim_vote[c] = NoVotes
  /\ \A p \in SlashIds : p >= slash_counter => slashes[p].status = "none"
  /\ \A p \in SlashIds : slashes[p].status = "none" => slash_vote[p] = NoVotes

TallyInv == NothingEarly /\ TallyHonest

Sides == {"for", "against"}

LEMMA NoVotesCounted == ASSUME NEW side \in Sides PROVE Votes(NoVotes, side) = 0
<1>1. {g \in Governors : NoVotes[g] = side} = {}
  BY DEF NoVotes, Sides
<1> QED
  BY <1>1, FS_EmptySet DEF Votes

(* A governor who has not voted adds one to the chosen side.  *)
LEMMA VoteCounted ==
  ASSUME NEW ballots \in [Governors -> Ballots], NEW g \in Governors, ballots[g] = "none",
         NEW cast \in Sides, NEW side \in Sides
  PROVE  /\ Votes(ballots, side) \in Nat
         /\ Votes([ballots EXCEPT ![g] = cast], side) =
              IF side = cast THEN Votes(ballots, side) + 1 ELSE Votes(ballots, side)
<1> DEFINE before == {h \in Governors : ballots[h] = side}
<1> DEFINE after == {h \in Governors : [ballots EXCEPT ![g] = cast][h] = side}
<1>1. IsFiniteSet(before)
  BY FundAssumption, FS_Subset
<1>2. g \notin before
  BY DEF Sides
<1>3. after = IF side = cast THEN before \cup {g} ELSE before
  BY DEF Sides
<1>4. Cardinality(before) \in Nat /\ Cardinality(before \cup {g}) = Cardinality(before) + 1
  BY <1>1, <1>2, FS_AddElement, FS_CardinalityType
<1> QED
  BY <1>3, <1>4 DEF Votes

(* A counted vote keeps a tally in step with the ballots.  *)
LEMMA TallyKept ==
  ASSUME NEW ballots \in [Governors -> Ballots], NEW g \in Governors, ballots[g] = "none",
         NEW b \in ClaimRecords \cup SlashRecords, Tallied(b, ballots),
         NEW approve \in BOOLEAN, NEW verdict
  PROVE  Tallied([Counted(b, approve) EXCEPT !.status = verdict],
                 [ballots EXCEPT ![g] = Ballot(approve)])
<1> DEFINE counted == [Counted(b, approve) EXCEPT !.status = verdict]
<1>1. Ballot(approve) \in Sides /\ (Ballot(approve) = "for" <=> approve)
  BY DEF Ballot, Sides
<1>2. "for" \in Sides /\ "against" \in Sides
  BY DEF Sides
<1>0. \A side \in Sides : Votes([ballots EXCEPT ![g] = Ballot(approve)], side) =
        IF side = Ballot(approve) THEN Votes(ballots, side) + 1 ELSE Votes(ballots, side)
  BY <1>1, VoteCounted
<1>3. Votes([ballots EXCEPT ![g] = Ballot(approve)], "for") =
        IF approve THEN Votes(ballots, "for") + 1 ELSE Votes(ballots, "for")
  BY <1>0, <1>1, <1>2
<1>4. Votes([ballots EXCEPT ![g] = Ballot(approve)], "against") =
        IF approve THEN Votes(ballots, "against") ELSE Votes(ballots, "against") + 1
  <2>1. "against" = Ballot(approve) <=> ~approve
    BY DEF Ballot
  <2> QED
    BY <1>0, <1>2, <2>1
<1>5. CASE b \in ClaimRecords
  <2>1. /\ counted.votes_for = IF approve THEN b.votes_for + 1 ELSE b.votes_for
        /\ counted.votes_against = IF approve THEN b.votes_against ELSE b.votes_against + 1
    BY <1>5 DEF Counted, ClaimRecords
  <2> QED
    BY <1>3, <1>4, <2>1 DEF Tallied
<1>6. CASE b \in SlashRecords
  <2>1. /\ counted.votes_for = IF approve THEN b.votes_for + 1 ELSE b.votes_for
        /\ counted.votes_against = IF approve THEN b.votes_against ELSE b.votes_against + 1
    BY <1>6 DEF Counted, SlashRecords
  <2> QED
    BY <1>3, <1>4, <2>1 DEF Tallied
<1> QED
  BY <1>5, <1>6

LEMMA TallyInit == Init => TallyInv
<1> SUFFICES ASSUME Init PROVE TallyInv
  OBVIOUS
<1>1. /\ claims = [c \in ClaimIds |-> NoClaim] /\ claim_vote = [c \in ClaimIds |-> NoVotes]
      /\ slashes = [p \in SlashIds |-> NoSlash] /\ slash_vote = [p \in SlashIds |-> NoVotes]
  BY DEF Init, FundInit
<1>2. Votes(NoVotes, "for") = 0 /\ Votes(NoVotes, "against") = 0
  BY NoVotesCounted DEF Sides
<1>3. Tallied(NoClaim, NoVotes) /\ Tallied(NoSlash, NoVotes)
  BY <1>2 DEF Tallied, NoClaim, NoSlash
<1>4. NoClaim.status = "none" /\ NoSlash.status = "none"
  BY DEF NoClaim, NoSlash
<1> QED
  BY <1>1, <1>3, <1>4 DEF TallyInv, NothingEarly, TallyHonest

(* The claims' half of the invariant, which only the fund's steps touch.  *)
ClaimTally ==
  /\ \A c \in ClaimIds : c >= claim_counter => claims[c].status = "none"
  /\ \A c \in ClaimIds : claims[c].status = "none" => claim_vote[c] = NoVotes
  /\ \A c \in ClaimIds : Tallied(claims[c], claim_vote[c])
  /\ \A c \in ClaimIds : claims[c].status \in {"Approved", "Paid"} =>
                           claims[c].votes_for > claims[c].votes_against

SlashTally ==
  /\ \A p \in SlashIds : p >= slash_counter => slashes[p].status = "none"
  /\ \A p \in SlashIds : slashes[p].status = "none" => slash_vote[p] = NoVotes
  /\ \A p \in SlashIds : Tallied(slashes[p], slash_vote[p])

LEMMA TallyHalves == TallyInv <=> ClaimTally /\ SlashTally
<1> QED
  BY DEF TallyInv, NothingEarly, TallyHonest, ClaimTally, SlashTally

LEMMA FundKeepsTally ==
  ASSUME TypeOK, ClaimTally, FundNext
  PROVE  ClaimTally'
<1>a. /\ claims \in [ClaimIds -> ClaimRecords]
      /\ claim_vote \in [ClaimIds -> [Governors -> Ballots]]
      /\ claim_counter \in 0 .. MaxClaims
      /\ \A c \in ClaimIds : c \in Int
  <2>1. \A c \in ClaimIds : c \in Int
    BY Bounds DEF ClaimIds
  <2> QED
    BY <2>1 DEF TypeOK, FundTypeOK, ClaimRecords
<1>b. Votes(NoVotes, "for") = 0 /\ Votes(NoVotes, "against") = 0
  BY NoVotesCounted DEF Sides
<1>1. ASSUME NEW amount \in Amounts, SubmitClaim(amount) PROVE ClaimTally'
  <2> DEFINE fresh == [status |-> "Pending", amount |-> amount, expires_at |-> now + ClaimExpiry,
                       votes_for |-> 0, votes_against |-> 0]
  <2>1. /\ claims' = [claims EXCEPT ![claim_counter] = fresh]
        /\ claim_counter' = claim_counter + 1 /\ claim_vote' = claim_vote
        /\ claim_counter < MaxClaims
    BY <1>1 DEF SubmitClaim
  <2>2. claim_counter \in ClaimIds
    BY <1>a, <2>1, Bounds DEF ClaimIds
  <2>3. claim_vote[claim_counter] = NoVotes
    BY <1>a, <2>2 DEF ClaimTally
  <2>4. Tallied(fresh, NoVotes) /\ fresh.status = "Pending"
    BY <1>b DEF Tallied
  <2>5. \A c \in ClaimIds : claims'[c] = IF c = claim_counter THEN fresh ELSE claims[c]
    BY <1>a, <2>1
  <2> HIDE DEF fresh
  <2>6. \A c \in ClaimIds : Tallied(claims'[c], claim_vote'[c])
    BY <2>1, <2>3, <2>4, <2>5 DEF ClaimTally
  <2>7. \A c \in ClaimIds : c >= claim_counter' => claims'[c].status = "none"
    BY <1>a, <2>1, <2>5 DEF ClaimTally
  <2>8. \A c \in ClaimIds : claims'[c].status = "none" => claim_vote'[c] = NoVotes
    BY <2>1, <2>4, <2>5 DEF ClaimTally
  <2>9. \A c \in ClaimIds : claims'[c].status \in {"Approved", "Paid"} =>
                             claims'[c].votes_for > claims'[c].votes_against
    BY <2>4, <2>5 DEF ClaimTally
  <2> QED
    BY <2>6, <2>7, <2>8, <2>9 DEF ClaimTally, Tallied, Votes
<1>2. ASSUME NEW c \in ClaimIds, NEW next \in {"Withdrawn", "Paid"},
             claims[c].status \in {"Pending", "Approved"},
             next = "Paid" => claims[c].status = "Approved",
             claims' = [claims EXCEPT ![c].status = next],
             claim_vote' = claim_vote, claim_counter' = claim_counter
      PROVE  ClaimTally'
  <2>1. \A d \in ClaimIds : /\ claims'[d].votes_for = claims[d].votes_for
                            /\ claims'[d].votes_against = claims[d].votes_against
                            /\ claims'[d].status = IF d = c THEN next ELSE claims[d].status
    BY <1>a, <1>2 DEF ClaimRecords
  <2>2. \A d \in ClaimIds : Tallied(claims'[d], claim_vote'[d])
    BY <1>2, <2>1 DEF ClaimTally, Tallied
  <2>3. \A d \in ClaimIds : claims'[d].status = "none" => claim_vote'[d] = NoVotes
    BY <1>2, <2>1 DEF ClaimTally
  <2>4. \A d \in ClaimIds : d >= claim_counter' => claims'[d].status = "none"
    BY <1>2, <2>1 DEF ClaimTally
  <2>5. \A d \in ClaimIds : claims'[d].status \in {"Approved", "Paid"} =>
                             claims'[d].votes_for > claims'[d].votes_against
    BY <1>2, <2>1 DEF ClaimTally
  <2> QED
    BY <2>2, <2>3, <2>4, <2>5 DEF ClaimTally, Tallied, Votes
<1>3. ASSUME NEW g \in Governors, NEW c \in ClaimIds, NEW approve \in BOOLEAN, Vote(g, c, approve)
      PROVE  ClaimTally'
  <2> DEFINE counted == Counted(claims[c], approve)
             after == [counted EXCEPT !.status = ClaimVerdict(counted)]
             ballots == [claim_vote[c] EXCEPT ![g] = Ballot(approve)]
  <2>1. /\ claims' = [claims EXCEPT ![c] = after]
        /\ claim_vote' = [claim_vote EXCEPT ![c] = ballots]
        /\ claim_counter' = claim_counter
        /\ claim_vote[c][g] = "none" /\ claims[c].status = "Pending"
    BY <1>3, <1>a DEF Vote
  <2>2. claims[c] \in ClaimRecords /\ claim_vote[c] \in [Governors -> Ballots]
    BY <1>a
  <2>3. Tallied(after, ballots)
    BY <2>1, <2>2, TallyKept DEF ClaimTally
  <2>4. counted \in ClaimRecords
    BY <2>2 DEF Counted, ClaimRecords
  <2>5. /\ after.status = ClaimVerdict(counted)
        /\ after.votes_for = counted.votes_for /\ after.votes_against = counted.votes_against
    BY <2>4 DEF ClaimRecords
  <2>6. /\ after.status # "none"
        /\ after.status \in {"Approved", "Paid"} => after.votes_for > after.votes_against
    BY <2>5 DEF ClaimVerdict
  <2>7. \A d \in ClaimIds : /\ claims'[d] = IF d = c THEN after ELSE claims[d]
                            /\ claim_vote'[d] = IF d = c THEN ballots ELSE claim_vote[d]
    BY <1>a, <2>1
  <2> HIDE DEF after, ballots, counted
  <2>8. \A d \in ClaimIds : Tallied(claims'[d], claim_vote'[d])
    BY <2>3, <2>7 DEF ClaimTally
  <2>9. \A d \in ClaimIds : claims'[d].status = "none" => claim_vote'[d] = NoVotes
    BY <2>6, <2>7 DEF ClaimTally
  <2>10. c < claim_counter
    BY <1>a, <2>1 DEF ClaimTally
  <2>11. \A d \in ClaimIds : d >= claim_counter' => claims'[d].status = "none"
    BY <1>a, <2>1, <2>7, <2>10 DEF ClaimTally
  <2>12. \A d \in ClaimIds : claims'[d].status \in {"Approved", "Paid"} =>
                              claims'[d].votes_for > claims'[d].votes_against
    BY <2>6, <2>7 DEF ClaimTally
  <2> QED
    BY <2>8, <2>9, <2>11, <2>12 DEF ClaimTally, Tallied, Votes
<1>4. ASSUME NEW c \in ClaimIds, WithdrawClaim(c) PROVE ClaimTally'
  BY <1>4, <1>2 DEF WithdrawClaim
<1>5. ASSUME NEW c \in ClaimIds, ExecutePayout(c) PROVE ClaimTally'
  BY <1>5, <1>2 DEF ExecutePayout
<1>6. CASE UNCHANGED <<claims, claim_vote, claim_counter>>
  BY <1>6 DEF ClaimTally, Tallied, Votes
<1>7. \/ \E amount \in Amounts : SubmitClaim(amount)
      \/ \E c \in ClaimIds : WithdrawClaim(c) \/ ExecutePayout(c)
      \/ \E g \in Governors, c \in ClaimIds, approve \in BOOLEAN : Vote(g, c, approve)
      \/ UNCHANGED <<claims, claim_vote, claim_counter>>
  BY DEF FundNext, Contribute, Transfer, AddGovernor, RemoveGovernor, SetClaimCap, SetQuorum, Tick
<1> QED
  BY <1>1, <1>3, <1>4, <1>5, <1>6, <1>7

LEMMA StakingKeepsTally ==
  ASSUME TypeOK, SlashTally, StakingNext
  PROVE  SlashTally'
<1>a. /\ slashes \in [SlashIds -> SlashRecords]
      /\ slash_vote \in [SlashIds -> [Governors -> Ballots]]
      /\ slash_counter \in 0 .. MaxSlashes
      /\ \A p \in SlashIds : p \in Int
  <2>1. \A p \in SlashIds : p \in Int
    BY Bounds DEF SlashIds
  <2> QED
    BY <2>1 DEF TypeOK, SlashRecords
<1>b. Votes(NoVotes, "for") = 0 /\ Votes(NoVotes, "against") = 0
  BY NoVotesCounted DEF Sides
<1>1. ASSUME NEW g \in Governors, NEW bps \in SlashBps, ProposeSlash(g, bps) PROVE SlashTally'
  <2> DEFINE fresh == [NoSlash EXCEPT !.status = "Pending", !.bps = bps]
  <2>1. /\ slashes' = [slashes EXCEPT ![slash_counter] = fresh]
        /\ slash_counter' = slash_counter + 1 /\ slash_vote' = slash_vote
        /\ slash_counter < MaxSlashes
    BY <1>1 DEF ProposeSlash
  <2>2. slash_counter \in SlashIds
    BY <1>a, <2>1, Bounds DEF SlashIds
  <2>3. slash_vote[slash_counter] = NoVotes
    BY <1>a, <2>2 DEF SlashTally
  <2>4. Tallied(fresh, NoVotes) /\ fresh.status = "Pending"
    BY <1>b DEF Tallied, NoSlash
  <2>5. \A p \in SlashIds : slashes'[p] = IF p = slash_counter THEN fresh ELSE slashes[p]
    BY <1>a, <2>1
  <2> HIDE DEF fresh
  <2>6. \A p \in SlashIds : Tallied(slashes'[p], slash_vote'[p])
    BY <2>1, <2>3, <2>4, <2>5 DEF SlashTally
  <2>7. \A p \in SlashIds : p >= slash_counter' => slashes'[p].status = "none"
    BY <1>a, <2>1, <2>5 DEF SlashTally
  <2>8. \A p \in SlashIds : slashes'[p].status = "none" => slash_vote'[p] = NoVotes
    BY <2>1, <2>4, <2>5 DEF SlashTally
  <2> QED
    BY <2>6, <2>7, <2>8 DEF SlashTally, Tallied, Votes
<1>2. ASSUME NEW g \in Governors, NEW p \in SlashIds, NEW approve \in BOOLEAN,
             VoteSlash(g, p, approve)
      PROVE  SlashTally'
  <2> DEFINE counted == Counted(slashes[p], approve)
             after == [counted EXCEPT !.status = SlashVerdict(counted)]
             ballots == [slash_vote[p] EXCEPT ![g] = Ballot(approve)]
  <2>1. /\ slashes' = [slashes EXCEPT ![p] = after]
        /\ slash_vote' = [slash_vote EXCEPT ![p] = ballots]
        /\ slash_counter' = slash_counter
        /\ slash_vote[p][g] = "none" /\ slashes[p].status = "Pending"
    BY <1>2, <1>a DEF VoteSlash
  <2>2. slashes[p] \in SlashRecords /\ slash_vote[p] \in [Governors -> Ballots]
    BY <1>a
  <2>3. Tallied(after, ballots)
    BY <2>1, <2>2, TallyKept DEF SlashTally
  <2>4. counted \in SlashRecords
    BY <2>2 DEF Counted, SlashRecords
  <2>5. after.status = SlashVerdict(counted)
    BY <2>4 DEF SlashRecords
  <2>6. after.status # "none"
    BY <2>5 DEF SlashVerdict
  <2>7. \A q \in SlashIds : /\ slashes'[q] = IF q = p THEN after ELSE slashes[q]
                            /\ slash_vote'[q] = IF q = p THEN ballots ELSE slash_vote[q]
    BY <1>a, <2>1
  <2> HIDE DEF after, ballots, counted
  <2>8. \A q \in SlashIds : Tallied(slashes'[q], slash_vote'[q])
    BY <2>3, <2>7 DEF SlashTally
  <2>9. \A q \in SlashIds : slashes'[q].status = "none" => slash_vote'[q] = NoVotes
    BY <2>6, <2>7 DEF SlashTally
  <2>10. p < slash_counter
    BY <1>a, <2>1 DEF SlashTally
  <2>11. \A q \in SlashIds : q >= slash_counter' => slashes'[q].status = "none"
    BY <1>a, <2>1, <2>7, <2>10 DEF SlashTally
  <2> QED
    BY <2>8, <2>9, <2>11 DEF SlashTally, Tallied, Votes
<1>3. ASSUME NEW p \in SlashIds, ExecuteSlash(p) PROVE SlashTally'
  <2>1. \A q \in SlashIds : /\ slashes'[q].votes_for = slashes[q].votes_for
                            /\ slashes'[q].votes_against = slashes[q].votes_against
                            /\ slashes'[q].status = IF q = p THEN "Executed" ELSE slashes[q].status
    BY <1>a, <1>3 DEF ExecuteSlash, SlashRecords
  <2>2. slashes[p].status = "Approved" /\ UNCHANGED <<slash_vote, slash_counter>>
    BY <1>3 DEF ExecuteSlash
  <2>3. \A q \in SlashIds : Tallied(slashes'[q], slash_vote'[q])
    BY <2>1, <2>2 DEF SlashTally, Tallied
  <2>4. \A q \in SlashIds : /\ slashes'[q].status = "none" => slash_vote'[q] = NoVotes
                            /\ q >= slash_counter' => slashes'[q].status = "none"
    BY <2>1, <2>2 DEF SlashTally
  <2> QED
    BY <2>3, <2>4 DEF SlashTally, Tallied, Votes
<1>4. CASE UNCHANGED <<slashes, slash_vote, slash_counter>>
  BY <1>4 DEF SlashTally, Tallied, Votes
<1>5. \/ \E g \in Governors, bps \in SlashBps : ProposeSlash(g, bps)
      \/ \E g \in Governors, p \in SlashIds, approve \in BOOLEAN : VoteSlash(g, p, approve)
      \/ \E p \in SlashIds : ExecuteSlash(p)
      \/ UNCHANGED <<slashes, slash_vote, slash_counter>>
  BY DEF StakingNext, Stake, Unstake, AddPlatformFees, ClaimYield, SetMaxSlashBps
<1> QED
  BY <1>1, <1>2, <1>3, <1>4, <1>5

(* Staking leaves the claims and their votes alone.  *)
LEMMA StakingLeavesClaims ==
  ASSUME StakingNext
  PROVE  UNCHANGED <<claims, claim_vote, claim_counter>>
<1> QED
  BY DEF StakingNext, Stake, Unstake, AddPlatformFees, ClaimYield, ProposeSlash, VoteSlash,
         ExecuteSlash, SetMaxSlashBps, fundVars

LEMMA TallyStep == TypeOK /\ TallyInv /\ [Next]_vars => TallyInv'
<1> SUFFICES ASSUME TypeOK, TallyInv, [Next]_vars PROVE ClaimTally' /\ SlashTally'
  BY DEF TallyInv, NothingEarly, TallyHonest, ClaimTally, SlashTally
<1>a. ClaimTally /\ SlashTally
  BY TallyHalves
<1>1. CASE FundNext /\ UNCHANGED stakingVars
  BY <1>1, <1>a, FundKeepsTally DEF stakingVars, SlashTally, Tallied, Votes
<1>2. CASE StakingNext
  <2>1. ClaimTally'
    <3>1. claims' = claims /\ claim_vote' = claim_vote /\ claim_counter' = claim_counter
      BY <1>2, StakingLeavesClaims
    <3> QED
      BY <3>1, <1>a DEF ClaimTally, Tallied, Votes
  <2> QED
    BY <1>2, <1>a, <2>1, StakingKeepsTally
<1>3. CASE UNCHANGED vars
  BY <1>3, <1>a DEF vars, fundVars, stakingVars, ClaimTally, SlashTally, Tallied, Votes
<1> QED
  BY <1>1, <1>2, <1>3 DEF Next

(* However governors come and go, what decides a claim or a slash is the   *)
(* number of governors who voted, each once.                               *)
THEOREM InsuranceTallyHonest == Spec => []TallyHonest
<1>1. TallyInv => TallyHonest
  BY DEF TallyInv
<1> QED
  BY <1>1, TallyInit, TallyStep, InsuranceTypeCorrect, PTL DEF Spec

-------------------------------------------------------------------------------
(* What the stakes add up to, and what they have earned.                   *)

Held == [s \in Stakers |-> stake[s].amount]

(* What a stake has earned, before the division by the precision.  *)
Earned == [s \in Stakers |-> stake[s].amount * (yield_acc - stake[s].reward_debt)]

(* A pool that is worth no more than was staked, slashes that leave a part *)
(* of it, and fees that cover what was paid and what is earned.            *)
StakeInv ==
  /\ stake_total = SumOver(Held, Stakers)
  /\ stake_pool \in 0 .. stake_total
  /\ \A p \in SlashIds : slashes[p].bps <= 4000
  /\ yield_acc >= 0
  /\ \A s \in Stakers : stake[s].reward_debt <= yield_acc
  /\ YieldPrecision * ledger.yield + SumOver(Earned, Stakers) <= YieldPrecision * ledger.fees

LEMMA Divided ==
  ASSUME NEW x \in Int, NEW d \in Nat \ {0}
  PROVE  /\ x \div d \in Int
         /\ d * (x \div d) <= x
         /\ x < d * (x \div d) + d
         /\ x >= 0 => x \div d >= 0
<1>1. x \div d \in Int
  OBVIOUS
<1>2. d * (x \div d) <= x
  OBVIOUS
<1>3. x < d * (x \div d) + d
  OBVIOUS
<1>4. x >= 0 => x \div d >= 0
  OBVIOUS
<1> QED
  BY <1>1, <1>2, <1>3, <1>4

LEMMA ProductNat == ASSUME NEW x \in Int, NEW y \in Int, x >= 0, y >= 0
                    PROVE  x * y \in Nat
<1> QED
  OBVIOUS

LEMMA StakesTyped ==
  ASSUME TypeOK, StakeInv
  PROVE  /\ Held \in [Stakers -> Nat] /\ Earned \in [Stakers -> Nat]
         /\ stake_total \in Nat /\ stake_pool \in Nat /\ yield_acc \in Nat
         /\ SumOver(Earned, Stakers) \in Nat
         /\ \A s \in Stakers : stake[s].amount <= stake_total
<1>1. \A s \in Stakers : stake[s].amount \in Nat /\ stake[s].reward_debt \in Int
  BY DEF TypeOK
<1>2. Held \in [Stakers -> Nat]
  BY <1>1 DEF Held
<1>3. yield_acc \in Nat
  BY DEF TypeOK, StakeInv
<1>4. ASSUME NEW s \in Stakers
      PROVE  stake[s].amount * (yield_acc - stake[s].reward_debt) \in Nat
  <2>1. yield_acc - stake[s].reward_debt \in Int /\ yield_acc - stake[s].reward_debt >= 0
    BY <1>1, <1>3 DEF StakeInv
  <2>2. stake[s].amount \in Int /\ stake[s].amount >= 0
    BY <1>1
  <2> QED
    BY <2>1, <2>2, ProductNat
<1>5. Earned \in [Stakers -> Nat]
  BY <1>4 DEF Earned
<1>6. IsFiniteSet(Stakers)
  BY StakingAssumption
<1>7. SumOver(Held, Stakers) \in Nat /\ \A s \in Stakers : Held[s] <= SumOver(Held, Stakers)
  BY <1>2, <1>6, SumOverNat
<1>8. SumOver(Earned, Stakers) \in Nat
  BY <1>5, <1>6, SumOverNat
<1>9. stake_total = SumOver(Held, Stakers) /\ stake_pool \in 0 .. stake_total
  BY DEF StakeInv
<1>10. \A s \in Stakers : Held[s] = stake[s].amount
  BY DEF Held
<1>11. \A s \in Stakers : stake[s].amount <= stake_total
  BY <1>7, <1>9, <1>10
<1> QED
  BY <1>2, <1>3, <1>5, <1>7, <1>8, <1>9, <1>11

(* What is paid to a staker was earned by the stake.  *)
LEMMA PaidFromEarned ==
  ASSUME TypeOK, StakeInv, NEW s \in Stakers
  PROVE  /\ PendingYield(s) \in Nat /\ YieldDue(s) \in Nat
         /\ YieldPrecision * PendingYield(s) <= Earned[s]
         /\ YieldPrecision * YieldDue(s) <= Earned[s]
<1>1. Earned[s] \in Nat
  BY StakesTyped
<1>2. PendingYield(s) = Earned[s] \div YieldPrecision
  BY DEF PendingYield, Earned
<1>3. /\ PendingYield(s) \in Nat
      /\ YieldPrecision * PendingYield(s) <= Earned[s]
  BY <1>1, <1>2, Bounds, Divided
<1>4. YieldDue(s) = PendingYield(s) \/ YieldDue(s) = 0
  BY DEF YieldDue
<1>5. YieldPrecision * 0 = 0
  BY Bounds
<1> QED
  BY <1>1, <1>3, <1>4, <1>5

LEMMA StakeInit == Init => StakeInv
<1> SUFFICES ASSUME Init PROVE StakeInv
  OBVIOUS
<1>1. \A s \in Stakers : stake[s].amount = 0 /\ stake[s].reward_debt = 0
  BY DEF Init, NoStake
<1>2. /\ stake_total = 0 /\ stake_pool = 0 /\ yield_acc = 0
      /\ ledger.yield = 0 /\ ledger.fees = 0
  BY DEF Init
<1>3. Held \in [Stakers -> Int] /\ \A s \in Stakers : Held[s] = 0
  BY <1>1 DEF Held
<1>4. Earned \in [Stakers -> Int] /\ \A s \in Stakers : Earned[s] = 0
  BY <1>1, <1>2 DEF Earned
<1>5. SumOver(Held, Stakers) = 0 /\ SumOver(Earned, Stakers) = 0
  <2>1. IsFiniteSet(Stakers)
    BY StakingAssumption
  <2>2. SumOver(Held, Stakers) = 0
    BY <1>3, <2>1, SumOverZero
  <2>3. SumOver(Earned, Stakers) = 0
    BY <1>4, <2>1, SumOverZero
  <2> QED
    BY <2>2, <2>3
<1>6. \A p \in SlashIds : slashes[p].bps <= 4000
  BY DEF Init, NoSlash
<1>7. YieldPrecision * 0 + 0 <= YieldPrecision * 0
  BY Bounds
<1> QED
  BY <1>1, <1>2, <1>5, <1>6, <1>7 DEF StakeInv

(* A stake that changes is settled: it has earned nothing afterwards.  *)
LEMMA StakeChanged ==
  ASSUME TypeOK, StakeInv, NEW s \in Stakers, NEW n \in Nat,
         stake' = [stake EXCEPT ![s] = Settled(n)], yield_acc' = yield_acc
  PROVE  /\ SumOver(Held', Stakers) = SumOver(Held, Stakers) + n - stake[s].amount
         /\ SumOver(Earned', Stakers) = SumOver(Earned, Stakers) - Earned[s]
         /\ \A x \in Stakers : stake'[x].reward_debt <= yield_acc'
<1>1. IsFiniteSet(Stakers)
  BY StakingAssumption
<1>2. /\ Held \in [Stakers -> Int] /\ Earned \in [Stakers -> Int]
      /\ yield_acc \in Nat
  BY StakesTyped
<1>3. stake \in [Stakers -> [amount : Nat, reward_debt : Int]]
  BY DEF TypeOK
<1>4. PICK q : q = Settled(n)
  OBVIOUS
<1>5. /\ q.amount = n
      /\ q.reward_debt \in Int /\ q.reward_debt <= yield_acc
      /\ q.amount * (yield_acc - q.reward_debt) = 0
  BY <1>2, <1>4 DEF Settled, NoStake
<1>6. stake'[s] = q /\ \A x \in Stakers : x # s => stake'[x] = stake[x]
  BY <1>3, <1>4
<1>7. PICK h : h = Held'
  OBVIOUS
<1>8. PICK e : e = Earned'
  OBVIOUS
<1>9. h = [x \in Stakers |-> stake'[x].amount]
  BY <1>7 DEF Held
<1>10. e = [x \in Stakers |-> stake'[x].amount * (yield_acc - stake'[x].reward_debt)]
  BY <1>8 DEF Earned
<1>11. \A x \in Stakers : x # s => Held[x] = h[x] /\ Earned[x] = e[x]
  BY <1>6, <1>9, <1>10 DEF Held, Earned
<1>12. h[s] = n /\ e[s] = 0 /\ Held[s] = stake[s].amount
  BY <1>5, <1>6, <1>9, <1>10 DEF Held
<1>13. h \in [Stakers -> Int]
  <2>1. \A x \in Stakers : h[x] \in Int
    BY <1>2, <1>11, <1>12
  <2>2. h = [x \in Stakers |-> h[x]]
    BY <1>9
  <2> QED
    BY <2>1, <2>2
<1>14. e \in [Stakers -> Int]
  <2>1. \A x \in Stakers : e[x] \in Int
    BY <1>2, <1>11, <1>12
  <2>2. e = [x \in Stakers |-> e[x]]
    BY <1>10
  <2> QED
    BY <2>1, <2>2
<1>15. SumOver(h, Stakers) = SumOver(Held, Stakers) + h[s] - Held[s]
  BY <1>1, <1>2, <1>11, <1>13, SumOverChange
<1>16. SumOver(e, Stakers) = SumOver(Earned, Stakers) + e[s] - Earned[s]
  BY <1>1, <1>2, <1>11, <1>14, SumOverChange
<1>17. SumOver(Earned, Stakers) \in Int /\ Earned[s] \in Int
  BY <1>2, StakesTyped
<1>18. \A x \in Stakers : stake'[x].reward_debt <= yield_acc
  BY <1>5, <1>6 DEF StakeInv
<1> QED
  BY <1>7, <1>8, <1>12, <1>15, <1>16, <1>17, <1>18

(* With fees every stake earns in proportion to its amount, and all of them *)
(* no more than the fees.                                                   *)
LEMMA FeesShared ==
  ASSUME TypeOK, StakeInv, NEW amount \in Amounts, AddPlatformFees(amount)
  PROVE  /\ yield_acc' \in Nat /\ yield_acc' >= yield_acc
         /\ SumOver(Earned', Stakers) \in Int
         /\ SumOver(Earned', Stakers)
              <= SumOver(Earned, Stakers) + YieldPrecision * amount
<1>1. IsFiniteSet(Stakers)
  BY StakingAssumption
<1>2. /\ Held \in [Stakers -> Nat] /\ Earned \in [Stakers -> Nat]
      /\ yield_acc \in Nat /\ stake_total \in Nat /\ SumOver(Earned, Stakers) \in Nat
      /\ SumOver(Held, Stakers) = stake_total
  BY StakesTyped DEF StakeInv
<1>3. amount \in Nat /\ YieldPrecision \in Nat /\ amount * YieldPrecision \in Nat
  BY AmountsNat, Bounds, ProductNat
<1>4. PICK d \in Nat : yield_acc' = yield_acc + d /\ stake_total * d <= amount * YieldPrecision
  <2>1. CASE stake_total > 0
    <3>1. /\ (amount * YieldPrecision) \div stake_total \in Nat
          /\ stake_total * ((amount * YieldPrecision) \div stake_total) <= amount * YieldPrecision
      BY <1>2, <1>3, <2>1, Divided
    <3>2. yield_acc' = yield_acc + (amount * YieldPrecision) \div stake_total
      BY <2>1 DEF AddPlatformFees
    <3> QED
      BY <3>1, <3>2
  <2>2. CASE stake_total = 0
    <3>1. yield_acc' = yield_acc + 0
      BY <1>2, <2>2 DEF AddPlatformFees
    <3>2. stake_total * 0 <= amount * YieldPrecision
      BY <1>3, <2>2
    <3> QED
      BY <3>1, <3>2
  <2> QED
    BY <1>2, <2>1, <2>2
<1>5. PICK e : e = Earned'
  OBVIOUS
<1>6. stake' = stake
  BY DEF AddPlatformFees
<1>7. /\ e = [x \in Stakers |-> e[x]]
      /\ \A x \in Stakers : e[x] = stake[x].amount * (yield_acc + d - stake[x].reward_debt)
  <2>1. e = [x \in Stakers |-> stake'[x].amount * (yield_acc' - stake'[x].reward_debt)]
    BY <1>5 DEF Earned
  <2>2. ASSUME NEW x \in Stakers
        PROVE  e[x] = stake[x].amount * (yield_acc + d - stake[x].reward_debt)
    <3>1. e[x] = stake'[x].amount * (yield_acc' - stake'[x].reward_debt)
      BY <2>1
    <3>2. yield_acc' - stake'[x].reward_debt = yield_acc + d - stake[x].reward_debt
      <4>1. stake[x].reward_debt \in Int /\ yield_acc \in Int
        BY <1>2 DEF TypeOK
      <4>2. yield_acc' = yield_acc + d
        BY <1>4
      <4> QED
        BY <1>6, <4>1, <4>2
    <3> QED
      BY <1>6, <3>1, <3>2
  <2>3. e = [x \in Stakers |-> e[x]]
    BY <2>1
  <2> QED
    BY <2>2, <2>3
<1>8. ASSUME NEW x \in Stakers
      PROVE  e[x] = Earned[x] + d * Held[x] /\ d * Held[x] \in Int
  <2>1. stake[x].amount \in Nat /\ stake[x].reward_debt \in Int
    BY DEF TypeOK
  <2>2. stake[x].amount * (yield_acc + d - stake[x].reward_debt)
          = stake[x].amount * (yield_acc - stake[x].reward_debt) + d * stake[x].amount
    BY <1>2, <2>1
  <2>3. d * stake[x].amount \in Int
    BY <2>1
  <2> QED
    BY <1>7, <2>2, <2>3 DEF Earned, Held
<1>9. e \in [Stakers -> Int]
  <2>1. \A x \in Stakers : e[x] \in Int
    BY <1>2, <1>8
  <2> QED
    BY <1>7, <2>1
<1>10. \A x \in Stakers : 1 * e[x] <= Earned[x] + d * Held[x]
  BY <1>2, <1>8, <1>9
<1>11. Held \in [Stakers -> Int] /\ Earned \in [Stakers -> Int]
  BY <1>2
<1>12. /\ SumOver(e, Stakers) \in Int
       /\ 1 * SumOver(e, Stakers) <= SumOver(Earned, Stakers) + d * SumOver(Held, Stakers)
  <2>1. 1 \in Int /\ d \in Int
    OBVIOUS
  <2> QED
    BY <1>1, <1>9, <1>10, <1>11, <2>1, SumOverBound
<1>13. d * stake_total = stake_total * d /\ amount * YieldPrecision = YieldPrecision * amount
  BY <1>2, <1>3
<1>14. SumOver(e, Stakers) <= SumOver(Earned, Stakers) + YieldPrecision * amount
  <2>1. d * SumOver(Held, Stakers) <= YieldPrecision * amount
    BY <1>2, <1>4, <1>13
  <2>2. d * SumOver(Held, Stakers) \in Int
    BY <1>2
  <2>3. YieldPrecision * amount \in Int
    BY <1>3
  <2> QED
    BY <1>2, <1>12, <2>1, <2>2, <2>3
<1> QED
  BY <1>2, <1>4, <1>5, <1>12, <1>14

(* What is left of a pool of p for the t staked tokens when a of them leave *)
(* with the share r: enough for each of those who stay, and no more than    *)
(* they staked.                                                             *)
ShareFair(a, p, t, r) ==
  /\ r \in 0 .. p
  /\ p - r <= t - a
  /\ (p - r) * t >= p * (t - a)
  /\ a = t => r = p

LEMMA ShareLeft ==
  ASSUME NEW a \in Nat, NEW p \in Nat, NEW t \in Nat \ {0}, a <= t, p <= t,
         NEW r, r = (a * p) \div t
  PROVE  ShareFair(a, p, t, r)
<1>1. a * p \in Nat
  BY ProductNat
<1>2. r \in Nat /\ t * r <= a * p /\ a * p < t * r + t
  BY <1>1, Divided
<1>3. a * p <= t * p
  <2>1. (t - a) * p >= 0
    BY ProductNat
  <2> QED
    BY <2>1
<1>4. r <= p
  <2> SUFFICES ASSUME r >= p + 1 PROVE FALSE
    BY <1>2
  <2>1. (r - (p + 1)) * t >= 0
    BY <1>2, ProductNat
  <2>2. t * r >= t * p + t
    BY <1>2, <2>1
  <2> QED
    BY <1>1, <1>2, <1>3, <2>2
<1>5. (p - r) * t >= p * (t - a)
  BY <1>2
<1>6. p - r <= t - a
  <2> SUFFICES ASSUME p - r >= t - a + 1 PROVE FALSE
    BY <1>2
  <2>1. (p - r - (t - a + 1)) * t >= 0
    BY <1>2, ProductNat
  <2>2. p * t - r * t >= (t - a) * t + t
    BY <1>2, <2>1
  <2>3. p * t - r * t < (t - a) * p + t
    BY <1>2
  <2>4. (t - a) * p <= (t - a) * t
    <3>1. (t - a) * (t - p) >= 0
      BY ProductNat
    <3> QED
      BY <3>1
  <2> QED
    BY <1>2, <2>2, <2>3, <2>4
<1>7. a = t => r = p
  <2> SUFFICES ASSUME a = t, r # p PROVE FALSE
    OBVIOUS
  <2>1. p - r >= 1
    BY <1>2, <1>4
  <2>2. p - r <= 0
    BY <1>6
  <2> QED
    BY <1>2, <2>1, <2>2
<1> QED
  BY <1>2, <1>4, <1>5, <1>6, <1>7 DEF ShareFair

(* Yield that was earned is paid from what was booked.  *)
LEMMA YieldBooked ==
  ASSUME NEW k \in Int, NEW y \in Int, NEW due \in Int, NEW fees \in Int,
         NEW sum \in Int, NEW earned \in Int,
         k * y + sum <= k * fees, k * due <= earned
  PROVE  k * (y + due) + (sum - earned) <= k * fees
<1>1. k * (y + due) = k * y + k * due
  OBVIOUS
<1>2. k * y \in Int /\ k * due \in Int /\ k * fees \in Int
  OBVIOUS
<1> QED
  BY <1>1, <1>2

(* A staker who leaves takes a share of the pool.  *)
LEMMA Leaving ==
  ASSUME TypeOK, StakeInv, NEW s \in Stakers, NEW amount \in Amounts,
         amount <= stake[s].amount
  PROVE  /\ stake_total > 0 /\ amount <= stake_total
         /\ ActualReturn(amount) \in 0 .. stake_pool
         /\ stake_pool - ActualReturn(amount) <= stake_total - amount
         /\ (stake_pool - ActualReturn(amount)) * stake_total
              >= stake_pool * (stake_total - amount)
         /\ amount = stake_total => ActualReturn(amount) = stake_pool
<1>1. /\ stake_total \in Nat /\ stake_pool \in Nat /\ stake_pool <= stake_total
      /\ stake[s].amount \in Nat /\ stake[s].amount <= stake_total
  BY StakesTyped DEF StakeInv, TypeOK
<1>2. amount \in Nat /\ amount > 0
  BY AmountsNat
<1>3. stake_total > 0 /\ amount <= stake_total
  BY <1>1, <1>2
<1>4. ActualReturn(amount) = (amount * stake_pool) \div stake_total
  BY <1>3 DEF ActualReturn
<1>5. stake_total \in Nat \ {0}
  BY <1>1, <1>3
<1>6. PICK r : r = ActualReturn(amount)
  OBVIOUS
<1>7. ShareFair(amount, stake_pool, stake_total, r)
  BY <1>1, <1>2, <1>3, <1>4, <1>5, <1>6, ShareLeft
<1> QED
  BY <1>3, <1>6, <1>7 DEF ShareFair

(* A slash leaves a part of the pool.  *)
LEMMA SlashLeaves ==
  ASSUME TypeOK, StakeInv, NEW p \in SlashIds
  PROVE  ActualSlash(p) \in 0 .. stake_pool
<1>1. /\ stake_pool \in Nat /\ vault \in Nat
      /\ slashes[p].bps \in Nat /\ slashes[p].bps <= 4000
  BY StakesTyped DEF StakeInv, TypeOK, FundTypeOK
<1> DEFINE part == (stake_pool * slashes[p].bps) \div 10000
<1>2. stake_pool * slashes[p].bps \in Nat
  BY <1>1, ProductNat
<1>3. part \in Nat /\ 10000 * part <= stake_pool * slashes[p].bps
  BY <1>2, Divided
<1>4. stake_pool * slashes[p].bps <= stake_pool * 10000
  <2>1. stake_pool * (10000 - slashes[p].bps) >= 0
    BY <1>1, ProductNat
  <2> QED
    BY <1>1, <2>1
<1>5. ActualSlash(p) = IF part <= vault THEN part ELSE vault
  BY DEF ActualSlash
<1> HIDE DEF part
<1>6. part <= stake_pool
  BY <1>1, <1>2, <1>3, <1>4
<1> QED
  BY <1>1, <1>3, <1>5, <1>6

LEMMA StakeInvFund ==
  ASSUME StakeInv, UNCHANGED stakingVars
  PROVE  StakeInv'
<1>1. /\ stake' = stake /\ stake_total' = stake_total /\ stake_pool' = stake_pool
      /\ yield_acc' = yield_acc /\ slashes' = slashes /\ ledger' = ledger
  BY DEF stakingVars
<1>2. Held' = Held /\ Earned' = Earned
  BY <1>1 DEF Held, Earned
<1> QED
  BY <1>1, <1>2 DEF StakeInv

(* A step that leaves the stakes' shares alone.  *)
LEMMA StakeInvKept ==
  ASSUME StakeInv, UNCHANGED <<stake, stake_total, yield_acc, ledger>>,
         stake_pool' \in 0 .. stake_pool, stake_pool \in Nat, stake_total \in Nat,
         \A p \in SlashIds : slashes'[p].bps <= 4000
  PROVE  StakeInv'
<1>1. Held' = Held /\ Earned' = Earned
  BY DEF Held, Earned
<1>2. stake_total' = SumOver(Held', Stakers)
  BY <1>1 DEF StakeInv
<1>3. stake_pool' \in 0 .. stake_total'
  BY DEF StakeInv
<1>4. YieldPrecision * ledger'.yield + SumOver(Earned', Stakers) <= YieldPrecision * ledger'.fees
  BY <1>1 DEF StakeInv
<1> QED
  BY <1>2, <1>3, <1>4 DEF StakeInv

(* A step that changes the stake of s, and pays it what is due.  *)
LEMMA StakeInvSettled ==
  ASSUME TypeOK, StakeInv, NEW s \in Stakers, NEW n \in Nat, NEW due \in Nat,
         YieldPrecision * due <= Earned[s],
         stake' = [stake EXCEPT ![s] = Settled(n)],
         ledger' = [ledger EXCEPT !.yield = @ + due],
         yield_acc' = yield_acc, slashes' = slashes,
         stake_total' = stake_total + n - stake[s].amount,
         stake_pool' \in 0 .. stake_total'
  PROVE  StakeInv'
<1>1. /\ SumOver(Held', Stakers) = SumOver(Held, Stakers) + n - stake[s].amount
      /\ SumOver(Earned', Stakers) = SumOver(Earned, Stakers) - Earned[s]
      /\ \A x \in Stakers : stake'[x].reward_debt <= yield_acc'
  BY StakeChanged
<1>2. stake_total' = SumOver(Held', Stakers)
  BY <1>1 DEF StakeInv
<1>3. /\ ledger.yield \in Int /\ ledger.fees \in Int
      /\ ledger'.yield = ledger.yield + due /\ ledger'.fees = ledger.fees
  BY DEF TypeOK
<1>4. Earned[s] \in Int /\ SumOver(Earned, Stakers) \in Int /\ YieldPrecision \in Int
  BY StakesTyped, Bounds
<1>5. YieldPrecision * ledger.yield + SumOver(Earned, Stakers) <= YieldPrecision * ledger.fees
  BY DEF StakeInv
<1>6. YieldPrecision * (ledger.yield + due) + (SumOver(Earned, Stakers) - Earned[s])
        <= YieldPrecision * ledger.fees
  <2>1. due \in Int
    OBVIOUS
  <2> QED
    BY <1>3, <1>4, <1>5, <2>1, YieldBooked
<1>7. YieldPrecision * ledger'.yield + SumOver(Earned', Stakers) <= YieldPrecision * ledger'.fees
  BY <1>1, <1>3, <1>6
<1>8. yield_acc' >= 0 /\ \A p \in SlashIds : slashes'[p].bps <= 4000
  BY DEF StakeInv
<1> QED
  BY <1>1, <1>2, <1>7, <1>8 DEF StakeInv

LEMMA StakeInvStaking ==
  ASSUME TypeOK, StakeInv, StakingNext
  PROVE  StakeInv'
<1>a. /\ stake_total \in Nat /\ stake_pool \in Nat /\ stake_pool <= stake_total
      /\ \A s \in Stakers : stake[s].amount \in Nat
      /\ \A p \in SlashIds : slashes[p].bps <= 4000
  BY StakesTyped DEF StakeInv, TypeOK
<1>b. stake \in [Stakers -> [amount : Nat, reward_debt : Int]] /\ slashes \in [SlashIds -> SlashRecords]
  BY DEF TypeOK, SlashRecords
<1>1. ASSUME NEW s \in Stakers, NEW amount \in Amounts, Stake(s, amount)
      PROVE  StakeInv'
  <2> DEFINE n == stake[s].amount + amount
             due == YieldDue(s)
  <2>1. n \in Nat /\ due \in Nat /\ YieldPrecision * due <= Earned[s]
    BY <1>a, AmountsNat, PaidFromEarned
  <2>2. /\ stake' = [stake EXCEPT ![s] = Settled(n)]
        /\ ledger' = [ledger EXCEPT !.yield = @ + due]
        /\ yield_acc' = yield_acc /\ slashes' = slashes
    BY <1>1 DEF Stake
  <2>3. /\ stake_total' = stake_total + n - stake[s].amount
        /\ stake_pool' \in 0 .. stake_total'
    BY <1>1, <1>a, AmountsNat DEF Stake
  <2> HIDE DEF n, due
  <2> QED
    BY <2>1, <2>2, <2>3, StakeInvSettled
<1>2. ASSUME NEW s \in Stakers, NEW amount \in Amounts, Unstake(s, amount)
      PROVE  StakeInv'
  <2> DEFINE n == stake[s].amount - amount
             due == YieldDue(s)
  <2>0. amount <= stake[s].amount
    BY <1>2 DEF Unstake
  <2>1. n \in Nat /\ due \in Nat /\ YieldPrecision * due <= Earned[s]
    BY <2>0, <1>a, AmountsNat, PaidFromEarned
  <2>2. /\ stake' = [stake EXCEPT ![s] = Settled(n)]
        /\ ledger' = [ledger EXCEPT !.yield = @ + due]
        /\ yield_acc' = yield_acc /\ slashes' = slashes
        /\ stake_total' = stake_total - amount
        /\ stake_pool' = stake_pool - ActualReturn(amount)
    BY <1>2 DEF Unstake
  <2>3. /\ ActualReturn(amount) \in 0 .. stake_pool
        /\ stake_pool - ActualReturn(amount) <= stake_total - amount
    BY <2>0, Leaving
  <2>4. /\ stake_total' = stake_total + n - stake[s].amount
        /\ stake_pool' \in 0 .. stake_total'
    BY <1>a, <2>2, <2>3, AmountsNat
  <2> HIDE DEF n, due
  <2> QED
    BY <2>1, <2>2, <2>4, StakeInvSettled
<1>3. ASSUME NEW amount \in Amounts, AddPlatformFees(amount)
      PROVE  StakeInv'
  <2>1. /\ yield_acc' \in Nat /\ yield_acc' >= yield_acc
        /\ SumOver(Earned', Stakers) <= SumOver(Earned, Stakers) + YieldPrecision * amount
    BY <1>3, FeesShared
  <2>2. /\ stake' = stake /\ stake_total' = stake_total /\ stake_pool' = stake_pool
        /\ slashes' = slashes /\ ledger' = [ledger EXCEPT !.fees = @ + amount]
    BY <1>3 DEF AddPlatformFees
  <2>3. Held' = Held
    BY <2>2 DEF Held
  <2>4. \A s \in Stakers : stake'[s].reward_debt <= yield_acc'
    <3>1. yield_acc \in Nat
      BY StakesTyped
    <3>2. \A s \in Stakers : stake[s].reward_debt \in Int
      BY <1>b
    <3> QED
      BY <2>1, <2>2, <3>1, <3>2 DEF StakeInv
  <2>5. /\ ledger.yield \in Int /\ ledger.fees \in Int
        /\ ledger'.yield = ledger.yield /\ ledger'.fees = ledger.fees + amount
    BY <2>2 DEF TypeOK
  <2>6. YieldPrecision * ledger'.yield + SumOver(Earned', Stakers) <= YieldPrecision * ledger'.fees
    <3>1. PICK sum : sum = SumOver(Earned', Stakers)
      OBVIOUS
    <3>2. amount \in Int /\ YieldPrecision \in Int /\ SumOver(Earned, Stakers) \in Int
      BY AmountsNat, Bounds, StakesTyped
    <3>3. YieldPrecision * (ledger.fees + amount) = YieldPrecision * ledger.fees + YieldPrecision * amount
      BY <2>5, <3>2
    <3>4. YieldPrecision * ledger.yield + SumOver(Earned, Stakers) <= YieldPrecision * ledger.fees
      BY DEF StakeInv
    <3>5. sum \in Int
      BY <3>1, <1>3, FeesShared
    <3> QED
      BY <2>1, <2>5, <3>1, <3>2, <3>3, <3>4, <3>5
  <2> QED
    BY <2>1, <2>2, <2>3, <2>4, <2>6 DEF StakeInv
<1>4. ASSUME NEW s \in Stakers, ClaimYield(s)
      PROVE  StakeInv'
  <2> DEFINE n == stake[s].amount
             due == PendingYield(s)
  <2>1. n \in Nat /\ n # 0 /\ due \in Nat /\ YieldPrecision * due <= Earned[s]
    BY <1>a, <1>4, PaidFromEarned DEF ClaimYield
  <2>2. /\ stake' = [stake EXCEPT ![s].reward_debt = yield_acc]
        /\ ledger' = [ledger EXCEPT !.yield = @ + due]
        /\ yield_acc' = yield_acc /\ slashes' = slashes
        /\ stake_total' = stake_total /\ stake_pool' = stake_pool
    BY <1>4 DEF ClaimYield
  <2>3. Settled(n) = [stake[s] EXCEPT !.reward_debt = yield_acc]
    BY <1>b, <2>1 DEF Settled
  <2>4. stake' = [stake EXCEPT ![s] = Settled(n)]
    BY <2>2, <2>3
  <2>5. /\ stake_total' = stake_total + n - stake[s].amount
        /\ stake_pool' \in 0 .. stake_total'
    BY <1>a, <2>2
  <2> HIDE DEF n, due
  <2> QED
    BY <2>1, <2>2, <2>4, <2>5, StakeInvSettled
<1>5. ASSUME NEW g \in Governors, NEW bps \in SlashBps, ProposeSlash(g, bps)
      PROVE  StakeInv'
  <2>1. /\ UNCHANGED <<stake, stake_total, stake_pool, yield_acc, ledger>>
        /\ bps <= max_slash_bps
        /\ slashes' = [slashes EXCEPT ![slash_counter] =
                         [NoSlash EXCEPT !.status = "Pending", !.bps = bps]]
    BY <1>5 DEF ProposeSlash
  <2>2. max_slash_bps \in 1 .. 4000 /\ bps \in Nat
    BY StakingAssumption DEF TypeOK
  <2>3. PICK q : q = [NoSlash EXCEPT !.status = "Pending", !.bps = bps]
    OBVIOUS
  <2>4. q.bps = bps
    BY <2>3 DEF NoSlash
  <2>5. \A p \in SlashIds : slashes'[p].bps <= 4000
    <3> SUFFICES ASSUME NEW p \in SlashIds PROVE slashes'[p].bps <= 4000
      OBVIOUS
    <3>1. slashes'[p] = q \/ slashes'[p] = slashes[p]
      BY <1>b, <2>1, <2>3
    <3>2. bps <= max_slash_bps
      BY <2>1
    <3>3. bps <= 4000
      <4>1. max_slash_bps \in Int /\ max_slash_bps <= 4000
        BY DEF TypeOK
      <4>2. bps \in Int
        BY <2>2
      <4> QED
        BY <3>2, <4>1, <4>2
    <3>4. q.bps <= 4000
      BY <2>4, <3>3
    <3> QED
      BY <1>a, <3>1, <3>4
  <2> QED
    BY <1>a, <2>1, <2>5, StakeInvKept
<1>6. ASSUME NEW g \in Governors, NEW p \in SlashIds, NEW approve \in BOOLEAN,
             VoteSlash(g, p, approve)
      PROVE  StakeInv'
  <2>1. PICK q : q = [Counted(slashes[p], approve) EXCEPT !.status = SlashVerdict(Counted(slashes[p], approve))]
    OBVIOUS
  <2>2. /\ UNCHANGED <<stake, stake_total, stake_pool, yield_acc, ledger>>
        /\ slashes' = [slashes EXCEPT ![p] = q]
    BY <1>6, <2>1 DEF VoteSlash
  <2>3. Counted(slashes[p], approve).bps = slashes[p].bps /\ Counted(slashes[p], approve) \in SlashRecords
    BY <1>b DEF Counted, SlashRecords
  <2>4. q.bps = slashes[p].bps
    BY <2>1, <2>3 DEF SlashRecords
  <2>5. \A x \in SlashIds : slashes'[x].bps <= 4000
    BY <1>a, <1>b, <2>2, <2>4
  <2> QED
    BY <1>a, <2>2, <2>5, StakeInvKept
<1>7. ASSUME NEW p \in SlashIds, ExecuteSlash(p)
      PROVE  StakeInv'
  <2>1. /\ UNCHANGED <<stake, stake_total, yield_acc, ledger>>
        /\ slashes' = [slashes EXCEPT ![p].status = "Executed"]
        /\ stake_pool' = stake_pool - ActualSlash(p)
    BY <1>7 DEF ExecuteSlash
  <2>2. stake_pool' \in 0 .. stake_pool
    BY <1>a, <2>1, SlashLeaves
  <2>3. \A x \in SlashIds : slashes'[x].bps = slashes[x].bps
    BY <1>b, <2>1 DEF SlashRecords
  <2> QED
    BY <1>a, <2>1, <2>2, <2>3, StakeInvKept
<1>8. ASSUME NEW bps \in MaxBps, SetMaxSlashBps(bps)
      PROVE  StakeInv'
  <2>1. UNCHANGED <<stake, stake_total, stake_pool, yield_acc, ledger, slashes>>
    BY <1>8 DEF SetMaxSlashBps
  <2> QED
    BY <1>a, <2>1, StakeInvKept
<1> QED
  BY <1>1, <1>2, <1>3, <1>4, <1>5, <1>6, <1>7, <1>8 DEF StakingNext

LEMMA StakeStep == TypeOK /\ StakeInv /\ [Next]_vars => StakeInv'
<1> SUFFICES ASSUME TypeOK, StakeInv, [Next]_vars PROVE StakeInv'
  OBVIOUS
<1>1. CASE FundNext /\ UNCHANGED stakingVars
  BY <1>1, StakeInvFund
<1>2. CASE StakingNext
  BY <1>2, StakeInvStaking
<1>3. CASE UNCHANGED vars
  BY <1>3, StakeInvFund DEF vars
<1> QED
  BY <1>1, <1>2, <1>3 DEF Next

THEOREM InsuranceStakes == Spec => []StakeInv
<1> QED
  BY StakeInit, StakeStep, InsuranceTypeCorrect, PTL DEF Spec

-------------------------------------------------------------------------------
(* The yield.  *)

(* MapThenSumSet takes the elements out in the order of SumOver.  *)
LEMMA PendingSum ==
  MapThenSumSet(PendingYield, Stakers) = SumOver([s \in Stakers |-> PendingYield(s)], Stakers)
<1> DEFINE f == [s \in Stakers |-> PendingYield(s)]
           One(T) == CHOOSE x \in T : TRUE
           iter == CHOOSE g : g = [T \in SUBSET Stakers |->
                     IF T = {} THEN 0 ELSE PendingYield(One(T)) + g[T \ {One(T)}]]
<1>1. MapThenSumSet(PendingYield, Stakers) = iter[Stakers]
  BY DEF MapThenSumSet, MapThenFoldSet
<1>2. PICK h : AddsOver(h, f, Stakers) /\ SumOver(f, Stakers) = h[Stakers]
  BY StakingAssumption, SumOverIsAdded
<1>3. \A T \in SUBSET Stakers : T # {} => One(T) = Some(T) /\ f[Some(T)] = PendingYield(One(T))
  BY DEF Some
<1> HIDE DEF f, One
<1>4. ASSUME NEW g
      PROVE  AddsOver(g, f, Stakers)
               <=> g = [T \in SUBSET Stakers |->
                          IF T = {} THEN 0 ELSE PendingYield(One(T)) + g[T \ {One(T)}]]
  <2>1. \A T \in SUBSET Stakers :
          TakeOne(g, f, T) = IF T = {} THEN 0 ELSE PendingYield(One(T)) + g[T \ {One(T)}]
    BY <1>3 DEF TakeOne
  <2>2. [T \in SUBSET Stakers |-> TakeOne(g, f, T)]
          = [T \in SUBSET Stakers |->
               IF T = {} THEN 0 ELSE PendingYield(One(T)) + g[T \ {One(T)}]]
    BY <2>1
  <2> QED
    BY <2>2 DEF AddsOver
<1>5. iter = [T \in SUBSET Stakers |->
                IF T = {} THEN 0 ELSE PendingYield(One(T)) + iter[T \ {One(T)}]]
  BY <1>2, <1>4
<1> HIDE DEF iter
<1>6. AddsOver(iter, f, Stakers)
  BY <1>4, <1>5
<1>7. iter[Stakers] = h[Stakers]
  BY <1>2, <1>6, StakingAssumption, AddsOverUnique
<1> QED
  BY <1>1, <1>2, <1>7 DEF f

LEMMA Cancelled ==
  ASSUME NEW k \in Nat \ {0}, NEW x \in Int, NEW y \in Int, k * x <= k * y
  PROVE  x <= y
<1> SUFFICES ASSUME x - y >= 1 PROVE FALSE
  OBVIOUS
<1>1. k * (x - y - 1) >= 0
  BY ProductNat
<1>2. k * x >= k * y + k
  BY <1>1
<1> QED
  BY <1>2

LEMMA YieldIsCovered ==
  ASSUME TypeOK, StakeInv
  PROVE  YieldCovered
<1> DEFINE f == [s \in Stakers |-> PendingYield(s)]
<1>1. IsFiniteSet(Stakers) /\ YieldPrecision \in Nat \ {0}
  BY StakingAssumption
<1>2. f \in [Stakers -> Int] /\ \A s \in Stakers : f[s] = PendingYield(s)
  BY PaidFromEarned
<1> HIDE DEF f
<1>3. Earned \in [Stakers -> Int]
  BY StakesTyped
<1>4. \A s \in Stakers : YieldPrecision * f[s] <= Earned[s]
  BY <1>2, <1>3, PaidFromEarned
<1>5. /\ SumOver(f, Stakers) \in Int /\ SumOver(Earned, Stakers) \in Int
      /\ YieldPrecision * SumOver(f, Stakers) <= SumOver(Earned, Stakers)
  <2>1. YieldPrecision \in Int
    BY <1>1
  <2> QED
    BY <1>1, <1>2, <1>3, <1>4, <2>1, SumOverBelow
<1>6. /\ ledger.yield \in Int /\ ledger.fees \in Int
      /\ YieldPrecision * ledger.yield + SumOver(Earned, Stakers) <= YieldPrecision * ledger.fees
  BY DEF TypeOK, StakeInv
<1>7. PICK sum \in Int : sum = SumOver(f, Stakers)
  BY <1>5
<1>8. PICK all \in Int : all = SumOver(Earned, Stakers)
  BY <1>5
<1>9. YieldPrecision * ledger.yield + YieldPrecision * sum <= YieldPrecision * ledger.fees
  <2>1. YieldPrecision * sum <= all
    BY <1>5, <1>7, <1>8
  <2>2. YieldPrecision * ledger.yield + all <= YieldPrecision * ledger.fees
    BY <1>6, <1>8
  <2>3. /\ YieldPrecision * sum \in Int /\ YieldPrecision * ledger.yield \in Int
        /\ YieldPrecision * ledger.fees \in Int
    BY <1>1, <1>6
  <2> QED
    BY <2>1, <2>2, <2>3
<1>10. ledger.yield + sum <= ledger.fees
  <2>1. YieldPrecision * (ledger.yield + sum) <= YieldPrecision * ledger.fees
    BY <1>1, <1>6, <1>9
  <2>2. ledger.yield + sum \in Int
    BY <1>6
  <2> QED
    BY <1>1, <1>6, <2>1, <2>2, Cancelled
<1>11. MapThenSumSet(PendingYield, Stakers) = sum
  BY <1>7, PendingSum DEF f
<1> QED
  BY <1>10, <1>11 DEF YieldCovered

(* However stakes come, go and are settled, the yield paid and the yield    *)
(* that could still be claimed are never more than the fees announced.      *)
THEOREM InsuranceYieldCovered == Spec => []YieldCovered
<1>1. TypeOK /\ StakeInv => YieldCovered
  BY YieldIsCovered
<1> QED
  BY <1>1, InsuranceTypeCorrect, InsuranceStakes, PTL

-------------------------------------------------------------------------------
(* The shares.  *)

LEMMA SharesStep ==
  ASSUME TypeOK, StakeInv, [Next]_vars, ~SlashExecuted, stake_total > 0
  PROVE  IF stake_total' > 0
         THEN stake_pool' * stake_total >= stake_pool * stake_total'
         ELSE stake_pool' = 0
<1> DEFINE Fair == IF stake_total' > 0
                   THEN stake_pool' * stake_total >= stake_pool * stake_total'
                   ELSE stake_pool' = 0
<1>a. stake_total \in Nat /\ stake_pool \in Nat /\ stake_pool <= stake_total
  BY StakesTyped DEF StakeInv
<1>b. stake_total' = stake_total /\ stake_pool' = stake_pool => Fair
  BY <1>a
<1>c. SUFFICES Fair
  OBVIOUS
<1>1. CASE FundNext /\ UNCHANGED stakingVars
  BY <1>1, <1>b DEF stakingVars
<1>2. CASE UNCHANGED vars
  BY <1>2, <1>b DEF vars, stakingVars
<1>3. CASE StakingNext
  <2>1. ASSUME NEW s \in Stakers, NEW amount \in Amounts, Stake(s, amount) PROVE Fair
    <3>1. /\ stake_total' = stake_total + amount /\ stake_pool' = stake_pool + amount
          /\ amount \in Nat
      BY <2>1, AmountsNat DEF Stake
    <3>2. amount * (stake_total - stake_pool) >= 0
      BY <1>a, <3>1, ProductNat
    <3>3. (stake_pool + amount) * stake_total >= stake_pool * (stake_total + amount)
      BY <1>a, <3>1, <3>2
    <3>4. stake_total' > 0
      BY <1>a, <3>1
    <3> QED
      BY <3>1, <3>3, <3>4
  <2>2. ASSUME NEW s \in Stakers, NEW amount \in Amounts, Unstake(s, amount) PROVE Fair
    <3>1. /\ amount <= stake[s].amount
          /\ stake_total' = stake_total - amount
          /\ stake_pool' = stake_pool - ActualReturn(amount)
      BY <2>2 DEF Unstake
    <3>2. /\ amount <= stake_total /\ ActualReturn(amount) \in 0 .. stake_pool
          /\ (stake_pool - ActualReturn(amount)) * stake_total
               >= stake_pool * (stake_total - amount)
          /\ amount = stake_total => ActualReturn(amount) = stake_pool
      BY <3>1, Leaving
    <3>3. amount \in Nat
      BY AmountsNat
    <3>4. CASE amount = stake_total
      BY <1>a, <3>1, <3>2, <3>4
    <3>5. CASE amount # stake_total
      <4>1. stake_total' > 0
        BY <1>a, <3>1, <3>2, <3>3, <3>5
      <4> QED
        BY <3>1, <3>2, <4>1
    <3> QED
      BY <3>4, <3>5
  <2> HIDE DEF Fair
  <2>3. ASSUME NEW amount \in Amounts, AddPlatformFees(amount) PROVE Fair
    BY <2>3, <1>b DEF AddPlatformFees
  <2>4. ASSUME NEW s \in Stakers, ClaimYield(s) PROVE Fair
    BY <2>4, <1>b DEF ClaimYield
  <2>5. ASSUME NEW g \in Governors, NEW bps \in SlashBps, ProposeSlash(g, bps) PROVE Fair
    BY <2>5, <1>b DEF ProposeSlash
  <2>6. ASSUME NEW g \in Governors, NEW p \in SlashIds, NEW approve \in BOOLEAN,
               VoteSlash(g, p, approve)
        PROVE  Fair
    BY <2>6, <1>b DEF VoteSlash
  <2>7. ASSUME NEW p \in SlashIds, ExecuteSlash(p) PROVE FALSE
    <3>1. slashes[p].status = "Approved" /\ slashes' = [slashes EXCEPT ![p].status = "Executed"]
      BY <2>7 DEF ExecuteSlash
    <3>2. slashes \in [SlashIds -> SlashRecords]
      BY DEF TypeOK, SlashRecords
    <3>3. slashes'[p].status = "Executed"
      BY <3>1, <3>2 DEF SlashRecords
    <3> QED
      BY <3>1, <3>3 DEF SlashExecuted
  <2>8. ASSUME NEW bps \in MaxBps, SetMaxSlashBps(bps) PROVE Fair
    BY <2>8, <1>b DEF SetMaxSlashBps
  <2> QED
    BY <1>3, <2>1, <2>2, <2>3, <2>4, <2>5, <2>6, <2>7, <2>8 DEF StakingNext
<1> QED
  BY <1>1, <1>2, <1>3 DEF Next

(* What a staked token is worth is lowered by slashes only, whoever stakes  *)
(* and leaves and however the shares round; the last one takes the rest.    *)
THEOREM InsuranceSharesHold == Spec => SharesHold
<1>1. TypeOK /\ StakeInv /\ [Next]_vars =>
        [~SlashExecuted /\ stake_total > 0 =>
           IF stake_total' > 0
           THEN stake_pool' * stake_total >= stake_pool * stake_total'
           ELSE stake_pool' = 0]_vars
  BY SharesStep
<1> QED
  BY <1>1, InsuranceTypeCorrect, InsuranceStakes, PTL DEF Spec, SharesHold
===============================================================================
