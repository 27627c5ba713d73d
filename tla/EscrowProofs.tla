----------------------------- MODULE EscrowProofs -----------------------------
(***************************************************************************)
(* Proofs about the escrow contract, for every value of the constants that *)
(* satisfies their assumptions.  First its types, and what follows from    *)
(* them and from the shape of one step: the status and its index, the      *)
(* locks, the pause and the settlement of a dispute.  Then that the books  *)
(* of an escrow agree with its milestones, the counters, the allocation,   *)
(* the payments and the signatures, and that the contract, which decides   *)
(* by the counters, therefore implements the board of milestones, which    *)
(* has none.  Last that tokens and books move together, and where not.     *)
(***************************************************************************)
EXTENDS EscrowProperties, SumProofs, FiniteSetTheorems, TLAPS

(***************************************************************************)
(* What the helpers return.                                                *)
(***************************************************************************)

(* Elapsed periods, the rent rate and the rent owed are natural numbers. *)
LEMMA RentType ==
  ASSUME TypeOK
  PROVE  /\ ElapsedPeriods \in Nat /\ Entries \in Nat \ {0}
         /\ RentRate \in Nat \ {0} /\ RentOwed \in Nat
  <1>1. Now \in Nat /\ last_rent \in Nat
    BY BoundsAssumption DEF TypeOK, Now
  <1>2. Now > last_rent => (Now - last_rent) \div RentPeriod \in Nat
    BY <1>1, RentAssumption
  <1>3. ElapsedPeriods \in Nat
    BY <1>2 DEF ElapsedPeriods
  <1>4. Entries \in Nat \ {0}
    BY BoundsAssumption DEF TypeOK, Entries
  <1>5. RentRate \in Nat \ {0}
    BY <1>4, RentAssumption DEF RentRate
  <1>6. RentOwed \in Nat
    BY <1>3, <1>5 DEF RentOwed
  <1> QED BY <1>3, <1>4, <1>5, <1>6

(* The reserve of some entries is a natural number. *)
LEMMA ReserveType ==
  ASSUME NEW n \in Nat
  PROVE  Reserve(n) \in Nat
  <1>1. n * RentPerEntry \in Nat
    BY RentAssumption
  <1> QED BY <1>1, RentAssumption DEF Reserve

(* Settling the rent keeps the balances typed. *)
LEMMA BooksType ==
  ASSUME TypeOK, NEW charge \in Int, NEW payout \in Int, Books(charge, payout)
  PROVE  rent_balance' \in Int /\ last_rent' \in Nat /\ vault' \in Int
  <1>1. ElapsedPeriods \in Nat /\ RentOwed \in Nat
    BY RentType
  <1>2. ElapsedPeriods * RentPeriod \in Nat
    BY <1>1, RentAssumption
  <1> QED BY <1>1, <1>2 DEF Books, TypeOK

(* So does a payment that does not settle it. *)
LEMMA BooksUnsettledType ==
  ASSUME TypeOK, NEW payout \in Int, BooksUnsettled(payout)
  PROVE  rent_balance' \in Int /\ last_rent' \in Nat /\ vault' \in Int
  BY DEF BooksUnsettled, TypeOK

(* Truncating division by a positive number returns an integer. *)
LEMMA QuotientType ==
  ASSUME NEW a \in Int, NEW b \in Nat \ {0}
  PROVE  Quotient(a, b) \in Int
  BY DEF Quotient

(* Recording signatures keeps them a sequence of approvers. *)
LEMMA SignaturesType ==
  ASSUME TypeOK, NEW m \in MilestoneIds, NEW s \in Approvers, NEW n \in Nat
  PROVE  Signatures(m, s, n) \in Seq(Approvers)
  <1>1. ms[m].approvals \in Seq(Approvers)
    BY DEF TypeOK, Milestone
  <1>2. [i \in 1 .. n |-> s] \in Seq(Approvers)
    OBVIOUS
  <1> QED BY <1>1, <1>2 DEF Signatures

(* A new milestone, and one given another status, is a milestone. *)
LEMMA NewMilestoneType ==
  ASSUME NEW a \in Nat, NEW priced \in BOOLEAN
  PROVE  NewMilestone(a, priced) \in Milestone
  BY DEF NewMilestone, Milestone, MilestoneStatuses

(* A milestone given another status leaves the board typed. *)
LEMMA SettingType ==
  ASSUME TypeOK, NEW m \in MilestoneIds, NEW st \in MilestoneStatuses
  PROVE  Setting(m, st) \in [MilestoneIds -> Milestone]
  BY DEF TypeOK, Setting, Milestone

(* A batch holds ids of milestones, and as many of one as its length allows. *)
LEMMA BatchType ==
  ASSUME NEW ids \in Batches
  PROVE  /\ Len(ids) \in {1, 2} /\ ids \in Seq(MilestoneIds)
         /\ \A i \in 1 .. Len(ids) : ids[i] \in MilestoneIds
  BY BatchAssumption

(* The occurrences and the passes of an id in a batch are natural numbers. *)
LEMMA CountsType ==
  ASSUME NEW ids \in Batches, NEW m \in MilestoneIds, NEW s
  PROVE  Occurrences(ids, m) \in Nat /\ Passes(ids, m, s) \in Nat
  <1>1. IsFiniteSet(1 .. Len(ids))
    BY BatchType, FS_Interval
  <1>2. Occurrences(ids, m) \in Nat
    <2>1. IsFiniteSet({i \in 1 .. Len(ids) : ids[i] = m})
      BY <1>1, FS_Subset
    <2> QED BY <2>1, FS_CardinalityType DEF Occurrences
  <1>3. Passes(ids, m, s) \in Nat
    <2>1. IsFiniteSet(1 .. Occurrences(ids, m))
      BY <1>2, FS_Interval
    <2>2. IsFiniteSet({n \in 1 .. Occurrences(ids, m) :
                         AccruedWeight(Signatures(m, s, n)) >= Threshold})
      BY <2>1, FS_Subset
    <2> QED BY <2>2, FS_CardinalityType DEF Passes
  <1> QED BY <1>2, <1>3

(***************************************************************************)
(* Type correctness, one lemma per group of entry points.                  *)
(***************************************************************************)

(* Creating the escrow and its milestones keeps the types; the cap keeps the *)
(* ids below IdBound.                                                        *)
LEMMA FundingTypes ==
  ASSUME TypeOK, FundingStep
  PROVE  TypeOK'
  <1>1. ASSUME NEW amount \in Totals, NEW dl \in Deadlines, NEW lt \in LockTimes,
               NEW d \in Timelocks, CreateEscrow(amount, dl, lt, d)
        PROVE  TypeOK'
    <2>1. Reserve(1) \in Nat
      BY ReserveType
    <2>2. Now \in Nat
      BY BoundsAssumption DEF TypeOK, Now
    <2>3. timelock' \in OptionalTime
      BY <1>1, <2>2, InputsAssumption DEF CreateEscrow, OptionalTime, NoTime
    <2>4. total' \in Nat /\ remaining' \in Int /\ vault' \in Int
      BY <1>1, <2>1, InputsAssumption DEF CreateEscrow
    <2>5. deadline' \in OptionalTime /\ lock_time' \in OptionalTime
      BY <1>1, InputsAssumption DEF CreateEscrow
    <2> QED BY <1>1, <2>1, <2>2, <2>3, <2>4, <2>5
        DEF CreateEscrow, TypeOK, Statuses, world, counters, dispute, records
  <1>2. ASSUME NEW n \in {1, 2}, NEW amounts \in [1 .. n -> Amounts],
               Len(amounts) = n, AddMilestones(amounts)
        PROVE  TypeOK'
    <2>1. rent_balance' \in Int /\ last_rent' \in Nat /\ vault' \in Int
      BY <1>2, ReserveType, BooksType DEF AddMilestones
    <2>2. \A i \in 1 .. n : amounts[i] \in Nat
      BY <1>2, InputsAssumption
    <2>3. allocated' \in Nat /\ milestone_count' \in 0 .. IdBound
      BY <1>2, <2>2, BoundsAssumption DEF AddMilestones, TypeOK
    <2>4. ms' \in [MilestoneIds -> Milestone]
      <3>1. ASSUME NEW i \in MilestoneIds
            PROVE  (IF i \in milestone_count .. (milestone_count + n - 1)
                    THEN NewMilestone(amounts[i - milestone_count + 1], FALSE)
                    ELSE ms[i]) \in Milestone
        <4>1. CASE i \in milestone_count .. (milestone_count + n - 1)
          <5>1. i - milestone_count + 1 \in 1 .. n
            BY <4>1, BoundsAssumption DEF TypeOK, MilestoneIds
          <5> QED BY <4>1, <5>1, <2>2, NewMilestoneType
        <4>2. CASE i \notin milestone_count .. (milestone_count + n - 1)
          BY <4>2 DEF TypeOK
        <4> QED BY <4>1, <4>2
      <3> QED BY <1>2, <3>1 DEF AddMilestones
    <2> QED BY <1>2, <2>1, <2>3, <2>4
        DEF AddMilestones, TypeOK, world, terms, dispute, records
  <1>3. ASSUME NEW a \in Amounts, AddMilestone(a)
        PROVE  TypeOK'
    <2>1. <<a>> \in [1 .. 1 -> Amounts] /\ Len(<<a>>) = 1
      OBVIOUS
    <2> QED BY <1>2, <1>3, <2>1 DEF AddMilestone
  <1>4. ASSUME NEW a \in Amounts, NEW b \in Amounts, BatchAddMilestones(a, b)
        PROVE  TypeOK'
    <2>1. <<a, b>> \in [1 .. 2 -> Amounts] /\ Len(<<a, b>>) = 2
      OBVIOUS
    <2> QED BY <1>2, <1>4, <2>1 DEF BatchAddMilestones
  <1>5. ASSUME NEW a \in Amounts, CreatePriceIndexedMilestone(a)
        PROVE  TypeOK'
    <2>1. rent_balance' \in Int /\ last_rent' \in Nat /\ vault' \in Int
      BY <1>5, BooksType DEF CreatePriceIndexedMilestone
    <2>2. a \in Nat
      BY InputsAssumption
    <2>3. NewMilestone(a, TRUE) \in Milestone
      BY <2>2, NewMilestoneType
    <2>4. ms' \in [MilestoneIds -> Milestone]
      BY <1>5, <2>3 DEF CreatePriceIndexedMilestone, TypeOK
    <2>5. allocated' \in Nat /\ milestone_count' \in 0 .. IdBound
      BY <1>5, <2>2, BoundsAssumption DEF CreatePriceIndexedMilestone, TypeOK
    <2> QED BY <1>5, <2>1, <2>4, <2>5
        DEF CreatePriceIndexedMilestone, TypeOK, world, terms, dispute, records
  <1> QED BY <1>1, <1>3, <1>4, <1>5 DEF FundingStep

(* Submitting, rejecting and approving keep the types. *)
LEMMA ReviewTypes ==
  ASSUME TypeOK, ReviewStep
  PROVE  TypeOK'
  <1>1. ASSUME NEW m \in MilestoneIds, SubmitMilestone(m)
        PROVE  TypeOK'
    <2>1. rent_balance' \in Int /\ last_rent' \in Nat /\ vault' \in Int
      BY <1>1, BooksType DEF SubmitMilestone
    <2>2. ms' \in [MilestoneIds -> Milestone]
      BY <1>1, SettingType DEF SubmitMilestone, MilestoneStatuses
    <2>3. deadline' \in OptionalTime
      BY <1>1, BoundsAssumption, ExtensionAssumption
      DEF SubmitMilestone, ExtendedDeadline, TypeOK, OptionalTime, Now
    <2> QED BY <1>1, <2>1, <2>2, <2>3
        DEF SubmitMilestone, TypeOK, world, money, dispute, records
  <1>2. ASSUME NEW m \in MilestoneIds, Reject(m)
        PROVE  TypeOK'
    <2>1. rent_balance' \in Int /\ last_rent' \in Nat /\ vault' \in Int
      BY <1>2, BooksType DEF Reject
    <2>2. ms' \in [MilestoneIds -> Milestone]
      BY <1>2, SettingType DEF Reject, MilestoneStatuses
    <2>3. submitted_count' \in Nat
      BY <1>2 DEF Reject, TypeOK, Positive
    <2> QED BY <1>2, <2>1, <2>2, <2>3
        DEF Reject, TypeOK, world, money, terms, dispute, records
  <1>3. ASSUME NEW m \in MilestoneIds, NEW s \in Approvers, ApproveMilestone(m, s)
        PROVE  TypeOK'
    <2> DEFINE signed == Signatures(m, s, 1)
               enough == AccruedWeight(signed) >= Threshold
               pays   == enough /\ TimelockOver
               due    == IF pays THEN ms[m].amount ELSE 0
               new    == IF pays THEN "Released" ELSE IF enough THEN "Approved" ELSE "Submitted"
    <2>1. signed \in Seq(Approvers)
      BY SignaturesType
    <2>2. due \in Nat
      BY DEF TypeOK, Milestone
    <2>3. rent_balance' \in Int /\ last_rent' \in Nat /\ vault' \in Int
      <3>1. Books(0, due)
        BY <1>3 DEF ApproveMilestone
      <3> QED BY <3>1, <2>2, BooksType
    <2>4. ms' \in [MilestoneIds -> Milestone]
      <3>1. ms' = [ms EXCEPT ![m].approvals = signed, ![m].status = new]
        BY <1>3 DEF ApproveMilestone
      <3>2. new \in MilestoneStatuses
        BY DEF MilestoneStatuses
      <3> HIDE DEF signed, new
      <3> QED BY <3>1, <3>2, <2>1 DEF TypeOK, Milestone
    <2>5. approved_count' \in Nat /\ released_count' \in Nat
      BY <1>3 DEF ApproveMilestone, TypeOK
    <2>6. remaining' \in Int /\ paid' \in [MilestoneIds -> Nat]
      <3>1. remaining' = remaining - due /\ paid' = [paid EXCEPT ![m] = @ + due]
        BY <1>3 DEF ApproveMilestone
      <3> HIDE DEF due
      <3> QED BY <3>1, <2>2 DEF TypeOK
    <2>7. status' \in Statuses \cup {"None", "Removed"} /\ listed' \subseteq Statuses
      BY <1>3 DEF ApproveMilestone, TypeOK, CompleteIf, RelistIf, Relist, Statuses
    <2> QED BY <1>3, <2>3, <2>4, <2>5, <2>6, <2>7
        DEF ApproveMilestone, TypeOK, world, terms, dispute, records
  <1>4. ASSUME NEW ids \in Batches, NEW s \in Approvers, BatchApproveMilestones(ids, s)
        PROVE  TypeOK'
    <2> DEFINE passes == [m \in MilestoneIds |-> Passes(ids, m, s)]
               first  == [m \in MilestoneIds |->
                            IF AccruedWeight(Signatures(m, s, 1)) >= Threshold
                            THEN ms[m].amount ELSE 0]
               count  == passes[ids[1]]
                           + (IF Len(ids) = 2 /\ ids[2] # ids[1] THEN passes[ids[2]] ELSE 0)
               due    == IF TimelockOver THEN TotalOver(ids, first) ELSE 0
               freed  == IF TimelockOver THEN count ELSE 0
    <2>1. passes \in [MilestoneIds -> Nat] /\ first \in [MilestoneIds -> Nat]
      BY CountsType DEF TypeOK, Milestone
    <2>2. count \in Nat /\ freed \in Nat
      <3> HIDE DEF passes
      <3> QED BY <2>1, BatchType
    <2>3. due \in Nat
      <3> HIDE DEF first
      <3> QED BY <2>1, BatchType DEF TotalOver
    <2>4. rent_balance' \in Int /\ last_rent' \in Nat /\ vault' \in Int
      <3>1. Books(0, due)
        BY <1>4 DEF BatchApproveMilestones
      <3> QED BY <3>1, <2>3, BooksType
    <2>5. ms' \in [MilestoneIds -> Milestone]
      <3>1. ASSUME NEW m \in MilestoneIds
            PROVE  ms'[m] \in Milestone
        <4>1. Signatures(m, s, Occurrences(ids, m)) \in Seq(Approvers)
          BY CountsType, SignaturesType
        <4> QED BY <1>4, <4>1 DEF BatchApproveMilestones, TypeOK, Milestone, MilestoneStatuses
      <3> QED BY <1>4, <3>1 DEF BatchApproveMilestones
    <2>6. /\ approved_count' \in Nat /\ released_count' \in Nat
          /\ submitted_count' \in Nat /\ remaining' \in Int
      <3>1. /\ approved_count' = approved_count + count
            /\ submitted_count' = Positive(submitted_count - count)
            /\ released_count' = released_count + freed
            /\ remaining' = remaining - due
        BY <1>4 DEF BatchApproveMilestones
      <3> HIDE DEF count, freed, due
      <3> QED BY <3>1, <2>2, <2>3 DEF TypeOK, Positive
    <2>7. paid' \in [MilestoneIds -> Nat]
      <3>1. ASSUME NEW m \in MilestoneIds
            PROVE  Occurrences(ids, m) * first[m] \in Nat
        <4> HIDE DEF first
        <4> QED BY <2>1, CountsType
      <3>2. paid' = [m \in MilestoneIds |->
                       IF TimelockOver /\ m \in IdsOf(ids)
                       THEN paid[m] + Occurrences(ids, m) * first[m] ELSE paid[m]]
        BY <1>4 DEF BatchApproveMilestones
      <3> HIDE DEF first
      <3> QED BY <3>1, <3>2 DEF TypeOK
    <2>8. status' \in Statuses \cup {"None", "Removed"}
      BY <1>4 DEF BatchApproveMilestones, TypeOK, CompleteIf, Statuses
    <2> QED BY <1>4, <2>4, <2>5, <2>6, <2>7, <2>8
        DEF BatchApproveMilestones, TypeOK, world, terms, dispute, records
  <1> QED BY <1>1, <1>2, <1>3, <1>4
      DEF ReviewStep, RejectMilestone, RejectMilestoneWithReason

(* Every door that pays an approved milestone keeps the types. *)
LEMMA PayTypes ==
  ASSUME TypeOK, NEW m \in MilestoneIds, NEW done, PayMilestone(m, done),
         UNCHANGED listed \/ RelistIf(done)
  PROVE  TypeOK'
  <1>1. ms[m].amount \in Nat
    BY DEF TypeOK, Milestone
  <1>2. rent_balance' \in Int /\ last_rent' \in Nat /\ vault' \in Int
    <2>1. Books(0, ms[m].amount)
      BY DEF PayMilestone
    <2> QED BY <1>1, <2>1, BooksType
  <1>3. ms' \in [MilestoneIds -> Milestone]
    BY SettingType DEF PayMilestone, MilestoneStatuses
  <1>4. /\ released_count' \in Nat /\ remaining' \in Int
        /\ paid' \in [MilestoneIds -> Nat]
    BY <1>1 DEF PayMilestone, TypeOK
  <1>5. status' \in Statuses \cup {"None", "Removed"} /\ listed' \subseteq Statuses
    BY DEF PayMilestone, TypeOK, CompleteIf, RelistIf, Relist, Statuses
  <1> QED BY <1>2, <1>3, <1>4, <1>5
      DEF PayMilestone, TypeOK, world, terms, dispute, records

(* The releases, alone and in batches, keep the types. *)
LEMMA ReleaseTypes ==
  ASSUME TypeOK, ReleaseStep
  PROVE  TypeOK'
  <1>1. ASSUME NEW ids \in Batches, BatchReleaseFunds(ids)
        PROVE  TypeOK'
    <2>1. Amount \in [MilestoneIds -> Nat]
      BY DEF TypeOK, Milestone, Amount
    <2>2. TotalOver(ids, Amount) \in Nat /\ Len(ids) \in Nat
      BY <2>1, BatchType DEF TotalOver
    <2>3. rent_balance' \in Int /\ last_rent' \in Nat /\ vault' \in Int
      <3>1. Books(0, TotalOver(ids, Amount))
        BY <1>1 DEF BatchReleaseFunds
      <3> QED BY <2>2, <3>1, BooksType
    <2>4. ms' \in [MilestoneIds -> Milestone]
      <3>1. \A m \in MilestoneIds : [ms[m] EXCEPT !.status = "Released"] \in Milestone
        BY DEF TypeOK, Milestone, MilestoneStatuses
      <3>2. ms \in [MilestoneIds -> Milestone]
        BY DEF TypeOK
      <3> QED BY <1>1, <3>1, <3>2 DEF BatchReleaseFunds
    <2>5. released_count' \in Nat /\ remaining' \in Int
      BY <1>1, <2>2 DEF BatchReleaseFunds, TypeOK
    <2>6. paid' \in [MilestoneIds -> Nat]
      <3>1. \A m \in MilestoneIds : Occurrences(ids, m) * ms[m].amount \in Nat
        <4>1. \A m \in MilestoneIds : Occurrences(ids, m) \in Nat
          BY CountsType
        <4>2. \A m \in MilestoneIds : ms[m].amount \in Nat
          BY DEF TypeOK, Milestone
        <4> QED BY <4>1, <4>2
      <3>2. \A m \in MilestoneIds : paid[m] \in Nat
        BY DEF TypeOK
      <3>3. \A m \in MilestoneIds : paid[m] + Occurrences(ids, m) * ms[m].amount \in Nat
        BY <3>1, <3>2
      <3> QED BY <1>1, <3>2, <3>3 DEF BatchReleaseFunds
    <2>7. status' \in Statuses \cup {"None", "Removed"} /\ listed' \subseteq Statuses
      BY <1>1 DEF BatchReleaseFunds, TypeOK, CompleteIf, RelistIf, Relist, Statuses
    <2> QED BY <1>1, <2>3, <2>4, <2>5, <2>6, <2>7
        DEF BatchReleaseFunds, TypeOK, world, terms, dispute, records
  <1>2. ASSUME NEW m \in MilestoneIds, NEW c, ReleaseFunds(m, c)
        PROVE  TypeOK'
    BY <1>2, PayTypes DEF ReleaseFunds, AllReleased
  <1>3. ASSUME NEW m \in MilestoneIds, ReleaseWithTimelock(m)
        PROVE  TypeOK'
    BY <1>3, PayTypes DEF ReleaseWithTimelock
  <1>4. ASSUME NEW m \in MilestoneIds, TriggerOracleRelease(m)
        PROVE  TypeOK'
    <2>1. ms[m].amount \in Nat
      BY DEF TypeOK, Milestone
    <2>2. rent_balance' \in Int /\ last_rent' \in Nat /\ vault' \in Int
      BY <1>4, <2>1, BooksType DEF TriggerOracleRelease
    <2>3. ms' \in [MilestoneIds -> Milestone]
      BY <1>4, SettingType DEF TriggerOracleRelease, MilestoneStatuses
    <2>4. /\ approved_count' \in Nat /\ released_count' \in Nat
          /\ remaining' \in Int /\ paid' \in [MilestoneIds -> Nat]
      BY <1>4, <2>1 DEF TriggerOracleRelease, TypeOK
    <2>5. status' \in Statuses \cup {"None", "Removed"}
      BY <1>4 DEF TriggerOracleRelease, TypeOK, CompleteIf, Statuses
    <2> QED BY <1>4, <2>2, <2>3, <2>4, <2>5
        DEF TriggerOracleRelease, TypeOK, world, terms, dispute, records
  <1> QED BY <1>1, <1>2, <1>3, <1>4 DEF ReleaseStep

(* Locks, swaps and refunds keep the types. *)
LEMMA LockTypes ==
  ASSUME TypeOK, LockStep
  PROVE  TypeOK'
  <1>1. Now \in Nat
    BY BoundsAssumption DEF TypeOK, Now
  <1>2. ASSUME NEW d \in Timelocks \ {NoTime}, StartTimelock(d)
        PROVE  TypeOK'
    <2>1. rent_balance' \in Int /\ last_rent' \in Nat /\ vault' \in Int
      BY <1>2, BooksType DEF StartTimelock
    <2>2. timelock' \in OptionalTime
      BY <1>1, <1>2, InputsAssumption DEF StartTimelock, OptionalTime
    <2> QED BY <1>2, <2>1, <2>2
        DEF StartTimelock, TypeOK, world, money, counters, dispute, records
  <1>3. ASSUME NEW t \in LockTimes, ExtendLockTime(t)
        PROVE  TypeOK'
    <2>1. rent_balance' \in Int /\ last_rent' \in Nat /\ vault' \in Int
      BY <1>3, BooksType DEF ExtendLockTime
    <2> QED BY <1>3, <2>1, InputsAssumption
        DEF ExtendLockTime, TypeOK, world, money, counters, dispute, records
  <1>4. ASSUME NEW t \in LockTimes, SetTimelock(t)
        PROVE  TypeOK'
    <2>1. rent_balance' \in Int /\ last_rent' \in Nat /\ vault' \in Int
      BY <1>4, BooksType DEF SetTimelock
    <2> QED BY <1>4, <2>1, InputsAssumption
        DEF SetTimelock, TypeOK, world, money, counters, dispute, records
  <1> QED BY <1>2, <1>3, <1>4 DEF LockStep

(* The client's swap, partial and full cancellation keep the types. *)
LEMMA RefundTypes ==
  ASSUME TypeOK, RefundStep
  PROVE  TypeOK'
  <1>1. ASSUME NEW a \in Amounts, SwapAssetViaDex(a)
        PROVE  TypeOK'
    <2>1. rent_balance' \in Int /\ last_rent' \in Nat /\ vault' \in Int
      BY <1>1, BooksType DEF SwapAssetViaDex
    <2>2. remaining' \in Int
      BY <1>1, InputsAssumption DEF SwapAssetViaDex, TypeOK
    <2> QED BY <1>1, <2>1, <2>2
        DEF SwapAssetViaDex, TypeOK, world, counters, terms, dispute, records
  <1>2. ASSUME PartialCancel
        PROVE  TypeOK'
    <2>1. Positive(remaining - allocated) \in Int
      BY DEF TypeOK, Positive
    <2>2. rent_balance' \in Int /\ last_rent' \in Nat /\ vault' \in Int
      BY <1>2, <2>1, BooksType DEF PartialCancel
    <2>3. remaining' \in Int
      BY <1>2, <2>1 DEF PartialCancel, TypeOK
    <2> QED BY <1>2, <2>2, <2>3
        DEF PartialCancel, TypeOK, world, counters, terms, dispute, records
  <1>3. ASSUME CancelEscrow
        PROVE  TypeOK'
    <2>1. Positive(remaining) \in Int
      BY DEF TypeOK, Positive
    <2>2. rent_balance' \in Int /\ last_rent' \in Nat /\ vault' \in Int
      BY <1>3, <2>1, BooksType DEF CancelEscrow
    <2>3. paid' \in [MilestoneIds -> Nat]
      BY <1>3 DEF CancelEscrow, TypeOK, Milestone
    <2>4. status' \in Statuses /\ listed' \subseteq Statuses
      BY <1>3 DEF CancelEscrow, TypeOK, Statuses, Relist
    <2>5. /\ remaining' = 0 /\ fee_collected' \in BOOLEAN
          /\ UNCHANGED <<world, total, allocated, counters, ms, terms, dispute,
                         request, slash>>
      BY <1>3 DEF CancelEscrow
    <2> QED BY <2>2, <2>3, <2>4, <2>5 DEF TypeOK, world, counters, terms, dispute
  <1> QED BY <1>1, <1>2, <1>3 DEF RefundStep

(* Disputes, cancellations and slashes keep the types. *)
LEMMA SettleTypes ==
  ASSUME TypeOK, NEW client_amount \in Int, Settle(client_amount),
         dispute_started' \in OptionalTime
  PROVE  TypeOK'
  <1>1. ArbiterFee + Positive(client_amount) + Positive(remaining - client_amount) \in Int
    BY DisputeAssumption DEF TypeOK, Positive
  <1>2. rent_balance' \in Int /\ last_rent' \in Nat /\ vault' \in Int
    <2>1. Books(0, ArbiterFee + Positive(client_amount) + Positive(remaining - client_amount))
      BY DEF Settle
    <2> QED BY <1>1, <2>1, BooksType
  <1>3. status' \in Statuses /\ listed' \subseteq Statuses
    BY DEF Settle, TypeOK, Statuses, Relist
  <1>4. /\ remaining' = 0
        /\ UNCHANGED <<world, total, allocated, counters, ms, terms, dispute_start,
                       records, paid>>
    BY DEF Settle
  <1> QED BY <1>2, <1>3, <1>4 DEF TypeOK, world, counters, terms, records

(* Raising, claiming and resolving a dispute keep the types. *)
LEMMA DisputeTypes ==
  ASSUME TypeOK, DisputeStep
  PROVE  TypeOK'
  <1>1. ASSUME Disputing, ms' \in [MilestoneIds -> Milestone], submitted_count' \in Nat
        PROVE  TypeOK'
    <2>1. rent_balance' \in Int /\ last_rent' \in Nat /\ vault' \in Int
      BY <1>1, BooksType DEF Disputing
    <2>2. status' \in Statuses /\ listed' \subseteq Statuses
      BY <1>1 DEF Disputing, TypeOK, Statuses, Relist
    <2>3. dispute_started' \in OptionalTime /\ dispute_start' \in OptionalTime
      BY <1>1, BoundsAssumption DEF Disputing, TypeOK, Now, OptionalTime
    <2>4. UNCHANGED <<world, money, milestone_count, approved_count, released_count,
                      terms, records, paid>>
      BY <1>1 DEF Disputing
    <2> QED BY <1>1, <2>1, <2>2, <2>3, <2>4 DEF TypeOK, world, money, terms, records
  <1>2. CASE RaiseDispute
    BY <1>1, <1>2 DEF RaiseDispute, TypeOK
  <1>3. ASSUME NEW m \in MilestoneIds, RaiseMilestoneDispute(m)
        PROVE  TypeOK'
    <2>1. ms' \in [MilestoneIds -> Milestone]
      BY <1>3, SettingType DEF RaiseMilestoneDispute, MilestoneStatuses
    <2>2. submitted_count' \in Nat
      BY <1>3 DEF RaiseMilestoneDispute, TypeOK, Positive
    <2> QED BY <1>1, <1>3, <2>1, <2>2 DEF RaiseMilestoneDispute
  <1>4. CASE ClaimDisputeTimeout
    <2>1. Quotient(remaining, 2) \in Int
      BY QuotientType DEF TypeOK
    <2>2. dispute_started' \in OptionalTime
      BY <1>4 DEF ClaimDisputeTimeout, OptionalTime
    <2> QED BY <1>4, <2>1, <2>2, SettleTypes DEF ClaimDisputeTimeout
  <1>5. ASSUME NEW award \in Awards, ResolveDispute(award)
        PROVE  TypeOK'
    <2>1. award \in Int
      BY DisputeAssumption
    <2>2. dispute_started' \in OptionalTime
      BY <1>5 DEF ResolveDispute, OptionalTime
    <2> QED BY <1>5, <2>1, <2>2, SettleTypes DEF ResolveDispute
  <1>6. ASSUME NEW halves \in 0 .. 2, OracleResolveDispute(halves)
        PROVE  TypeOK'
    <2>1. remaining * halves \in Int
      BY DEF TypeOK
    <2>2. Quotient(remaining * halves, 2) \in Int
      BY <2>1, QuotientType
    <2>3. dispute_started' \in OptionalTime
      BY <1>6 DEF OracleResolveDispute, TypeOK
    <2> QED BY <1>6, <2>2, <2>3, SettleTypes DEF OracleResolveDispute
  <1> QED BY <1>2, <1>3, <1>4, <1>5, <1>6 DEF DisputeStep

(* Requesting, approving, executing and disputing a cancellation keep the types. *)
LEMMA CancellationTypes ==
  ASSUME TypeOK, CancellationStep
  PROVE  TypeOK'
  <1>1. Now \in Nat
    BY BoundsAssumption DEF TypeOK, Now
  <1>2. ASSUME NEW party \in Parties, RequestCancellation(party)
        PROVE  TypeOK'
    <2>1. rent_balance' \in Int /\ last_rent' \in Nat /\ vault' \in Int
      BY <1>2, ReserveType, BooksType DEF RequestCancellation
    <2>2. request' \in CancellationRequest
      BY <1>1, <1>2, DisputeAssumption DEF RequestCancellation, CancellationRequest
    <2>3. status' \in Statuses /\ listed' \subseteq Statuses
      BY <1>2 DEF RequestCancellation, TypeOK, Statuses, Relist
    <2>4. UNCHANGED <<world, money, counters, ms, terms, dispute, slash, fee_collected, paid>>
      BY <1>2 DEF RequestCancellation
    <2> QED BY <2>1, <2>2, <2>3, <2>4 DEF TypeOK, world, money, counters, terms, dispute
  <1>3. CASE ApproveCancellation
    <2>1. rent_balance' \in Int /\ last_rent' \in Nat /\ vault' \in Int
      BY <1>3, BooksType DEF ApproveCancellation
    <2>2. request' \in CancellationRequest
      BY <1>3 DEF ApproveCancellation, TypeOK, CancellationRequest
    <2>3. UNCHANGED <<world, status, listed, money, counters, ms, terms, dispute,
                      slash, fee_collected, paid>>
      BY <1>3 DEF ApproveCancellation
    <2> QED BY <2>1, <2>2, <2>3 DEF TypeOK, world, money, counters, terms, dispute
  <1>4. CASE ExecuteCancellation
    <2> DEFINE slashed == Quotient(remaining * SlashPercent, 100)
    <2>1. slashed \in Int
      <3>1. remaining * SlashPercent \in Int
        BY DisputeAssumption DEF TypeOK
      <3> QED BY <3>1, QuotientType
    <2>2. Positive(remaining - slashed) \in Int
      <3> HIDE DEF slashed
      <3> QED BY <2>1 DEF TypeOK, Positive
    <2>3. rent_balance' \in Int /\ last_rent' \in Nat /\ vault' \in Int
      <3>1. Books(0, Positive(remaining - slashed))
        BY <1>4 DEF ExecuteCancellation
      <3> QED BY <2>2, <3>1, BooksType
    <2>4. slash' \in SlashRecord
      <3>1. slash' = [slashed_user |-> request.requester, amount |-> slashed,
                      slashed_at |-> Now, disputed |-> FALSE]
        BY <1>4 DEF ExecuteCancellation
      <3> HIDE DEF slashed
      <3> QED BY <1>1, <2>1, <3>1 DEF TypeOK, CancellationRequest, SlashRecord
    <2>5. request' \in CancellationRequest
      BY <1>4 DEF ExecuteCancellation, NoRequest, CancellationRequest
    <2>6. status' \in Statuses /\ listed' \subseteq Statuses
      BY <1>4 DEF ExecuteCancellation, TypeOK, Statuses, Relist
    <2>7. /\ remaining' = 0 /\ fee_collected' \in BOOLEAN
          /\ UNCHANGED <<world, total, allocated, counters, ms, terms, dispute, paid>>
      BY <1>4 DEF ExecuteCancellation
    <2> QED BY <2>3, <2>4, <2>5, <2>6, <2>7 DEF TypeOK, world, counters, terms, dispute
  <1>5. CASE DisputeCancellation
    <2>1. rent_balance' \in Int /\ last_rent' \in Nat /\ vault' \in Int
      BY <1>5, BooksType DEF DisputeCancellation
    <2>2. request' \in CancellationRequest
      BY <1>5 DEF DisputeCancellation, TypeOK, CancellationRequest
    <2>3. status' \in Statuses /\ listed' \subseteq Statuses
      BY <1>5 DEF DisputeCancellation, TypeOK, Statuses, Relist
    <2>4. UNCHANGED <<world, money, counters, ms, terms, dispute, slash, fee_collected, paid>>
      BY <1>5 DEF DisputeCancellation
    <2> QED BY <2>1, <2>2, <2>3, <2>4 DEF TypeOK, world, money, counters, terms, dispute
  <1> QED BY <1>2, <1>3, <1>4, <1>5 DEF CancellationStep

(* Finalizing, disputing and resolving a slash keep the types. *)
LEMMA SlashTypes ==
  ASSUME TypeOK, SlashStep
  PROVE  TypeOK'
  <1>1. slash.amount \in Int
    BY DEF TypeOK, SlashRecord
  <1>2. NoSlash \in SlashRecord
    BY DEF NoSlash, SlashRecord
  <1>3. ASSUME slash' \in SlashRecord,
               rent_balance' \in Int /\ last_rent' \in Nat /\ vault' \in Int,
               UNCHANGED <<world, status, listed, money, counters, ms, terms, dispute,
                           request, fee_collected, paid>>
        PROVE  TypeOK'
    BY <1>3 DEF TypeOK, world, money, counters, terms, dispute
  <1>4. CASE FinalizeSlash
    <2>1. rent_balance' \in Int /\ last_rent' \in Nat /\ vault' \in Int
      BY <1>1, <1>4, BooksUnsettledType DEF FinalizeSlash
    <2> QED BY <1>2, <1>3, <1>4, <2>1 DEF FinalizeSlash
  <1>5. CASE DisputeSlash
    <2>1. rent_balance' \in Int /\ last_rent' \in Nat /\ vault' \in Int
      BY <1>5, BooksType DEF DisputeSlash
    <2>2. slash' \in SlashRecord
      BY <1>5 DEF DisputeSlash, TypeOK, SlashRecord
    <2> QED BY <1>3, <1>5, <2>1, <2>2 DEF DisputeSlash
  <1>6. ASSUME NEW upheld \in BOOLEAN, ResolveSlashDispute(upheld)
        PROVE  TypeOK'
    <2>1. rent_balance' \in Int /\ last_rent' \in Nat /\ vault' \in Int
      <3>1. Books(0, IF upheld THEN 0 ELSE slash.amount)
        BY <1>6 DEF ResolveSlashDispute
      <3> QED BY <1>1, <3>1, BooksType
    <2> QED BY <1>2, <1>3, <1>6, <2>1 DEF ResolveSlashDispute
  <1> QED BY <1>4, <1>5, <1>6 DEF SlashStep

(* Administration, rent, expiry and the fee keep the types. *)
LEMMA ServiceTypes ==
  ASSUME TypeOK, Tick \/ AdminStep \/ RentStep \/ ClosingStep
  PROVE  TypeOK'
  <1>1. ASSUME UNCHANGED <<seq, frozen, escrowVars>> \/ UNCHANGED <<seq, paused, escrowVars>>,
               paused' \in BOOLEAN, frozen' \in BOOLEAN,
               rent_balance' \in Int /\ last_rent' \in Nat /\ vault' \in Int
        PROVE  TypeOK'
    BY <1>1 DEF TypeOK, escrowVars, money, counters, terms, dispute, records
  <1>2. CASE Tick
    BY <1>2 DEF Tick, TypeOK, money, counters, terms, dispute, records
  <1>3. ASSUME NEW p \in BOOLEAN, SetPaused(p)
        PROVE  TypeOK'
    BY <1>1, <1>3 DEF SetPaused, TypeOK
  <1>4. ASSUME NEW f \in BOOLEAN, SetFrozen(f)
        PROVE  TypeOK'
    <2>1. rent_balance' \in Int /\ last_rent' \in Nat /\ vault' \in Int
      BY <1>4, BooksType DEF SetFrozen
    <2> QED BY <1>1, <1>4, <2>1 DEF SetFrozen, TypeOK
  <1>5. CASE CollectRent
    <2>1. rent_balance' \in Int /\ last_rent' \in Nat /\ vault' \in Int
      BY <1>5, BooksType DEF CollectRent
    <2> QED BY <1>1, <1>5, <2>1 DEF CollectRent, world, TypeOK
  <1>6. CASE ExpireEscrow
    <2>1. status' \in Statuses \cup {"None", "Removed"}
      BY <1>6 DEF ExpireEscrow
    <2>2. vault' \in Int
      BY <1>6 DEF ExpireEscrow, TypeOK, Positive
    <2>3. ms' \in [MilestoneIds -> Milestone]
      BY <1>6 DEF ExpireEscrow, NoMilestone, Milestone
    <2>4. request' \in CancellationRequest /\ slash' \in SlashRecord
      BY <1>6 DEF ExpireEscrow, NoRequest, CancellationRequest, NoSlash, SlashRecord
    <2>5. /\ rent_balance' = 0 /\ remaining' = 0 /\ milestone_count' = 0
          /\ UNCHANGED <<world, listed, total, allocated, approved_count, released_count,
                         submitted_count, terms, dispute, fee_collected, last_rent, paid>>
      BY <1>6 DEF ExpireEscrow
    <2>6. milestone_count' \in 0 .. IdBound
      BY <2>5, BoundsAssumption
    <2> QED BY <2>1, <2>2, <2>3, <2>4, <2>5, <2>6 DEF TypeOK, world, terms, dispute
  <1>7. ASSUME NEW n \in TopUps, TopUpRent(n)
        PROVE  TypeOK'
    <2>1. n * RentRate \in Int
      BY RentType, ServiceAssumption
    <2>2. rent_balance' \in Int /\ last_rent' \in Nat /\ vault' \in Int
      BY <1>7, <2>1, BooksType DEF TopUpRent
    <2> QED BY <1>1, <1>7, <2>2 DEF TopUpRent, world, TypeOK
  <1>8. ASSUME NEW a \in Amounts, WithdrawRentOverpayment(a)
        PROVE  TypeOK'
    <2>1. -a \in Int
      BY InputsAssumption
    <2>2. rent_balance' \in Int /\ last_rent' \in Nat /\ vault' \in Int
      BY <1>8, <2>1, BooksType DEF WithdrawRentOverpayment
    <2> QED BY <1>1, <1>8, <2>2 DEF WithdrawRentOverpayment, world, TypeOK
  <1>9. CASE TriggerExpiry
    <2>1. Positive(remaining) \in Int
      BY DEF TypeOK, Positive
    <2>2. rent_balance' \in Int /\ last_rent' \in Nat /\ vault' \in Int
      BY <1>9, <2>1, BooksUnsettledType DEF TriggerExpiry
    <2> QED BY <1>9, <2>2
        DEF TriggerExpiry, TypeOK, Statuses, world, counters, terms, dispute, records
  <1>10. CASE CollectEscrowFee
    <2>1. rent_balance' \in Int /\ last_rent' \in Nat /\ vault' \in Int
      BY <1>10, ServiceAssumption, BooksUnsettledType DEF CollectEscrowFee
    <2>2. fee_collected' \in BOOLEAN
      BY <1>10 DEF CollectEscrowFee
    <2> QED BY <1>10, <2>1, <2>2
        DEF CollectEscrowFee, TypeOK, world, money, counters, terms, dispute
  <1> QED BY <1>2, <1>3, <1>4, <1>5, <1>6, <1>7, <1>8, <1>9, <1>10
      DEF AdminStep, RentStep, ClosingStep

(* The contract before the escrow is created is typed. *)
LEMMA InitTypes ==
  ASSUME Init
  PROVE  TypeOK
  <1>1. NoMilestone \in Milestone /\ NoRequest \in CancellationRequest
        /\ NoSlash \in SlashRecord
    BY DEF NoMilestone, Milestone, NoRequest, CancellationRequest, NoSlash, SlashRecord
  <1>2. ms \in [MilestoneIds -> Milestone] /\ paid \in [MilestoneIds -> Nat]
    BY <1>1 DEF Init
  <1>3. paused \in BOOLEAN /\ frozen \in BOOLEAN /\ fee_collected \in BOOLEAN
    BY DEF Init
  <1>4. NoTime \in OptionalTime /\ 0 \in 0 .. IdBound
    BY BoundsAssumption DEF OptionalTime
  <1> QED BY <1>1, <1>2, <1>3, <1>4 DEF Init, TypeOK

(* Every step of the contract, stutters included, keeps the types. *)
LEMMA NextTypes ==
  ASSUME TypeOK, [Next]_vars
  PROVE  TypeOK'
  <1>1. CASE UNCHANGED vars
    BY <1>1 DEF vars, TypeOK, world, money, counters, terms, dispute, records
  <1>2. CASE Next
    BY <1>2, FundingTypes, ReviewTypes, ReleaseTypes, LockTypes, RefundTypes,
       DisputeTypes, CancellationTypes, SlashTypes, ServiceTypes
    DEF Next, MilestoneStep
  <1> QED BY <1>1, <1>2

(* Every variable keeps its type, whatever the amounts, periods, policies *)
(* and bounds: no counter turns negative, and no id reaches IdBound.      *)
THEOREM TypeCorrect == Spec => []TypeOK
  <1>1. Init => TypeOK
    BY InitTypes
  <1>2. TypeOK /\ [Next]_vars => TypeOK'
    BY NextTypes
  <1> QED BY <1>1, <1>2, PTL DEF Spec

(***************************************************************************)
(* The status.                                                             *)
(***************************************************************************)

(* The status index holds an open escrow under its status.  Every door that *)
(* leaves a stale entry also ends the escrow.                               *)
THEOREM Listed == Spec => []ListedWhereOpen
  <1>1. Init => ListedWhereOpen
    BY DEF Init, ListedWhereOpen, Open
  <1>2. ASSUME ListedWhereOpen, [Next]_vars
        PROVE  ListedWhereOpen'
    <2>1. CASE UNCHANGED <<status, listed>>
      BY <1>2, <2>1 DEF ListedWhereOpen, Open
    <2>2. CASE UNCHANGED vars
      BY <2>1, <2>2 DEF vars
    <2>3. CASE FundingStep
      BY <1>2, <2>1, <2>3 DEF FundingStep, CreateEscrow, AddMilestone, BatchAddMilestones,
         AddMilestones, CreatePriceIndexedMilestone, ListedWhereOpen, Open
    <2>4. CASE ReviewStep
      <3>1. CASE UNCHANGED status /\ UNCHANGED listed
        BY <2>1, <3>1
      <3>2. ASSUME NEW m \in MilestoneIds, NEW s \in Approvers, ApproveMilestone(m, s)
            PROVE  \E done : CompleteIf(done) /\ RelistIf(done)
        BY <3>2 DEF ApproveMilestone
      <3>3. ASSUME NEW ids \in Batches, NEW s \in Approvers, BatchApproveMilestones(ids, s)
            PROVE  UNCHANGED listed /\ \E done : CompleteIf(done)
        BY <3>3 DEF BatchApproveMilestones
      <3>4. ASSUME NEW done, CompleteIf(done), RelistIf(done) \/ UNCHANGED listed
            PROVE  ListedWhereOpen'
        BY <1>2, <3>4 DEF CompleteIf, RelistIf, Relist, ListedWhereOpen, Open
      <3> QED BY <2>4, <3>1, <3>2, <3>3, <3>4 DEF ReviewStep, SubmitMilestone,
          RejectMilestone, RejectMilestoneWithReason, Reject
    <2>5. CASE ReleaseStep
      BY <1>2, <2>1, <2>5 DEF ReleaseStep, BatchReleaseFunds, ReleaseFunds, PayMilestone,
         ReleaseWithTimelock, TriggerOracleRelease, CompleteIf, RelistIf, Relist,
         ListedWhereOpen, Open
    <2>6. CASE LockStep \/ AdminStep \/ RentStep \/ ClosingStep \/ Tick \/ SlashStep
      BY <1>2, <2>1, <2>6 DEF LockStep, StartTimelock, ExtendLockTime, SetTimelock,
         AdminStep, SetPaused, SetFrozen, RentStep, CollectRent, ExpireEscrow, TopUpRent,
         WithdrawRentOverpayment, ClosingStep, TriggerExpiry, CollectEscrowFee, Tick,
         SlashStep, FinalizeSlash, DisputeSlash, ResolveSlashDispute, escrowVars,
         ListedWhereOpen, Open
    <2>7. CASE RefundStep
      BY <1>2, <2>1, <2>7 DEF RefundStep, SwapAssetViaDex, PartialCancel, CancelEscrow,
         Relist, ListedWhereOpen, Open
    <2>8. CASE DisputeStep
      BY <1>2, <2>1, <2>8 DEF DisputeStep, RaiseDispute, RaiseMilestoneDispute, Disputing,
         ClaimDisputeTimeout, ResolveDispute, OracleResolveDispute, Settle, Relist,
         ListedWhereOpen, Open
    <2>9. CASE CancellationStep
      BY <1>2, <2>1, <2>9 DEF CancellationStep, RequestCancellation, ApproveCancellation,
         ExecuteCancellation, DisputeCancellation, Relist, ListedWhereOpen, Open
    <2> QED BY <1>2, <2>2, <2>3, <2>4, <2>5, <2>6, <2>7, <2>8, <2>9 DEF Next, MilestoneStep
  <1> QED BY <1>1, <1>2, PTL DEF Spec

(* An escrow that left Active never comes back to it. *)
THEOREM OneWay == Spec => NeverReactivated
  <1>1. ASSUME [Next]_vars
        PROVE  [status \notin {"None", "Active"} => status' # "Active"]_vars
    <2>1. CASE UNCHANGED vars
      BY <2>1
    <2>2. CASE UNCHANGED status
      BY <2>2
    <2>3. CASE status = "Active" \/ status = "None"
      BY <2>3
    <2>4. CASE FundingStep \/ RefundStep \/ LockStep
      BY <2>2, <2>3, <2>4 DEF FundingStep, CreateEscrow, AddMilestone, BatchAddMilestones,
         AddMilestones, CreatePriceIndexedMilestone, RefundStep, SwapAssetViaDex,
         PartialCancel, CancelEscrow, LockStep, StartTimelock, ExtendLockTime, SetTimelock
    <2>5. CASE ReviewStep \/ ReleaseStep
      <3>1. CASE ReviewStep
        BY <2>2, <2>3, <3>1 DEF ReviewStep, SubmitMilestone, RejectMilestone,
           RejectMilestoneWithReason, Reject, ApproveMilestone, BatchApproveMilestones,
           PayMilestone, CompleteIf
      <3>2. CASE ReleaseStep
        BY <2>2, <2>3, <3>2 DEF ReleaseStep, BatchReleaseFunds, ReleaseFunds, PayMilestone,
           ReleaseWithTimelock, TriggerOracleRelease, CompleteIf
      <3> QED BY <2>5, <3>1, <3>2
    <2>6. CASE DisputeStep \/ CancellationStep \/ SlashStep
      BY <2>2, <2>3, <2>6 DEF DisputeStep, RaiseDispute, RaiseMilestoneDispute, Disputing,
         ClaimDisputeTimeout, ResolveDispute, OracleResolveDispute, Settle,
         CancellationStep, RequestCancellation, ApproveCancellation, ExecuteCancellation,
         DisputeCancellation, SlashStep, FinalizeSlash, DisputeSlash, ResolveSlashDispute
    <2>7. CASE AdminStep \/ RentStep \/ ClosingStep \/ Tick
      BY <2>2, <2>3, <2>7 DEF AdminStep, SetPaused, SetFrozen, RentStep, CollectRent,
         ExpireEscrow, TopUpRent, WithdrawRentOverpayment, ClosingStep, TriggerExpiry,
         CollectEscrowFee, Tick, escrowVars
    <2> QED BY <1>1, <2>1, <2>4, <2>5, <2>6, <2>7 DEF Next, MilestoneStep
  <1> QED BY <1>1, PTL DEF Spec, NeverReactivated

(***************************************************************************)
(* Locks and the pause.                                                    *)
(***************************************************************************)

(* No entry point releases a milestone past lock_time or a timelock, but for *)
(* the doors that LocksHold names.                                           *)
THEOREM Locked == Spec => LocksHold
  <1>1. ASSUME TypeOK, [Next]_vars
        PROVE  [\A m \in MilestoneIds : PastLocks(m)]_vars
    <2> SUFFICES ASSUME Next, NEW m \in MilestoneIds, NewlyReleased(m),
                        ~(ms[m].priced /\ ms[m].status = "Pending"),
                        ~(release_time # NoTime /\ Now >= release_time)
                 PROVE  /\ Now >= lock_time
                        /\ Now < timelock => ms[m].status = "Approved"
      BY <1>1 DEF PastLocks
    <2>1. Now \in Int /\ timelock \in Int /\ ms \in [MilestoneIds -> Milestone]
      BY <1>1, BoundsAssumption DEF TypeOK, OptionalTime, NoTime, Now
    <2>2. ms'[m].status = "Released" /\ ms[m].status # "Released"
      BY DEF NewlyReleased
    <2>3. ms' # ms
      BY <2>2
    <2>4. \A k \in MilestoneIds : \A st :
            ms' = Setting(k, st) => st = "Released" /\ k = m
      BY <2>1, <2>2 DEF Setting, Milestone
    <2>5. ~FundingStep
      <3>1. ASSUME NEW amounts, AddMilestones(amounts)
            PROVE  FALSE
        BY <2>2, <3>1 DEF AddMilestones, NewMilestone
      <3>2. ASSUME NEW a, CreatePriceIndexedMilestone(a)
            PROVE  FALSE
        BY <2>1, <2>2, <3>2 DEF CreatePriceIndexedMilestone, NewMilestone
      <3> QED BY <2>3, <3>1, <3>2 DEF FundingStep, CreateEscrow, AddMilestone,
          BatchAddMilestones
    <2>6. ASSUME NEW k \in MilestoneIds, NEW s, ApproveMilestone(k, s)
          PROVE  Now >= lock_time /\ Now >= timelock
      <3>1. Unlocked /\ (ms'[m].status = "Released" => k = m /\ TimelockOver)
        BY <2>1, <2>2, <2>6 DEF ApproveMilestone, Milestone
      <3> QED BY <2>2, <3>1 DEF Unlocked, TimelockOver
    <2>7. ASSUME NEW ids, NEW s, BatchApproveMilestones(ids, s)
          PROVE  Now >= lock_time /\ Now >= timelock
      <3>1. Unlocked /\ (ms'[m].status = "Released" => TimelockOver)
        BY <2>1, <2>2, <2>7 DEF BatchApproveMilestones, Milestone
      <3> QED BY <2>2, <3>1 DEF Unlocked, TimelockOver
    <2>8. CASE ReviewStep
      <3>1. \A k \in MilestoneIds : ~SubmitMilestone(k) /\ ~Reject(k)
        BY <2>4 DEF SubmitMilestone, Reject
      <3> QED BY <2>1, <2>6, <2>7, <2>8, <3>1 DEF ReviewStep, RejectMilestone,
          RejectMilestoneWithReason
    <2>9. CASE ReleaseStep
      <3>1. ASSUME NEW ids, BatchReleaseFunds(ids)
            PROVE  Now >= lock_time /\ ms[m].status = "Approved"
        BY <2>2, <3>1 DEF BatchReleaseFunds, Unlocked
      <3>2. ASSUME NEW k \in MilestoneIds, NEW c, ReleaseFunds(k, c)
            PROVE  Now >= lock_time /\ ms[m].status = "Approved"
        BY <2>4, <3>2 DEF ReleaseFunds, PayMilestone, Unlocked
      <3>3. ASSUME NEW k \in MilestoneIds
            PROVE  ~ReleaseWithTimelock(k) /\ ~TriggerOracleRelease(k)
        BY <2>4, <3>3 DEF ReleaseWithTimelock, TriggerOracleRelease
      <3> QED BY <2>9, <3>1, <3>2, <3>3 DEF ReleaseStep
    <2>10. ~LockStep /\ ~RefundStep
      BY <2>3 DEF LockStep, StartTimelock, ExtendLockTime, SetTimelock,
         RefundStep, SwapAssetViaDex, PartialCancel, CancelEscrow
    <2>11. ~DisputeStep
      BY <2>3, <2>4 DEF DisputeStep, RaiseDispute, RaiseMilestoneDispute,
         ClaimDisputeTimeout, ResolveDispute, OracleResolveDispute, Settle
    <2>12. ~CancellationStep /\ ~SlashStep
      BY <2>3 DEF CancellationStep, RequestCancellation, ApproveCancellation,
         ExecuteCancellation, DisputeCancellation, SlashStep, FinalizeSlash,
         DisputeSlash, ResolveSlashDispute
    <2>13. ~AdminStep /\ ~ClosingStep /\ ~Tick
      BY <2>3 DEF AdminStep, SetPaused, SetFrozen, ClosingStep, TriggerExpiry,
         CollectEscrowFee, Tick, escrowVars
    <2>14. ~RentStep
      <3>1. ~ExpireEscrow
        BY <2>2 DEF ExpireEscrow, NoMilestone
      <3> QED BY <2>3, <3>1 DEF RentStep, CollectRent, TopUpRent,
          WithdrawRentOverpayment, escrowVars
    <2> QED BY <2>1, <2>5, <2>8, <2>9, <2>10, <2>11, <2>12, <2>13, <2>14
        DEF Next, MilestoneStep
  <1>2. Spec => []TypeOK
    BY TypeCorrect
  <1> QED BY <1>1, <1>2, PTL DEF Spec, LocksHold

(* A paused contract moves no escrow money. *)
THEOREM PauseHolds == Spec => PauseHoldsFunds
  <1>1. ASSUME [Next]_vars
        PROVE  [paused => \/ remaining' = remaining /\ ms' = ms /\ paid' = paid
                          \/ status' = "Removed"]_vars
    <2> SUFFICES ASSUME Next, paused
                 PROVE  \/ remaining' = remaining /\ ms' = ms /\ paid' = paid
                        \/ status' = "Removed"
      BY <1>1
    <2>1. ~Live /\ ~LiveUnfrozen
      BY DEF Live, LiveUnfrozen
    <2>a. ~FundingStep
      BY <2>1 DEF FundingStep, CreateEscrow, AddMilestone, BatchAddMilestones, AddMilestones,
         CreatePriceIndexedMilestone
    <2>b. ~ReviewStep
      BY <2>1 DEF ReviewStep, SubmitMilestone, RejectMilestone, RejectMilestoneWithReason,
         ApproveMilestone, BatchApproveMilestones
    <2>2. ~FundingStep /\ ~ReviewStep
      BY <2>a, <2>b
    <2>3. ~ReleaseStep /\ ~LockStep /\ ~RefundStep
      BY <2>1 DEF ReleaseStep, BatchReleaseFunds, ReleaseFunds, ReleaseWithTimelock,
         TriggerOracleRelease, LockStep, StartTimelock, ExtendLockTime, SetTimelock,
         RefundStep, SwapAssetViaDex, PartialCancel, CancelEscrow
    <2>4. ~DisputeStep /\ ~CancellationStep /\ ~SlashStep /\ ~ClosingStep
      BY <2>1 DEF DisputeStep, RaiseDispute, RaiseMilestoneDispute, Disputing,
         ClaimDisputeTimeout, ResolveDispute, OracleResolveDispute, CancellationStep,
         RequestCancellation, ApproveCancellation, ExecuteCancellation,
         DisputeCancellation, SlashStep, FinalizeSlash, DisputeSlash, ResolveSlashDispute,
         ClosingStep, TriggerExpiry, CollectEscrowFee
    <2>5. CASE Tick \/ AdminStep \/ RentStep
      BY <2>5 DEF Tick, AdminStep, SetPaused, SetFrozen, RentStep, CollectRent, ExpireEscrow,
         TopUpRent, WithdrawRentOverpayment, escrowVars, money
    <2> QED BY <2>2, <2>3, <2>4, <2>5 DEF Next, MilestoneStep
  <1> QED BY <1>1, PTL DEF Spec, PauseHoldsFunds

(***************************************************************************)
(* The settlement of a dispute.                                            *)
(***************************************************************************)

(* Half of the balance, or any of the shares of the oracle, lies between *)
(* zero and the balance, on the same side of zero.                       *)
LEMMA Halves ==
  ASSUME NEW n \in Int, NEW h \in 0 .. 2
  PROVE  /\ n >= 0 => Quotient(n * h, 2) \in 0 .. n
         /\ n < 0 => Quotient(n * h, 2) \in n .. 0
  <1>1. h = 0 \/ h = 1 \/ h = 2
    OBVIOUS
  <1>2. n * 0 = 0 /\ n * 1 = n
    OBVIOUS
  <1> QED BY <1>1, <1>2 DEF Quotient

(* A split of the balance between zero and the balance pays it exactly. *)
LEMMA SplitExact ==
  ASSUME TypeOK, NEW c \in Int, Settle(c),
         (remaining >= 0 /\ c \in 0 .. remaining) \/ (remaining < 0 /\ c \in remaining .. 0)
  PROVE  Paying = Positive(remaining) + ArbiterFee
  <1>1. RentOwed \in Nat
    BY RentType
  <1>2. Positive(c) + Positive(remaining - c) = Positive(remaining)
    BY DEF TypeOK, Positive
  <1>3. /\ rent_balance' = rent_balance - RentOwed + 0
        /\ vault' = vault - RentOwed + 0
                      - (ArbiterFee + Positive(c) + Positive(remaining - c))
    BY DEF Settle, Books
  <1>4. Positive(c) \in Int /\ Positive(remaining - c) \in Int /\ Positive(remaining) \in Int
    BY DEF TypeOK, Positive
  <1> QED BY <1>1, <1>2, <1>3, <1>4, DisputeAssumption DEF Paying, TypeOK

(* With an arbiter who splits what there is, a settlement pays out the     *)
(* remaining balance, no more and no less, whatever the timeout and the    *)
(* oracle's share; an arbiter who does not may pay more.                   *)
THEOREM SettlementPays ==
  ASSUME FairArbiter
  PROVE  Spec => SettlementExact
  <1>1. ASSUME TypeOK, [Next]_vars
        PROVE  [status = "Disputed" /\ status' = "Completed" /\ ms' = ms =>
                  Paying = Positive(remaining) + ArbiterFee]_vars
    <2> SUFFICES ASSUME Next, status = "Disputed", status' = "Completed", ms' = ms
                 PROVE  Paying = Positive(remaining) + ArbiterFee
      BY <1>1
    <2>1. ms \in [MilestoneIds -> Milestone] /\ remaining \in Int
      BY <1>1 DEF TypeOK
    <2>2. ~FundingStep /\ ~LockStep /\ ~RefundStep
      BY DEF FundingStep, CreateEscrow, AddMilestone, BatchAddMilestones, AddMilestones,
         CreatePriceIndexedMilestone, LockStep, StartTimelock, ExtendLockTime, SetTimelock,
         RefundStep, SwapAssetViaDex, PartialCancel, CancelEscrow
    <2>3. ~ReviewStep
      BY DEF ReviewStep, SubmitMilestone, RejectMilestone, RejectMilestoneWithReason, Reject,
         ApproveMilestone, BatchApproveMilestones
    <2>4. ~ReleaseStep
      <3>1. ASSUME NEW ids \in Batches, BatchReleaseFunds(ids)
            PROVE  FALSE
        <4>1. ids[1] \in MilestoneIds /\ ids[1] \in IdsOf(ids)
          BY BatchType DEF IdsOf
        <4> QED BY <2>1, <3>1, <4>1 DEF BatchReleaseFunds, Milestone
      <3>2. ASSUME NEW m \in MilestoneIds, NEW c, ReleaseFunds(m, c)
            PROVE  FALSE
        BY <2>1, <3>2 DEF ReleaseFunds, PayMilestone, Setting, Milestone
      <3> QED BY <3>1, <3>2 DEF ReleaseStep, ReleaseWithTimelock, TriggerOracleRelease
    <2>5. ~CancellationStep /\ ~SlashStep
      BY DEF CancellationStep, RequestCancellation, ApproveCancellation, ExecuteCancellation,
         DisputeCancellation, SlashStep, FinalizeSlash, DisputeSlash, ResolveSlashDispute
    <2>6. ~AdminStep /\ ~RentStep /\ ~ClosingStep /\ ~Tick
      BY DEF AdminStep, SetPaused, SetFrozen, RentStep, CollectRent, ExpireEscrow, TopUpRent,
         WithdrawRentOverpayment, ClosingStep, TriggerExpiry, CollectEscrowFee, Tick,
         escrowVars
    <2>7. CASE RaiseDispute \/ \E m \in MilestoneIds : RaiseMilestoneDispute(m)
      BY <2>7 DEF RaiseDispute, RaiseMilestoneDispute, Disputing
    <2>8. CASE ClaimDisputeTimeout
      <3>1. remaining * 1 = remaining
        BY <2>1
      <3>2. /\ remaining >= 0 => Quotient(remaining, 2) \in 0 .. remaining
            /\ remaining < 0 => Quotient(remaining, 2) \in remaining .. 0
        BY <2>1, <3>1, Halves, 1 \in 0 .. 2
      <3>3. Quotient(remaining, 2) \in Int
        BY <2>1, QuotientType
      <3> QED BY <1>1, <2>1, <2>8, <3>2, <3>3, SplitExact DEF ClaimDisputeTimeout
    <2>9. ASSUME NEW award \in Awards, award \in 0 .. remaining, ResolveDispute(award)
          PROVE  Paying = Positive(remaining) + ArbiterFee
      <3>1. award \in Int /\ remaining >= 0
        BY <2>1, <2>9
      <3> QED BY <1>1, <2>9, <3>1, SplitExact DEF ResolveDispute
    <2>10. ASSUME NEW h \in 0 .. 2, OracleResolveDispute(h)
           PROVE  Paying = Positive(remaining) + ArbiterFee
      <3>1. /\ remaining >= 0 => Quotient(remaining * h, 2) \in 0 .. remaining
            /\ remaining < 0 => Quotient(remaining * h, 2) \in remaining .. 0
        BY <2>1, Halves
      <3>2. Quotient(remaining * h, 2) \in Int
        <4>1. remaining * h \in Int
          BY <2>1
        <4> QED BY <4>1, QuotientType
      <3> QED BY <1>1, <2>1, <2>10, <3>1, <3>2, SplitExact DEF OracleResolveDispute
    <2> QED BY <1>1, <2>2, <2>3, <2>4, <2>5, <2>6, <2>7, <2>8, <2>9, <2>10
        DEF Next, MilestoneStep, DisputeStep
  <1>2. Spec => []TypeOK
    BY TypeCorrect
  <1> QED BY <1>1, <1>2, PTL DEF Spec, SettlementExact

-------------------------------------------------------------------------------
(***************************************************************************)
(* The books and the milestones.  Where a batch could name a milestone     *)
(* twice they part, so the theorems assume DistinctIds.                    *)
(***************************************************************************)

Done == {"Approved", "Released"}

(* The milestones that a step brings into one of some statuses, or out. *)
Entering(S) == {m \in MilestoneIds : ms[m].status \notin S /\ ms'[m].status \in S}
Leaving(S)  == {m \in MilestoneIds : ms[m].status \in S /\ ms'[m].status \notin S}

(***************************************************************************)
(* The inductive invariant.                                                *)
(***************************************************************************)

(* Milestones are numbered from zero, and there is nothing where there is *)
(* no milestone.                                                          *)
Numbered ==
  /\ status # "Removed" =>
       \A m \in MilestoneIds : ms[m].status # "None" <=> m < milestone_count
  /\ \A m \in MilestoneIds : ms[m].status = "None" => ms[m] = NoMilestone
  /\ status = "None" => milestone_count = 0

Counted ==
  status # "Removed" =>
    /\ approved_count = Cardinality(With(Done))
    /\ released_count = Cardinality(With({"Released"}))
    /\ submitted_count >= Cardinality(With({"Submitted"}))

Allocated ==
  status # "Removed" => allocated = SumTo(IdBound, Amount) /\ allocated <= total

(* What a milestone paid is known while the escrow is open, and after that as *)
(* long as a cancellation is requested, which may open it again as disputed.  *)
(* cancel_escrow pays without releasing, but not while one is requested.      *)
PaidWhileOpen ==
  /\ Open \/ Requested \/ status = "None" =>
       \A m \in MilestoneIds :
         paid[m] = IF ms[m].status = "Released" THEN ms[m].amount ELSE 0
  /\ Requested => Stored /\ status # "Active"

BooksInv == TypeOK /\ Numbered /\ Counted /\ Allocated /\ PaidWhileOpen

(***************************************************************************)
(* Counting milestones.                                                    *)
(***************************************************************************)

(* Sets of milestones are finite. *)
LEMMA IdsFinite ==
  ASSUME NEW S \in SUBSET MilestoneIds
  PROVE  IsFiniteSet(S) /\ Cardinality(S) \in Nat
  <1>1. IsFiniteSet(MilestoneIds)
    BY BoundsAssumption, FS_Interval DEF MilestoneIds
  <1>2. IsFiniteSet(S)
    BY <1>1, FS_Subset
  <1> QED BY <1>2, FS_CardinalityType

(* As many milestones have a status as before, and those that the step brought *)
(* in, less those that it brought out.                                         *)
LEMMA WithChange ==
  ASSUME NEW S
  PROVE  Cardinality(With(S)') =
           Cardinality(With(S)) + Cardinality(Entering(S)) - Cardinality(Leaving(S))
  <1> DEFINE Kept == With(S) \ Leaving(S)
  <1>1. With(S) \in SUBSET MilestoneIds /\ Entering(S) \in SUBSET MilestoneIds
        /\ Leaving(S) \in SUBSET MilestoneIds /\ Kept \in SUBSET MilestoneIds
    BY DEF With, Entering, Leaving
  <1>2. With(S)' = Kept \cup Entering(S)
    BY DEF With, Entering, Leaving
  <1>3. Kept \cap Entering(S) = {} /\ With(S) \cap Leaving(S) = Leaving(S)
    BY DEF With, Entering, Leaving
  <1>4. Cardinality(Kept) = Cardinality(With(S)) - Cardinality(Leaving(S))
    BY <1>1, <1>3, IdsFinite, FS_Difference
  <1>5. Cardinality(Kept \cup Entering(S)) = Cardinality(Kept) + Cardinality(Entering(S))
    <2>1. Cardinality(Kept \cap Entering(S)) = 0
      BY <1>3, FS_EmptySet
    <2>2. /\ IsFiniteSet(Kept) /\ Cardinality(Kept) \in Nat
          /\ IsFiniteSet(Entering(S)) /\ Cardinality(Entering(S)) \in Nat
      BY <1>1, IdsFinite
    <2>3. Cardinality(Kept \cup Entering(S)) =
            Cardinality(Kept) + Cardinality(Entering(S)) - Cardinality(Kept \cap Entering(S))
      BY <2>2, FS_Union
    <2> HIDE DEF Kept
    <2> QED BY <2>1, <2>2, <2>3
  <1> HIDE DEF Kept
  <1> QED BY <1>1, <1>2, <1>4, <1>5, IdsFinite

(* A set that holds one element at most. *)
LEMMA AtMostOne ==
  ASSUME NEW S, NEW x, \A y \in S : y = x
  PROVE  Cardinality(S) = IF x \in S THEN 1 ELSE 0
  <1>1. CASE x \in S
    <2>1. S = {x}
      BY <1>1
    <2> QED BY <1>1, <2>1, FS_Singleton
  <1>2. CASE x \notin S
    <2>1. S = {}
      BY <1>2
    <2> QED BY <1>2, <2>1, FS_EmptySet
  <1> QED BY <1>1, <1>2

(* A step that touches one milestone brings in or out that one or none. *)
LEMMA OneMoves ==
  ASSUME NEW m \in MilestoneIds, NEW S,
         \A k \in MilestoneIds : k # m => ms'[k].status = ms[k].status
  PROVE  /\ Cardinality(Entering(S)) =
              IF ms[m].status \notin S /\ ms'[m].status \in S THEN 1 ELSE 0
         /\ Cardinality(Leaving(S)) =
              IF ms[m].status \in S /\ ms'[m].status \notin S THEN 1 ELSE 0
  <1>1. \A y \in Entering(S) : y = m
    BY DEF Entering
  <1>2. \A y \in Leaving(S) : y = m
    BY DEF Leaving
  <1>3. /\ Cardinality(Entering(S)) = IF m \in Entering(S) THEN 1 ELSE 0
        /\ Cardinality(Leaving(S)) = IF m \in Leaving(S) THEN 1 ELSE 0
    BY <1>1, <1>2, AtMostOne
  <1> QED BY <1>3 DEF Entering, Leaving

(***************************************************************************)
(* Every entry point that moves milestones counts and pays what it moves.  *)
(***************************************************************************)

Advance ==
  /\ Stored /\ Stored'
  /\ UNCHANGED <<total, allocated, milestone_count, request>>
  /\ \A m \in MilestoneIds :
       /\ ms'[m].amount = ms[m].amount
       /\ ms'[m].status = "None" <=> ms[m].status = "None"
       /\ ms[m].status = "None" => ms'[m] = ms[m]
       /\ ms[m].status = "Released" => ms'[m].status = "Released"
       /\ ms[m].status \in Done => ms'[m].status \in Done
  /\ approved_count' = approved_count + Cardinality(Entering(Done))
  /\ released_count' = released_count + Cardinality(Entering({"Released"}))
  /\ submitted_count' >= submitted_count + Cardinality(Entering({"Submitted"}))
                                        - Cardinality(Leaving({"Submitted"}))
  /\ \A m \in MilestoneIds :
       paid'[m] = paid[m] + (IF m \in Entering({"Released"}) THEN ms[m].amount ELSE 0)
  /\ Open' => Open
  /\ status' = "Active" => status = "Active"

(* One milestone moves: what the entry point does to the counters and the *)
(* payments follows from where the milestone comes from and goes to.      *)
Moves(m) ==
  /\ Stored /\ Stored' /\ (Open' => Open) /\ (status' = "Active" => status = "Active")
  /\ UNCHANGED <<total, allocated, milestone_count, request>>
  /\ \A k \in MilestoneIds : k # m => ms'[k] = ms[k] /\ paid'[k] = paid[k]
  /\ ms'[m].amount = ms[m].amount
  /\ ms[m].status \notin {"None", "Released"} /\ ms'[m].status # "None"
  /\ ms[m].status \in Done => ms'[m].status \in Done
  /\ approved_count' = approved_count +
       (IF ms[m].status \notin Done /\ ms'[m].status \in Done THEN 1 ELSE 0)
  /\ released_count' = released_count + (IF ms'[m].status = "Released" THEN 1 ELSE 0)
  /\ submitted_count' >= submitted_count
       + (IF ms[m].status # "Submitted" /\ ms'[m].status = "Submitted" THEN 1 ELSE 0)
       - (IF ms[m].status = "Submitted" /\ ms'[m].status # "Submitted" THEN 1 ELSE 0)
  /\ paid'[m] = paid[m] + (IF ms'[m].status = "Released" THEN ms[m].amount ELSE 0)

LEMMA MovesAdvance ==
  ASSUME TypeOK, NEW m \in MilestoneIds, Moves(m)
  PROVE  Advance
  <1>1. \A k \in MilestoneIds : k # m => ms'[k].status = ms[k].status
    BY DEF Moves
  <1>2. approved_count' = approved_count + Cardinality(Entering(Done))
    BY <1>1, OneMoves DEF Moves
  <1>3. released_count' = released_count + Cardinality(Entering({"Released"}))
    BY <1>1, OneMoves DEF Moves
  <1>4. submitted_count' >= submitted_count + Cardinality(Entering({"Submitted"}))
                                            - Cardinality(Leaving({"Submitted"}))
    <2>1. /\ Cardinality(Entering({"Submitted"})) =
               IF ms[m].status # "Submitted" /\ ms'[m].status = "Submitted" THEN 1 ELSE 0
          /\ Cardinality(Leaving({"Submitted"})) =
               IF ms[m].status = "Submitted" /\ ms'[m].status # "Submitted" THEN 1 ELSE 0
      BY <1>1, OneMoves
    <2> QED BY <2>1 DEF Moves
  <1>5. \A k \in MilestoneIds :
          paid'[k] = paid[k] + (IF k \in Entering({"Released"}) THEN ms[k].amount ELSE 0)
    BY DEF Moves, Entering, TypeOK
  <1>6. \A k \in MilestoneIds :
          /\ ms'[k].amount = ms[k].amount
          /\ ms'[k].status = "None" <=> ms[k].status = "None"
          /\ ms[k].status = "None" => ms'[k] = ms[k]
          /\ ms[k].status = "Released" => ms'[k].status = "Released"
          /\ ms[k].status \in Done => ms'[k].status \in Done
    BY DEF Moves
  <1> QED BY <1>2, <1>3, <1>4, <1>5, <1>6 DEF Advance, Moves

(* A milestone given another status. *)
LEMMA SettingMoves ==
  ASSUME TypeOK, NEW m \in MilestoneIds, NEW st, ms' = Setting(m, st)
  PROVE  /\ ms'[m].status = st /\ ms'[m].amount = ms[m].amount
         /\ ms'[m].approvals = ms[m].approvals /\ ms'[m].priced = ms[m].priced
         /\ \A k \in MilestoneIds : k # m => ms'[k] = ms[k]
  BY DEF TypeOK, Setting, Milestone

(* Handing in, rejecting and disputing a milestone. *)
LEMMA ReviewMoves ==
  ASSUME TypeOK, NEW m \in MilestoneIds,
         SubmitMilestone(m) \/ Reject(m) \/ RaiseMilestoneDispute(m), Stored
  PROVE  Moves(m)
  <1>1. /\ submitted_count \in Nat /\ approved_count \in Nat /\ released_count \in Nat
        /\ paid[m] \in Nat
    BY DEF TypeOK
  <1>2. CASE SubmitMilestone(m)
    <2>1. /\ status' = status /\ ms[m].status \in {"Pending", "Rejected"}
          /\ UNCHANGED <<total, allocated, milestone_count, approved_count, released_count,
                         request, paid>>
          /\ submitted_count' = submitted_count + 1
          /\ ms' = Setting(m, "Submitted")
      BY <1>2 DEF SubmitMilestone, money, records
    <2> QED BY <1>1, <2>1, SettingMoves DEF Moves, Done, Stored, Open
  <1>3. CASE Reject(m)
    <2>1. /\ status' = status /\ ms[m].status = "Submitted"
          /\ UNCHANGED <<total, allocated, milestone_count, approved_count, released_count,
                         request, paid>>
          /\ submitted_count' = Positive(submitted_count - 1)
          /\ ms' = Setting(m, "Rejected")
      BY <1>3 DEF Reject, money, records
    <2> QED BY <1>1, <2>1, SettingMoves DEF Moves, Done, Stored, Open, Positive
  <1>4. CASE RaiseMilestoneDispute(m)
    <2>1. /\ status = "Active" /\ status' = "Disputed"
          /\ ms[m].status \in {"Pending", "Submitted"}
          /\ UNCHANGED <<total, allocated, milestone_count, approved_count, released_count,
                         request, paid>>
          /\ submitted_count' = IF ms[m].status = "Submitted"
                                THEN Positive(submitted_count - 1) ELSE submitted_count
          /\ ms' = Setting(m, "Disputed")
      BY <1>4 DEF RaiseMilestoneDispute, Disputing, money, records
    <2> QED BY <1>1, <2>1, SettingMoves DEF Moves, Done, Stored, Statuses, Open, Positive
  <1> QED BY <1>2, <1>3, <1>4

(* Approving one, which may release it at once. *)
LEMMA ApproveMoves ==
  ASSUME TypeOK, NEW m \in MilestoneIds, NEW s \in Approvers, ApproveMilestone(m, s)
  PROVE  Moves(m)
  <1> DEFINE enough == AccruedWeight(Signatures(m, s, 1)) >= Threshold
             pays   == enough /\ TimelockOver
             due    == IF pays THEN ms[m].amount ELSE 0
             new    == IF pays THEN "Released" ELSE IF enough THEN "Approved" ELSE "Submitted"
  <1>1. /\ submitted_count \in Nat /\ approved_count \in Nat /\ released_count \in Nat
        /\ paid \in [MilestoneIds -> Nat] /\ ms[m].amount \in Nat
    BY DEF TypeOK, Milestone
  <1>2. /\ status = "Active" /\ status' \in {"Active", "Completed"}
        /\ ms[m].status = "Submitted"
        /\ UNCHANGED <<total, allocated, milestone_count, submitted_count, request>>
    BY DEF ApproveMilestone, CompleteIf, records
  <1>3. /\ ms'[m].status = new /\ ms'[m].amount = ms[m].amount
        /\ \A k \in MilestoneIds : k # m => ms'[k] = ms[k]
    BY DEF ApproveMilestone, TypeOK, Milestone
  <1>4. /\ approved_count' = approved_count + (IF enough THEN 1 ELSE 0)
        /\ released_count' = released_count + (IF pays THEN 1 ELSE 0)
        /\ paid' = [paid EXCEPT ![m] = @ + due]
    BY DEF ApproveMilestone
  <1> HIDE DEF enough
  <1> QED BY <1>1, <1>2, <1>3, <1>4 DEF Moves, Done, Stored, Statuses, Open

(* Paying an approved one. *)
LEMMA PayMoves ==
  ASSUME TypeOK, NEW m \in MilestoneIds, NEW done, PayMilestone(m, done), Stored
  PROVE  Moves(m)
  <1>1. /\ submitted_count \in Nat /\ approved_count \in Nat /\ released_count \in Nat
        /\ paid \in [MilestoneIds -> Nat] /\ ms[m].amount \in Nat
    BY DEF TypeOK, Milestone
  <1>2. /\ status' \in {status, "Completed"} /\ ms[m].status = "Approved"
        /\ ms' = Setting(m, "Released")
        /\ UNCHANGED <<total, allocated, milestone_count, approved_count, submitted_count,
                       request>>
        /\ released_count' = released_count + 1
        /\ paid' = [paid EXCEPT ![m] = @ + ms[m].amount]
    BY DEF PayMilestone, CompleteIf, records
  <1> QED BY <1>1, <1>2, SettingMoves DEF Moves, Done, Stored, Statuses, Open

(* The price oracle approves and releases at once. *)
LEMMA OracleMoves ==
  ASSUME TypeOK, NEW m \in MilestoneIds, TriggerOracleRelease(m)
  PROVE  Moves(m)
  <1>1. /\ submitted_count \in Nat /\ approved_count \in Nat /\ released_count \in Nat
        /\ paid \in [MilestoneIds -> Nat] /\ ms[m].amount \in Nat
    BY DEF TypeOK, Milestone
  <1>2. /\ status = "Active" /\ status' \in {"Active", "Completed"}
        /\ ms[m].status = "Pending" /\ ms' = Setting(m, "Released")
        /\ UNCHANGED <<total, allocated, milestone_count, submitted_count, request>>
        /\ approved_count' = approved_count + 1
        /\ released_count' = released_count + 1
        /\ paid' = [paid EXCEPT ![m] = @ + ms[m].amount]
    BY DEF TriggerOracleRelease, CompleteIf, records
  <1> QED BY <1>1, <1>2, SettingMoves DEF Moves, Done, Stored, Statuses, Open

(***************************************************************************)
(* Batches that name no milestone twice.                                   *)
(***************************************************************************)

(* A batch has one id, or two that differ. *)
LEMMA BatchLength ==
  ASSUME DistinctIds, NEW ids \in Batches
  PROVE  Len(ids) = 1 \/ (Len(ids) = 2 /\ ids[1] # ids[2])
  <1>1. Len(ids) \in {1, 2}
    BY BatchType
  <1>2. Len(ids) = 2 => ids[1] # ids[2]
    BY DEF DistinctIds
  <1> QED BY <1>1, <1>2

(* What a batch of one or two different ids holds. *)
LEMMA BatchIds ==
  ASSUME DistinctIds, NEW ids \in Batches
  PROVE  /\ IdsOf(ids) \in SUBSET MilestoneIds
         /\ ids[1] \in IdsOf(ids)
         /\ \/ Len(ids) = 1 /\ IdsOf(ids) = {ids[1]}
            \/ Len(ids) = 2 /\ IdsOf(ids) = {ids[1], ids[2]} /\ ids[1] # ids[2]
  <1>1. Len(ids) = 1 \/ (Len(ids) = 2 /\ ids[1] # ids[2])
    BY BatchLength
  <1>2. CASE Len(ids) = 1
    <2>1. 1 .. Len(ids) = {1}
      BY <1>2
    <2>2. IdsOf(ids) = {ids[1]}
      BY <2>1 DEF IdsOf
    <2> QED BY <1>2, <2>1, <2>2, BatchType
  <1>3. CASE Len(ids) = 2 /\ ids[1] # ids[2]
    <2>1. 1 .. Len(ids) = {1, 2}
      BY <1>3
    <2>2. IdsOf(ids) = {ids[1], ids[2]}
      BY <2>1 DEF IdsOf
    <2> QED BY <1>3, <2>1, <2>2, BatchType
  <1> QED BY <1>1, <1>2, <1>3

(* Each id of the batch occurs once, ... *)
LEMMA OccursOnce ==
  ASSUME DistinctIds, NEW ids \in Batches, NEW m \in IdsOf(ids)
  PROVE  Occurrences(ids, m) = 1
  <1> DEFINE S == {i \in 1 .. Len(ids) : ids[i] = m}
  <1>1. PICK i \in 1 .. Len(ids) : ids[i] = m
    BY DEF IdsOf
  <1>2. Len(ids) = 1 \/ (Len(ids) = 2 /\ ids[1] # ids[2])
    BY BatchLength
  <1>3. i \in S /\ \A j \in S : j = i
    <2>1. CASE Len(ids) = 1
      BY <1>1, <2>1
    <2>2. CASE Len(ids) = 2 /\ ids[1] # ids[2]
      <3>1. \A j \in 1 .. Len(ids) : j = 1 \/ j = 2
        BY <2>2
      <3> QED BY <1>1, <2>2, <3>1
    <2> QED BY <1>2, <2>1, <2>2
  <1> HIDE DEF S
  <1>4. Cardinality(S) = 1
    BY <1>3, AtMostOne
  <1> QED BY <1>4 DEF Occurrences, S

Reaches(m, s) == AccruedWeight(Signatures(m, s, 1)) >= Threshold

(* ... so that it passes once or not at all. *)
LEMMA PassesOnce ==
  ASSUME DistinctIds, NEW ids \in Batches, NEW m \in IdsOf(ids), NEW s
  PROVE  Passes(ids, m, s) = IF Reaches(m, s) THEN 1 ELSE 0
  <1> DEFINE S == {n \in 1 .. 1 : AccruedWeight(Signatures(m, s, n)) >= Threshold}
  <1>1. Passes(ids, m, s) = Cardinality(S)
    BY OccursOnce DEF Passes
  <1>2. /\ \A y \in S : y = 1
        /\ 1 \in S <=> Reaches(m, s)
    BY DEF Reaches
  <1> HIDE DEF S
  <1> QED BY <1>1, <1>2, AtMostOne

(* Counting the milestones of a batch that are in some set. *)
LEMMA BatchCount ==
  ASSUME DistinctIds, NEW ids \in Batches, NEW T \in SUBSET IdsOf(ids)
  PROVE  Cardinality(T) =
           (IF ids[1] \in T THEN 1 ELSE 0)
             + (IF Len(ids) = 2 /\ ids[2] # ids[1]
                THEN IF ids[2] \in T THEN 1 ELSE 0 ELSE 0)
  <1>1. CASE Len(ids) = 1 /\ IdsOf(ids) = {ids[1]}
    BY <1>1, AtMostOne
  <1>2. CASE Len(ids) = 2 /\ IdsOf(ids) = {ids[1], ids[2]} /\ ids[1] # ids[2]
    <2> DEFINE R == T \ {ids[1]}
    <2>1. IsFiniteSet(T) /\ Cardinality(T) \in Nat
      BY BatchIds, IdsFinite
    <2>2. Cardinality(R) = IF ids[1] \in T THEN Cardinality(T) - 1 ELSE Cardinality(T)
      BY <2>1, FS_RemoveElement
    <2>3. (\A y \in R : y = ids[2]) /\ (ids[2] \in R <=> ids[2] \in T)
      BY <1>2
    <2> HIDE DEF R
    <2>4. Cardinality(R) = IF ids[2] \in T THEN 1 ELSE 0
      BY <2>3, AtMostOne
    <2> QED BY <1>2, <2>1, <2>2, <2>4
  <1> QED BY <1>1, <1>2, BatchIds

(* A milestone given signatures and a status. *)
LEMMA SignedRecord ==
  ASSUME NEW r \in Milestone, NEW a, NEW st
  PROVE  LET new == [r EXCEPT !.approvals = a, !.status = st]
         IN  /\ new.status = st /\ new.approvals = a
             /\ new.amount = r.amount /\ new.priced = r.priced
  BY DEF Milestone

(* Approving a batch. *)
LEMMA BatchApproveAdvances ==
  ASSUME DistinctIds, TypeOK, NEW ids \in Batches, NEW s \in Approvers,
         BatchApproveMilestones(ids, s)
  PROVE  Advance
  <1> DEFINE B == IdsOf(ids)
             P == {m \in B : Reaches(m, s)}
             F == IF TimelockOver THEN P ELSE {}
             passes == [m \in MilestoneIds |-> Passes(ids, m, s)]
             first  == [m \in MilestoneIds |-> IF Reaches(m, s) THEN ms[m].amount ELSE 0]
             count  == passes[ids[1]]
                         + (IF Len(ids) = 2 /\ ids[2] # ids[1] THEN passes[ids[2]] ELSE 0)
             freed  == IF TimelockOver THEN count ELSE 0
  <1>1. /\ submitted_count \in Nat /\ approved_count \in Nat /\ released_count \in Nat
        /\ paid \in [MilestoneIds -> Nat] /\ ms \in [MilestoneIds -> Milestone]
        /\ \A m \in MilestoneIds : ms[m].amount \in Nat
    BY DEF TypeOK, Milestone
  <1>2. B \in SUBSET MilestoneIds /\ ids[1] \in B /\ (Len(ids) = 2 => ids[2] \in B)
    BY BatchIds
  <1>3. \A m \in B : ms[m].status = "Submitted"
    BY DEF BatchApproveMilestones
  <1>4. \A m \in B : passes[m] = IF m \in P THEN 1 ELSE 0
    BY <1>2, PassesOnce
  <1>5. Cardinality(P) = count /\ count \in Nat
    <2>1. P \in SUBSET B /\ P \in SUBSET MilestoneIds
      BY <1>2
    <2> HIDE DEF P, passes
    <2> QED BY <1>2, <1>4, <2>1, BatchCount, IdsFinite
  <1>6. Cardinality(F) = freed
    BY <1>5, FS_EmptySet
  <1>7. \A m \in B : /\ ms'[m].amount = ms[m].amount
                     /\ ms'[m].status = IF m \notin P THEN "Submitted"
                                        ELSE IF TimelockOver THEN "Released" ELSE "Approved"
    <2>1. ASSUME NEW m \in B
          PROVE  ms'[m] = [ms[m] EXCEPT
                             !.approvals = Signatures(m, s, Occurrences(ids, m)),
                             !.status = IF passes[m] = 0 THEN "Submitted"
                                        ELSE IF TimelockOver THEN "Released" ELSE "Approved"]
      BY <1>2 DEF BatchApproveMilestones
    <2>2. \A m \in B : ms[m] \in Milestone
      BY <1>1, <1>2
    <2>3. ASSUME NEW m \in B
          PROVE  /\ ms'[m].amount = ms[m].amount
                 /\ ms'[m].status = IF passes[m] = 0 THEN "Submitted"
                                    ELSE IF TimelockOver THEN "Released" ELSE "Approved"
      <3> DEFINE a  == Signatures(m, s, Occurrences(ids, m))
                 st == IF passes[m] = 0 THEN "Submitted"
                       ELSE IF TimelockOver THEN "Released" ELSE "Approved"
      <3>1. ms'[m] = [ms[m] EXCEPT !.approvals = a, !.status = st]
        BY <2>1
      <3> HIDE DEF a, st
      <3>2. ms'[m].amount = ms[m].amount /\ ms'[m].status = st
        BY <2>2, <3>1, SignedRecord
      <3> QED BY <3>2 DEF st
    <2> HIDE DEF B, P, passes
    <2> QED BY <1>4, <2>3
  <1>8. \A m \in MilestoneIds \ B : ms'[m] = ms[m]
    BY DEF BatchApproveMilestones
  <1>9. Entering(Done) = P
    BY <1>2, <1>3, <1>7, <1>8 DEF Entering, Done
  <1>10. Entering({"Released"}) = F
    BY <1>2, <1>3, <1>7, <1>8 DEF Entering
  <1>11. Entering({"Submitted"}) = {} /\ Leaving({"Submitted"}) = P
    BY <1>2, <1>3, <1>7, <1>8 DEF Entering, Leaving
  <1>12. /\ approved_count' = approved_count + count
         /\ released_count' = released_count + freed
         /\ submitted_count' = Positive(submitted_count - count)
    BY DEF BatchApproveMilestones, Reaches
  <1>13. \A m \in MilestoneIds :
           paid'[m] = paid[m] + (IF m \in F THEN ms[m].amount ELSE 0)
    <2>1. \A m \in MilestoneIds :
            paid'[m] = IF TimelockOver /\ m \in B
                       THEN paid[m] + Occurrences(ids, m) * first[m] ELSE paid[m]
      BY DEF BatchApproveMilestones, Reaches
    <2>2. \A m \in B : Occurrences(ids, m) * first[m] = IF m \in P THEN ms[m].amount ELSE 0
      <3>1. \A m \in B : Occurrences(ids, m) = 1
        BY OccursOnce
      <3>2. \A m \in B : first[m] = IF m \in P THEN ms[m].amount ELSE 0
        BY <1>2
      <3> HIDE DEF B, P, first
      <3> QED BY <1>1, <1>2, <3>1, <3>2
    <2>3. \A m \in F : m \in B /\ TimelockOver
      OBVIOUS
    <2>4. \A m \in B : TimelockOver => (m \in F <=> m \in P)
      OBVIOUS
    <2> HIDE DEF B, P, F, first
    <2> QED BY <1>1, <2>1, <2>2, <2>3, <2>4
  <1>14. /\ status = "Active" /\ status' \in {"Active", "Completed"}
         /\ UNCHANGED <<total, allocated, milestone_count, request>>
    BY DEF BatchApproveMilestones, CompleteIf, records
  <1>15. \A m \in MilestoneIds :
           /\ ms'[m].amount = ms[m].amount
           /\ ms'[m].status = "None" <=> ms[m].status = "None"
           /\ ms[m].status = "None" => ms'[m] = ms[m]
           /\ ms[m].status = "Released" => ms'[m].status = "Released"
           /\ ms[m].status \in Done => ms'[m].status \in Done
    BY <1>2, <1>3, <1>7, <1>8 DEF Done
  <1>16. /\ approved_count' = approved_count + Cardinality(Entering(Done))
         /\ released_count' = released_count + Cardinality(Entering({"Released"}))
         /\ submitted_count' >= submitted_count + Cardinality(Entering({"Submitted"}))
                                               - Cardinality(Leaving({"Submitted"}))
    <2>1. Cardinality({}) = 0
      BY FS_EmptySet
    <2> HIDE DEF P, F, count, freed
    <2>2. Positive(submitted_count - count) >= submitted_count + 0 - count
      BY <1>1, <1>5 DEF Positive
    <2> QED BY <1>5, <1>6, <1>9, <1>10, <1>11, <1>12, <2>1, <2>2
  <1>17. Stored /\ Stored' /\ (Open' => Open) /\ (status' = "Active" => status = "Active")
    BY <1>14 DEF Stored, Statuses, Open
  <1> HIDE DEF P, F, count, freed
  <1> QED BY <1>10, <1>13, <1>14, <1>15, <1>16, <1>17 DEF Advance

(* Releasing a batch. *)
LEMMA BatchReleaseAdvances ==
  ASSUME DistinctIds, TypeOK, NEW ids \in Batches, BatchReleaseFunds(ids)
  PROVE  Advance
  <1> DEFINE B == IdsOf(ids)
  <1>1. /\ submitted_count \in Nat /\ approved_count \in Nat /\ released_count \in Nat
        /\ paid \in [MilestoneIds -> Nat] /\ ms \in [MilestoneIds -> Milestone]
        /\ \A m \in MilestoneIds : ms[m].amount \in Nat
    BY DEF TypeOK, Milestone
  <1>2. B \in SUBSET MilestoneIds
    BY BatchIds
  <1>3. \A m \in B : ms[m].status = "Approved"
    BY DEF BatchReleaseFunds
  <1>4. Cardinality(B) = Len(ids)
    <2>1. /\ ids[1] \in B /\ (Len(ids) = 2 => ids[2] \in B)
          /\ Len(ids) = 1 \/ (Len(ids) = 2 /\ ids[1] # ids[2])
      BY BatchIds, BatchLength
    <2>2. IdsOf(ids) \in SUBSET IdsOf(ids)
      OBVIOUS
    <2>3. Cardinality(IdsOf(ids)) =
            (IF ids[1] \in B THEN 1 ELSE 0)
              + (IF Len(ids) = 2 /\ ids[2] # ids[1]
                 THEN IF ids[2] \in B THEN 1 ELSE 0 ELSE 0)
      BY <2>2, BatchCount
    <2> HIDE DEF B
    <2> QED BY <2>1, <2>3 DEF B
  <1>5. \A m \in B : ms'[m].amount = ms[m].amount /\ ms'[m].status = "Released"
    BY <1>1, <1>2 DEF BatchReleaseFunds, Milestone
  <1>6. \A m \in MilestoneIds \ B : ms'[m] = ms[m]
    BY DEF BatchReleaseFunds
  <1>7. /\ Entering(Done) = {} /\ Entering({"Released"}) = B
        /\ Entering({"Submitted"}) = {} /\ Leaving({"Submitted"}) = {}
    BY <1>2, <1>3, <1>5, <1>6 DEF Entering, Leaving, Done
  <1>8. \A m \in MilestoneIds : paid'[m] = paid[m] + (IF m \in B THEN ms[m].amount ELSE 0)
    <2>1. \A m \in MilestoneIds :
            paid'[m] = IF m \in B THEN paid[m] + Occurrences(ids, m) * ms[m].amount
                       ELSE paid[m]
      BY DEF BatchReleaseFunds
    <2>2. \A m \in B : Occurrences(ids, m) * ms[m].amount = ms[m].amount
      BY <1>1, <1>2, OccursOnce
    <2> HIDE DEF B
    <2> QED BY <1>1, <2>1, <2>2
  <1>9. /\ Stored /\ status' \in {status, "Completed"}
        /\ UNCHANGED <<total, allocated, milestone_count, approved_count, submitted_count,
                       request>>
        /\ released_count' = released_count + Len(ids)
    BY DEF BatchReleaseFunds, CompleteIf, records, Live, Accessible
  <1>10. \A m \in MilestoneIds :
           /\ ms'[m].amount = ms[m].amount
           /\ ms'[m].status = "None" <=> ms[m].status = "None"
           /\ ms[m].status = "None" => ms'[m] = ms[m]
           /\ ms[m].status = "Released" => ms'[m].status = "Released"
           /\ ms[m].status \in Done => ms'[m].status \in Done
    BY <1>2, <1>3, <1>5, <1>6 DEF Done
  <1>11. Stored' /\ (Open' => Open) /\ (status' = "Active" => status = "Active")
    BY <1>9 DEF Stored, Statuses, Open
  <1>12. /\ approved_count' = approved_count + Cardinality(Entering(Done))
         /\ released_count' = released_count + Cardinality(Entering({"Released"}))
         /\ submitted_count' >= submitted_count + Cardinality(Entering({"Submitted"}))
                                               - Cardinality(Leaving({"Submitted"}))
    <2>1. Cardinality({}) = 0
      BY FS_EmptySet
    <2>2. Len(ids) \in Nat
      BY BatchLength
    <2>3. /\ Cardinality(Entering(Done)) = 0
          /\ Cardinality(Entering({"Released"})) = Len(ids)
          /\ Cardinality(Entering({"Submitted"})) = 0
          /\ Cardinality(Leaving({"Submitted"})) = 0
      BY <1>4, <1>7, <2>1
    <2> QED BY <1>1, <1>9, <2>2, <2>3
  <1> HIDE DEF B
  <1> QED BY <1>7, <1>8, <1>9, <1>10, <1>11, <1>12 DEF Advance

(***************************************************************************)
(* The invariant is kept.                                                  *)
(***************************************************************************)

(* The amounts of the milestones, as a function. *)
LEMMA AmountType ==
  ASSUME TypeOK
  PROVE  /\ \A i \in 0 .. (IdBound - 1) : i \in MilestoneIds /\ Amount[i] = ms[i].amount
         /\ \A i \in 0 .. (IdBound - 1) : Amount[i] \in Nat
         /\ IdBound \in Nat
  BY BoundsAssumption DEF TypeOK, Milestone, Amount, MilestoneIds

(* Where the milestones move, the counters move along. *)
LEMMA AdvanceKeeps ==
  ASSUME BooksInv, TypeOK', Advance
  PROVE  BooksInv'
  <1>1. status \in Statuses /\ status' \in Statuses
    BY DEF Advance, Stored
  <1>2. Numbered'
    BY <1>1 DEF BooksInv, Numbered, Advance, Statuses
  <1>3. Counted'
    <2>1. Leaving(Done) = {} /\ Leaving({"Released"}) = {}
      BY DEF Advance, Leaving
    <2>2. Cardinality(Leaving(Done)) = 0 /\ Cardinality(Leaving({"Released"})) = 0
      BY <2>1, FS_EmptySet
    <2>3. /\ approved_count = Cardinality(With(Done))
          /\ released_count = Cardinality(With({"Released"}))
          /\ submitted_count >= Cardinality(With({"Submitted"}))
      BY <1>1 DEF BooksInv, Counted, Statuses
    <2>4. \A S : /\ Cardinality(With(S)) \in Nat
                 /\ Cardinality(Entering(S)) \in Nat /\ Cardinality(Leaving(S)) \in Nat
      <3>1. \A S : /\ With(S) \in SUBSET MilestoneIds
                   /\ Entering(S) \in SUBSET MilestoneIds
                   /\ Leaving(S) \in SUBSET MilestoneIds
        BY DEF With, Entering, Leaving
      <3> QED BY <3>1, IdsFinite
    <2>5. /\ approved_count' = Cardinality(With(Done)')
          /\ released_count' = Cardinality(With({"Released"})')
      BY <2>2, <2>3, <2>4, WithChange DEF Advance
    <2>6. submitted_count' >= Cardinality(With({"Submitted"})')
      <3>1. submitted_count \in Nat /\ submitted_count' \in Nat
        BY DEF BooksInv, TypeOK
      <3>2. Cardinality(With({"Submitted"})') =
              Cardinality(With({"Submitted"})) + Cardinality(Entering({"Submitted"}))
                - Cardinality(Leaving({"Submitted"}))
        BY WithChange
      <3> QED BY <2>3, <2>4, <3>1, <3>2 DEF Advance
    <2> QED BY <2>5, <2>6 DEF Counted
  <1>4. Allocated'
    <2>1. \A i \in 0 .. (IdBound - 1) : Amount[i] = Amount'[i]
      BY BoundsAssumption DEF Advance, Amount, MilestoneIds
    <2>2. SumTo(IdBound, Amount) = SumTo(IdBound, Amount')
      BY <2>1, AmountType, SumSame DEF BooksInv
    <2> QED BY <1>1, <2>2 DEF BooksInv, Allocated, Advance, Statuses
  <1>5. PaidWhileOpen'
    <2>1. Requested' = Requested
      BY DEF Requested, Advance
    <2>2. ASSUME Open' \/ Requested'
          PROVE  \A m \in MilestoneIds :
                   paid'[m] = IF ms'[m].status = "Released" THEN ms'[m].amount ELSE 0
      <3>1. \A m \in MilestoneIds :
              paid[m] = IF ms[m].status = "Released" THEN ms[m].amount ELSE 0
        BY <2>1, <2>2 DEF BooksInv, PaidWhileOpen, Advance
      <3>2. ASSUME NEW m \in MilestoneIds
            PROVE  paid'[m] = IF ms'[m].status = "Released" THEN ms'[m].amount ELSE 0
        <4>1. /\ paid'[m] = paid[m] + (IF m \in Entering({"Released"}) THEN ms[m].amount ELSE 0)
              /\ ms'[m].amount = ms[m].amount
              /\ ms[m].status = "Released" => ms'[m].status = "Released"
          BY DEF Advance
        <4>2. m \in Entering({"Released"}) <=>
                ms[m].status # "Released" /\ ms'[m].status = "Released"
          BY DEF Entering
        <4>3. ms[m].amount \in Nat
          BY DEF BooksInv, TypeOK, Milestone
        <4> QED BY <3>1, <4>1, <4>2, <4>3
      <3> QED BY <3>2
    <2> QED BY <1>1, <2>1, <2>2 DEF BooksInv, PaidWhileOpen, Advance, Stored, Statuses
  <1> QED BY <1>2, <1>3, <1>4, <1>5 DEF BooksInv

(* A step that leaves milestones, counters and payments alone. *)
Elsewhere ==
  /\ UNCHANGED <<total, allocated, counters, ms, paid>>
  /\ status' # status => /\ Stored /\ Stored' /\ status' # "Active"
                         /\ status = "Active" => status' # "Completed"
  /\ Open' \/ Requested' => Open \/ Requested
  /\ Requested' => Stored' /\ status' # "Active"

LEMMA ElsewhereKeeps ==
  ASSUME BooksInv, TypeOK', Elsewhere
  PROVE  BooksInv'
  <1>1. UNCHANGED <<ms, total, allocated, paid, milestone_count, approved_count,
                    released_count, submitted_count>>
    BY DEF Elsewhere, counters
  <1>0. /\ status' = "None" <=> status = "None"
        /\ status = "Removed" => status' = "Removed"
    BY DEF Elsewhere, Stored, Statuses
  <1>2. Numbered' /\ Counted'
    BY <1>0, <1>1 DEF BooksInv, Numbered, Counted, With
  <1>3. Allocated'
    BY <1>0, <1>1 DEF BooksInv, Allocated, Amount
  <1>4. PaidWhileOpen'
    BY <1>0, <1>1 DEF BooksInv, PaidWhileOpen, Elsewhere
  <1> QED BY <1>2, <1>3, <1>4 DEF BooksInv

(* A new escrow has no milestones. *)
LEMMA CreateKeeps ==
  ASSUME BooksInv, TypeOK', NEW amount \in Totals, NEW dl, NEW lt, NEW d,
         CreateEscrow(amount, dl, lt, d)
  PROVE  BooksInv'
  <1>1. /\ status = "None" /\ status' = "Active" /\ allocated' = 0 /\ total' = amount
        /\ UNCHANGED <<milestone_count, approved_count, released_count, submitted_count,
                       ms, request, paid>>
    BY DEF CreateEscrow, counters, records
  <1>2. ~Requested /\ Requested' = Requested
    BY <1>1 DEF BooksInv, PaidWhileOpen, Stored, Statuses, Requested
  <1>3. Numbered' /\ Counted'
    BY <1>1 DEF BooksInv, Numbered, Counted, With
  <1>4. Allocated'
    <2>1. \A m \in MilestoneIds : ms[m] = NoMilestone
      <3>1. \A m \in MilestoneIds : ~(m < milestone_count)
        BY <1>1, BoundsAssumption DEF BooksInv, Numbered, MilestoneIds
      <3> QED BY <1>1, <3>1 DEF BooksInv, Numbered
    <2>2. \A i \in 0 .. (IdBound - 1) : Amount'[i] = 0
      BY <1>1, <2>1 DEF Amount, MilestoneIds, NoMilestone
    <2>3. SumTo(IdBound, Amount') = 0
      BY <2>2, BoundsAssumption, SumZero
    <2>4. 0 <= total'
      BY <1>1, InputsAssumption
    <2> QED BY <1>1, <2>3, <2>4 DEF Allocated
  <1>5. PaidWhileOpen'
    BY <1>1, <1>2 DEF BooksInv, PaidWhileOpen
  <1> QED BY <1>3, <1>4, <1>5 DEF BooksInv

(* One new amount, or two that follow each other, change the sum of the amounts *)
(* by their difference.                                                         *)
LEMMA AmountChanges ==
  ASSUME NEW c, c \in 0 .. (IdBound - 1), IdBound \in Nat,
         \A i \in 0 .. (IdBound - 1) : Amount[i] \in Int /\ Amount'[i] \in Int,
         \A i \in 0 .. (IdBound - 1) : i # c => Amount[i] = Amount'[i]
  PROVE  SumTo(IdBound, Amount') = SumTo(IdBound, Amount) - Amount[c] + Amount'[c]
  BY SumChange

LEMMA AmountChangesPair ==
  ASSUME NEW c, c \in 0 .. (IdBound - 1), c + 1 < IdBound, IdBound \in Nat,
         \A i \in 0 .. (IdBound - 1) : Amount[i] \in Int /\ Amount'[i] \in Int,
         \A i \in 0 .. (IdBound - 1) : i # c /\ i # c + 1 => Amount[i] = Amount'[i]
  PROVE  SumTo(IdBound, Amount') =
           SumTo(IdBound, Amount) - Amount[c] - Amount[c + 1] + Amount'[c] + Amount'[c + 1]
  BY SumChangePair

(* New milestones take the next numbers, and their amounts are allocated. *)
Appends(n, new) ==
  /\ status = "Active" /\ UNCHANGED <<status, request, paid, total, approved_count,
                                     released_count, submitted_count>>
  /\ milestone_count + n <= IdBound /\ milestone_count' = milestone_count + n
  /\ ms' = [i \in MilestoneIds |->
              IF i \in milestone_count .. (milestone_count + n - 1)
              THEN new[i - milestone_count + 1] ELSE ms[i]]
  /\ allocated' = allocated + new[1].amount + (IF n = 2 THEN new[2].amount ELSE 0)
  /\ allocated' <= total

LEMMA AppendsKeeps ==
  ASSUME BooksInv, TypeOK', NEW n \in {1, 2}, NEW new, Appends(n, new),
         \A i \in 1 .. n : new[i].amount \in Nat /\ new[i].status = "Pending"
  PROVE  BooksInv'
  <1> DEFINE c == milestone_count
  <1>1. /\ c \in Nat /\ IdBound \in Nat /\ c + n <= IdBound
        /\ ms \in [MilestoneIds -> Milestone]
        /\ \A m \in MilestoneIds : m \in Int
    BY BoundsAssumption DEF BooksInv, TypeOK, Appends, MilestoneIds
  <1>2. \A m \in MilestoneIds :
          IF m \in c .. (c + n - 1)
          THEN ms'[m] = new[m - c + 1] /\ m - c + 1 \in 1 .. n
          ELSE ms'[m] = ms[m]
    BY <1>1 DEF Appends
  <1>3. \A m \in MilestoneIds : m \in c .. (c + n - 1) =>
          ms[m] = NoMilestone /\ ms'[m].status = "Pending"
    <2>1. \A m \in MilestoneIds : m \in c .. (c + n - 1) => ms[m] = NoMilestone
      BY <1>1 DEF BooksInv, Numbered, Appends
    <2> QED BY <1>2, <2>1
  <1> HIDE DEF c
  <1>4. status = "Active" /\ status' = "Active" /\ milestone_count' = c + n
    BY DEF Appends, c
  <1>5. Numbered'
    <2>1. \A m \in MilestoneIds : ms[m].status # "None" <=> m < c
      BY <1>4 DEF BooksInv, Numbered, c
    <2>2. \A m \in MilestoneIds : ms[m].status = "None" => ms[m] = NoMilestone
      BY DEF BooksInv, Numbered
    <2>3. \A m \in MilestoneIds : ms'[m].status # "None" <=> m < c + n
      <3>1. ASSUME NEW m \in MilestoneIds
            PROVE  ms'[m].status # "None" <=> m < c + n
        <4>1. CASE m \in c .. (c + n - 1)
          BY <1>1, <1>3, <4>1
        <4>2. CASE m \notin c .. (c + n - 1)
          <5>1. m < c + n <=> m < c
            BY <1>1, <4>2
          <5> QED BY <1>2, <2>1, <4>2, <5>1
        <4> QED BY <4>1, <4>2
      <3> QED BY <3>1
    <2>4. \A m \in MilestoneIds : ms'[m].status = "None" => ms'[m] = NoMilestone
      BY <1>2, <1>3, <2>2
    <2> QED BY <1>4, <2>3, <2>4 DEF Numbered
  <1>6. Counted'
    <2>1. \A S : "Pending" \notin S /\ "None" \notin S => With(S)' = With(S)
      BY <1>2, <1>3 DEF With, NoMilestone
    <2>2. With(Done)' = With(Done) /\ With({"Released"})' = With({"Released"})
          /\ With({"Submitted"})' = With({"Submitted"})
      BY <2>1 DEF Done
    <2> QED BY <1>4, <2>2 DEF BooksInv, Counted, Appends
  <1>7. Allocated'
    <2> DEFINE f == Amount
               g == Amount'
    <2>1. IdBound \in Nat /\ MilestoneIds = 0 .. (IdBound - 1)
      BY <1>1 DEF MilestoneIds
    <2>2. c \in 0 .. (IdBound - 1) /\ (n = 2 => c + 1 < IdBound /\ c + 1 \in 0 .. (IdBound - 1))
      BY <1>1
    <2>3. \A i \in 0 .. (IdBound - 1) : f[i] \in Int /\ g[i] \in Int
      <3>1. \A i \in 0 .. (IdBound - 1) : Amount[i] \in Int
        BY AmountType DEF BooksInv
      <3>2. ms' \in [MilestoneIds -> Milestone]
        BY DEF TypeOK
      <3>3. \A i \in 0 .. (IdBound - 1) : Amount'[i] \in Int
        BY <2>1, <3>2 DEF Milestone, Amount
      <3> QED BY <3>1, <3>3
    <2>4. \A i \in 0 .. (IdBound - 1) : f[i] = ms[i].amount /\ g[i] = ms'[i].amount
      BY <2>1 DEF Amount
    <2>5. f[c] = 0 /\ (n = 2 => f[c + 1] = 0)
      BY <1>1, <1>3, <2>1, <2>2, <2>4 DEF NoMilestone
    <2>6. g[c] = new[1].amount /\ (n = 2 => g[c + 1] = new[2].amount)
      BY <1>1, <1>2, <2>1, <2>2, <2>4
    <2>7. \A i \in 0 .. (IdBound - 1) : i # c /\ ~(n = 2 /\ i = c + 1) => f[i] = g[i]
      BY <1>1, <1>2, <2>1, <2>4
    <2>8. new[1].amount \in Nat /\ (n = 2 => new[2].amount \in Nat)
      OBVIOUS
    <2>9. SumTo(IdBound, f) = allocated /\ allocated \in Int
      BY <1>4 DEF BooksInv, Allocated, TypeOK
    <2> HIDE DEF f, g
    <2>10. CASE n = 1
      <3>2. \A i \in 0 .. (IdBound - 1) : i # c => f[i] = g[i]
        BY <2>7, <2>10
      <3>1. SumTo(IdBound, g) = SumTo(IdBound, f) - f[c] + g[c]
        BY <2>1, <2>2, <2>3, <3>2, AmountChanges DEF f, g
      <3> QED BY <2>5, <2>6, <2>8, <2>9, <2>10, <3>1 DEF Allocated, Appends, g
    <2>11. CASE n = 2
      <3>2. \A i \in 0 .. (IdBound - 1) : i # c /\ i # c + 1 => f[i] = g[i]
        BY <2>7, <2>11
      <3>1. SumTo(IdBound, g) = SumTo(IdBound, f) - f[c] - f[c + 1] + g[c] + g[c + 1]
        BY <2>1, <2>2, <2>3, <2>11, <3>2, AmountChangesPair DEF f, g
      <3> QED BY <2>5, <2>6, <2>8, <2>9, <2>11, <3>1 DEF Allocated, Appends, g
    <2> QED BY <2>10, <2>11
  <1>8. PaidWhileOpen'
    <2>1. \A m \in MilestoneIds :
            paid[m] = IF ms[m].status = "Released" THEN ms[m].amount ELSE 0
      BY <1>4 DEF BooksInv, PaidWhileOpen, Open
    <2>2. \A m \in MilestoneIds :
            paid'[m] = IF ms'[m].status = "Released" THEN ms'[m].amount ELSE 0
      BY <1>2, <1>3, <2>1 DEF Appends, NoMilestone
    <2>3. ~Requested'
      BY <1>4 DEF BooksInv, PaidWhileOpen, Appends, Requested
    <2> QED BY <2>2, <2>3 DEF PaidWhileOpen
  <1> QED BY <1>5, <1>6, <1>7, <1>8 DEF BooksInv

(* Every way to add milestones appends them. *)
LEMMA AddKeeps ==
  ASSUME BooksInv, TypeOK', FundingStep
  PROVE  BooksInv'
  <1>1. ASSUME NEW n \in {1, 2}, NEW amounts \in [1 .. n -> Amounts],
               Len(amounts) = n, AddMilestones(amounts)
        PROVE  BooksInv'
    <2> DEFINE new == [i \in 1 .. n |-> NewMilestone(amounts[i], FALSE)]
    <2>1. \A i \in 1 .. n : amounts[i] \in Nat
      BY <1>1, InputsAssumption
    <2>2. \A i \in 1 .. n : new[i].amount = amounts[i] /\ new[i].status = "Pending"
      BY DEF NewMilestone
    <2>3. 1 \in 1 .. n /\ (n = 2 => 2 \in 1 .. n)
      OBVIOUS
    <2>4. /\ status = "Active" /\ status' = status
          /\ UNCHANGED <<request, paid, total, approved_count, released_count,
                         submitted_count>>
          /\ milestone_count + n <= MaxMilestones /\ milestone_count' = milestone_count + n
          /\ allocated' = allocated + (amounts[1] + (IF n = 2 THEN amounts[2] ELSE 0))
          /\ allocated' <= total
      BY <1>1 DEF AddMilestones, records
    <2>5. milestone_count + n <= IdBound
      BY <2>4, BoundsAssumption DEF BooksInv, TypeOK
    <2>6. ms' = [i \in MilestoneIds |->
                   IF i \in milestone_count .. (milestone_count + n - 1)
                   THEN new[i - milestone_count + 1] ELSE ms[i]]
      <3>1. ASSUME NEW i \in MilestoneIds
            PROVE  ms'[i] = IF i \in milestone_count .. (milestone_count + n - 1)
                            THEN new[i - milestone_count + 1] ELSE ms[i]
        <4>1. i \in milestone_count .. (milestone_count + n - 1) =>
                i - milestone_count + 1 \in 1 .. n
          BY BoundsAssumption DEF BooksInv, TypeOK, MilestoneIds
        <4> QED BY <1>1, <4>1 DEF AddMilestones
      <3>2. ms' = [i \in MilestoneIds |-> ms'[i]]
        BY <1>1 DEF AddMilestones
      <3> HIDE DEF new
      <3> QED BY <3>1, <3>2
    <2>7. allocated' = allocated + new[1].amount + (IF n = 2 THEN new[2].amount ELSE 0)
      <3>1. allocated \in Nat
        BY DEF BooksInv, TypeOK
      <3> HIDE DEF new
      <3> QED BY <2>1, <2>2, <2>3, <2>4, <3>1
    <2> HIDE DEF new
    <2>8. Appends(n, new)
      BY <2>4, <2>5, <2>6, <2>7 DEF Appends
    <2> QED BY <2>1, <2>2, <2>8, AppendsKeeps
  <1>2. ASSUME NEW a \in Amounts, AddMilestone(a)
        PROVE  BooksInv'
    <2>1. <<a>> \in [1 .. 1 -> Amounts] /\ Len(<<a>>) = 1
      OBVIOUS
    <2> QED BY <1>1, <1>2, <2>1 DEF AddMilestone
  <1>3. ASSUME NEW a \in Amounts, NEW b \in Amounts, BatchAddMilestones(a, b)
        PROVE  BooksInv'
    <2>1. <<a, b>> \in [1 .. 2 -> Amounts] /\ Len(<<a, b>>) = 2
      OBVIOUS
    <2> QED BY <1>1, <1>3, <2>1 DEF BatchAddMilestones
  <1>4. ASSUME NEW a \in Amounts, CreatePriceIndexedMilestone(a)
        PROVE  BooksInv'
    <2> DEFINE new == [i \in 1 .. 1 |-> NewMilestone(a, TRUE)]
    <2>1. a \in Nat /\ milestone_count \in Nat /\ allocated \in Nat /\ IdBound \in Nat
      BY InputsAssumption, BoundsAssumption DEF BooksInv, TypeOK
    <2>2. new[1].amount = a /\ new[1].status = "Pending" /\ new[1] = NewMilestone(a, TRUE)
      BY DEF NewMilestone
    <2>3. /\ status = "Active" /\ status' = status
          /\ UNCHANGED <<request, paid, total, approved_count, released_count,
                         submitted_count>>
          /\ milestone_count + 1 <= IdBound /\ milestone_count' = milestone_count + 1
          /\ allocated' = allocated + a /\ allocated' <= total
      BY <1>4, <2>1 DEF CreatePriceIndexedMilestone, records
    <2>4. ms' = [i \in MilestoneIds |->
                   IF i \in milestone_count .. (milestone_count + 1 - 1)
                   THEN new[i - milestone_count + 1] ELSE ms[i]]
      <3>1. ms' = [ms EXCEPT ![milestone_count] = new[1]]
        BY <1>4, <2>2 DEF CreatePriceIndexedMilestone
      <3>2. \A i \in MilestoneIds :
              i \in milestone_count .. (milestone_count + 1 - 1) <=> i = milestone_count
        BY <2>1 DEF MilestoneIds
      <3>3. milestone_count - milestone_count + 1 = 1
        BY <2>1
      <3>4. ms \in [MilestoneIds -> Milestone]
        BY DEF BooksInv, TypeOK
      <3> HIDE DEF new
      <3> QED BY <3>1, <3>2, <3>3, <3>4
    <2> HIDE DEF new
    <2>5. allocated' = allocated + new[1].amount + (IF 1 = 2 THEN new[2].amount ELSE 0)
      BY <2>1, <2>2, <2>3
    <2>6. Appends(1, new)
      BY <2>3, <2>4, <2>5 DEF Appends
    <2>7. \A i \in 1 .. 1 : new[i].amount \in Nat /\ new[i].status = "Pending"
      <3>1. \A i \in 1 .. 1 : i = 1
        OBVIOUS
      <3> QED BY <2>1, <2>2, <3>1
    <2> QED BY <2>6, <2>7, AppendsKeeps
  <1> QED BY <1>2, <1>3, <1>4, CreateKeeps DEF FundingStep

(* cancel_escrow pays milestones that it does not release, and ends what is known *)
(* of the payments; the erasure leaves nothing to be known.                       *)
LEMMA CancelKeeps ==
  ASSUME BooksInv, TypeOK', CancelEscrow
  PROVE  BooksInv'
  <1>1. /\ status = "Active" /\ status' = "Cancelled"
        /\ UNCHANGED <<ms, total, allocated, milestone_count, approved_count,
                       released_count, submitted_count, request>>
    BY DEF CancelEscrow, counters
  <1>2. Numbered' /\ Counted'
    BY <1>1 DEF BooksInv, Numbered, Counted, With
  <1>3. Allocated'
    BY <1>1 DEF BooksInv, Allocated, Amount
  <1>4. PaidWhileOpen'
    BY <1>1 DEF BooksInv, PaidWhileOpen, Open, Requested
  <1> QED BY <1>2, <1>3, <1>4 DEF BooksInv

LEMMA ExpireKeeps ==
  ASSUME BooksInv, TypeOK', ExpireEscrow
  PROVE  BooksInv'
  <1>1. /\ status' = "Removed" /\ request' = NoRequest
        /\ ms' = [m \in MilestoneIds |-> NoMilestone]
    BY DEF ExpireEscrow
  <1> QED BY <1>1 DEF BooksInv, Numbered, Counted, Allocated, PaidWhileOpen, Open,
      Requested, NoRequest

(***************************************************************************)
(* Every step takes one of these forms.                                    *)
(***************************************************************************)

(* Steps that leave the status and the request alone as well. *)
LEMMA IdleElsewhere ==
  ASSUME BooksInv, UNCHANGED <<total, allocated, counters, ms, paid, status, request>>
  PROVE  Elsewhere
  BY DEF BooksInv, PaidWhileOpen, Elsewhere, Open, Requested, Stored

LEMMA IdleSteps ==
  ASSUME \/ LockStep \/ SlashStep \/ AdminStep \/ Tick \/ CollectEscrowFee \/ CollectRent
         \/ \E n \in TopUps : TopUpRent(n)
         \/ \E a \in Amounts : WithdrawRentOverpayment(a)
         \/ \E a \in Amounts : SwapAssetViaDex(a)
         \/ PartialCancel \/ UNCHANGED vars
  PROVE  UNCHANGED <<total, allocated, counters, ms, paid, status, request>>
  <1>1. CASE LockStep
    BY <1>1 DEF LockStep, StartTimelock, ExtendLockTime, SetTimelock, money, records
  <1>2. CASE SlashStep
    BY <1>2 DEF SlashStep, FinalizeSlash, DisputeSlash, ResolveSlashDispute, money
  <1>3. CASE AdminStep
    BY <1>3 DEF AdminStep, SetPaused, SetFrozen, escrowVars, money, records
  <1>4. CASE Tick \/ CollectEscrowFee \/ CollectRent
    BY <1>4 DEF Tick, CollectEscrowFee, CollectRent, escrowVars, money, records
  <1>5. ASSUME NEW n \in TopUps, TopUpRent(n)
        PROVE  UNCHANGED <<total, allocated, counters, ms, paid, status, request>>
    BY <1>5 DEF TopUpRent, escrowVars, money, records
  <1>6. ASSUME NEW a \in Amounts, WithdrawRentOverpayment(a) \/ SwapAssetViaDex(a)
        PROVE  UNCHANGED <<total, allocated, counters, ms, paid, status, request>>
    BY <1>6 DEF WithdrawRentOverpayment, SwapAssetViaDex, escrowVars, money, records
  <1>7. CASE PartialCancel \/ UNCHANGED vars
    BY <1>7 DEF PartialCancel, vars, money, records
  <1> QED BY <1>1, <1>2, <1>3, <1>4, <1>5, <1>6, <1>7

(* Disputes and cancellations of the whole escrow move no milestone. *)
LEMMA ConflictElsewhere ==
  ASSUME BooksInv,
         \/ RaiseDispute \/ ClaimDisputeTimeout
         \/ \E award \in Awards : ResolveDispute(award)
         \/ \E halves \in 0 .. 2 : OracleResolveDispute(halves)
         \/ CancellationStep \/ TriggerExpiry
  PROVE  Elsewhere
  <1>1. Requested => status \in Statuses /\ status # "Active"
    BY DEF BooksInv, PaidWhileOpen, Stored
  <1>2. CASE RaiseDispute
    BY <1>1, <1>2 DEF RaiseDispute, Disputing, Elsewhere, Requested, Open, Stored, Statuses,
       counters, money, records
  <1>3. ASSUME NEW a, Settle(a), status = "Disputed"
        PROVE  Elsewhere
    BY <1>1, <1>3 DEF Settle, Elsewhere, Requested, Open, Stored, Statuses, records
  <1>4. CASE ClaimDisputeTimeout \/ (\E award \in Awards : ResolveDispute(award))
             \/ (\E halves \in 0 .. 2 : OracleResolveDispute(halves))
    BY <1>3, <1>4 DEF ClaimDisputeTimeout, ResolveDispute, OracleResolveDispute
  <1>5. ASSUME NEW party \in Parties, RequestCancellation(party)
        PROVE  Elsewhere
    BY <1>1, <1>5 DEF RequestCancellation, Elsewhere, Open, Stored, Statuses, money
  <1>6. CASE ApproveCancellation
    BY <1>1, <1>6 DEF ApproveCancellation, Elsewhere, Stored, money
  <1>7. CASE ExecuteCancellation
    BY <1>1, <1>7 DEF ExecuteCancellation, Live, Accessible, Elsewhere, Open, Requested,
       NoRequest, Stored, Statuses
  <1>8. CASE DisputeCancellation
    BY <1>1, <1>8 DEF DisputeCancellation, Elsewhere, Stored, Statuses, money
  <1>9. CASE TriggerExpiry
    BY <1>1, <1>9 DEF TriggerExpiry, Elsewhere, Open, Requested, Stored, Statuses, records
  <1> QED BY <1>2, <1>4, <1>5, <1>6, <1>7, <1>8, <1>9 DEF CancellationStep

(* What moves milestones counts and pays what it moves. *)
WorkStep == ReviewStep \/ ReleaseStep \/ (\E m \in MilestoneIds : RaiseMilestoneDispute(m))

LEMMA WorkAdvances ==
  ASSUME DistinctIds, TypeOK, WorkStep
  PROVE  Advance
  <1>1. ASSUME NEW m \in MilestoneIds,
               \/ SubmitMilestone(m) \/ RejectMilestone(m) \/ RejectMilestoneWithReason(m)
               \/ RaiseMilestoneDispute(m)
        PROVE  Advance
    <2>1. Stored
      BY <1>1 DEF SubmitMilestone, RejectMilestone, RejectMilestoneWithReason,
         RaiseMilestoneDispute, Disputing, LiveUnfrozen, Live, Accessible
    <2>2. SubmitMilestone(m) \/ Reject(m) \/ RaiseMilestoneDispute(m)
      BY <1>1 DEF RejectMilestone, RejectMilestoneWithReason
    <2> QED BY <2>1, <2>2, ReviewMoves, MovesAdvance
  <1>2. ASSUME NEW m \in MilestoneIds, NEW s \in Approvers, ApproveMilestone(m, s)
        PROVE  Advance
    BY <1>2, ApproveMoves, MovesAdvance
  <1>3. ASSUME NEW ids \in Batches, NEW s \in Approvers, BatchApproveMilestones(ids, s)
        PROVE  Advance
    BY <1>3, BatchApproveAdvances
  <1>4. ASSUME NEW ids \in Batches, BatchReleaseFunds(ids)
        PROVE  Advance
    BY <1>4, BatchReleaseAdvances
  <1>5. ASSUME NEW m \in MilestoneIds,
               (\E c \in {"admin", "anyone"} : ReleaseFunds(m, c)) \/ ReleaseWithTimelock(m)
        PROVE  Advance
    <2>1. Stored /\ \E done : PayMilestone(m, done)
      BY <1>5 DEF ReleaseFunds, ReleaseWithTimelock, LiveUnfrozen, Live, Accessible
    <2> QED BY <2>1, PayMoves, MovesAdvance
  <1>6. ASSUME NEW m \in MilestoneIds, TriggerOracleRelease(m)
        PROVE  Advance
    BY <1>6, OracleMoves, MovesAdvance
  <1> QED BY <1>1, <1>2, <1>3, <1>4, <1>5, <1>6 DEF WorkStep, ReviewStep, ReleaseStep

(* A step funds, works on milestones, closes the books, or is elsewhere. *)
LEMMA StepForms ==
  ASSUME BooksInv, [Next]_vars
  PROVE  FundingStep \/ WorkStep \/ Elsewhere \/ CancelEscrow \/ ExpireEscrow
  <1>1. CASE FundingStep
    BY <1>1
  <1>2. CASE WorkStep
    BY <1>2
  <1>3. CASE \/ LockStep \/ SlashStep \/ AdminStep \/ Tick \/ CollectEscrowFee \/ CollectRent
             \/ \E n \in TopUps : TopUpRent(n)
             \/ \E a \in Amounts : WithdrawRentOverpayment(a)
             \/ \E a \in Amounts : SwapAssetViaDex(a)
             \/ PartialCancel \/ UNCHANGED vars
    BY <1>3, IdleSteps, IdleElsewhere
  <1>4. CASE \/ RaiseDispute \/ ClaimDisputeTimeout
             \/ \E award \in Awards : ResolveDispute(award)
             \/ \E halves \in 0 .. 2 : OracleResolveDispute(halves)
             \/ CancellationStep \/ TriggerExpiry
    BY <1>4, ConflictElsewhere
  <1>5. CASE CancelEscrow \/ ExpireEscrow
    BY <1>5
  <1> QED BY <1>1, <1>2, <1>3, <1>4, <1>5 DEF Next, MilestoneStep, RefundStep, DisputeStep,
      RentStep, ClosingStep, WorkStep

(***************************************************************************)
(* The books always agree with the milestones.                             *)
(***************************************************************************)
LEMMA InitBooks ==
  ASSUME Init
  PROVE  BooksInv
  <1>1. /\ status = "None" /\ milestone_count = 0 /\ allocated = 0 /\ total = 0
        /\ approved_count = 0 /\ released_count = 0 /\ submitted_count = 0
        /\ request = NoRequest
        /\ \A m \in MilestoneIds : ms[m] = NoMilestone /\ paid[m] = 0
    BY DEF Init
  <1>2. Numbered
    BY <1>1, BoundsAssumption DEF Numbered, NoMilestone, MilestoneIds
  <1>3. Counted
    <2>1. With(Done) = {} /\ With({"Released"}) = {} /\ With({"Submitted"}) = {}
      BY <1>1 DEF With, Done, NoMilestone
    <2>2. Cardinality({}) = 0
      BY FS_EmptySet
    <2> QED BY <1>1, <2>1, <2>2 DEF Counted
  <1>4. Allocated
    <2>1. \A i \in 0 .. (IdBound - 1) : Amount[i] = 0
      BY <1>1 DEF Amount, MilestoneIds, NoMilestone
    <2>2. SumTo(IdBound, Amount) = 0
      BY <2>1, BoundsAssumption, SumZero
    <2> QED BY <1>1, <2>2 DEF Allocated
  <1>5. PaidWhileOpen
    BY <1>1 DEF PaidWhileOpen, Requested, NoRequest, NoMilestone
  <1> QED BY <1>2, <1>3, <1>4, <1>5, InitTypes DEF BooksInv

LEMMA NextBooks ==
  ASSUME DistinctIds, BooksInv, [Next]_vars
  PROVE  BooksInv'
  <1>1. TypeOK'
    BY NextTypes DEF BooksInv
  <1>2. CASE WorkStep
    BY <1>1, <1>2, WorkAdvances, AdvanceKeeps DEF BooksInv
  <1> QED BY <1>1, <1>2, StepForms, AddKeeps, ElsewhereKeeps, CancelKeeps, ExpireKeeps

THEOREM BooksAgree ==
  ASSUME DistinctIds
  PROVE  Spec => []BooksInv
  BY InitBooks, NextBooks, PTL DEF Spec

(* The milestones there are make up the numbers below milestone_count. *)
LEMMA MilestonesNumbered ==
  ASSUME BooksInv, Stored
  PROVE  milestone_count = Cardinality(With(MilestoneStatuses))
  <1>1. milestone_count \in 0 .. IdBound /\ IdBound \in Nat
    BY BoundsAssumption DEF BooksInv, TypeOK
  <1>2. \A m \in MilestoneIds : ms[m].status \in MilestoneStatuses <=> m < milestone_count
    BY DEF BooksInv, TypeOK, Numbered, Milestone, MilestoneStatuses, Stored, Statuses
  <1>3. With(MilestoneStatuses) = 0 .. (milestone_count - 1)
    BY <1>1, <1>2 DEF With, MilestoneIds
  <1>4. Cardinality(0 .. (milestone_count - 1)) = milestone_count
    BY <1>1, FS_Interval
  <1> QED BY <1>3, <1>4

(* The counters of EscrowMeta and the allocation stand for a scan of the      *)
(* milestones, for every number of milestones, every policy and every batch   *)
(* that names none twice.                                                     *)
THEOREM CountersExact ==
  ASSUME DistinctIds
  PROVE  Spec => []CountersMatchMilestones
  <1>1. BooksInv => CountersMatchMilestones
    <2> SUFFICES ASSUME BooksInv, Stored
                 PROVE  CountersMatchMilestones
      BY DEF CountersMatchMilestones, AllocationFits
    <2>1. status # "Removed"
      BY DEF Stored, Statuses
    <2> QED BY <2>1, MilestonesNumbered
        DEF BooksInv, Counted, Allocated, CountersMatchMilestones, AllocationFits, Done
  <1> QED BY <1>1, BooksAgree, PTL

(* While the escrow is open each released milestone has paid its amount once, *)
(* and no other has paid anything.                                            *)
THEOREM PaidOnce ==
  ASSUME DistinctIds
  PROVE  Spec => []PaidAsReleased
  <1>1. BooksInv => PaidAsReleased
    BY DEF BooksInv, PaidWhileOpen, PaidAsReleased
  <1> QED BY <1>1, BooksAgree, PTL

(***************************************************************************)
(* The signatures of a milestone.                                          *)
(***************************************************************************)

(* No signer counts twice, and what is approved by review has enough of them. *)
Sealed(m) ==
  /\ Len(ms[m].approvals) = Cardinality(Signers(m))
  /\ ms[m].status \in Done =>
       ms[m].priced \/ AccruedWeight(ms[m].approvals) >= Threshold

(* What a step may do to the signatures of m: nothing, unless m is approved *)
(* for its price; clear them; or add one that is missing.                   *)
SealStep(m) ==
  \/ /\ ms'[m].approvals = ms[m].approvals /\ ms'[m].priced = ms[m].priced
     /\ ms'[m].status \in Done => ms[m].status \in Done \/ ms[m].priced
  \/ ms'[m].approvals = <<>> /\ ms'[m].status \notin Done
  \/ \E s \in Approvers :
       /\ ms'[m].approvals = Signatures(m, s, 1)
       /\ Threshold > 0 => ~HasSigned(m, s)
       /\ ms'[m].status \in Done => Reaches(m, s)

(* The signers are finitely many. *)
LEMMA SignersFinite ==
  ASSUME TypeOK, NEW m \in MilestoneIds
  PROVE  IsFiniteSet(Signers(m)) /\ Cardinality(Signers(m)) \in Nat
  <1> DEFINE a == ms[m].approvals
  <1>1. a \in Seq(Approvers)
    BY DEF TypeOK, Milestone
  <1>2. Len(a) \in Nat /\ a \in [1 .. Len(a) -> Signers(m)]
    BY <1>1 DEF Signers
  <1>3. a \in Surjection(1 .. Len(a), Signers(m))
    BY <1>2 DEF Surjection, Signers
  <1>4. IsFiniteSet(1 .. Len(a))
    BY <1>2, FS_Interval
  <1>5. IsFiniteSet(Signers(m))
    BY <1>3, <1>4, FS_Surjection
  <1> QED BY <1>5, FS_CardinalityType

(* One more signature is one more signer. *)
LEMMA OneMoreSigner ==
  ASSUME TypeOK, NEW m \in MilestoneIds, NEW s \in Approvers, Threshold > 0,
         ms'[m].approvals = Signatures(m, s, 1)
  PROVE  /\ Len(ms'[m].approvals) = Len(ms[m].approvals) + 1
         /\ Signers(m)' = Signers(m) \cup {s}
  <1> DEFINE a == ms[m].approvals
             b == ms'[m].approvals
  <1>1. a \in Seq(Approvers) /\ Len(a) \in Nat
    BY DEF TypeOK, Milestone
  <1>2. b = a \o [i \in 1 .. 1 |-> s] /\ [i \in 1 .. 1 |-> s] \in Seq(Approvers)
        /\ Len([i \in 1 .. 1 |-> s]) = 1
    BY PolicyAssumption DEF Signatures
  <1>3. Len(b) = Len(a) + 1 /\ b[Len(a) + 1] = s /\ \A i \in 1 .. Len(a) : b[i] = a[i]
    BY <1>1, <1>2
  <1>4. Signers(m)' = {b[i] : i \in 1 .. Len(b)} /\ Signers(m) = {a[i] : i \in 1 .. Len(a)}
    BY DEF Signers
  <1> HIDE DEF a, b
  <1>5. \A i \in 1 .. (Len(a) + 1) : i \in 1 .. Len(a) \/ i = Len(a) + 1
    BY <1>1
  <1>6. {b[i] : i \in 1 .. Len(b)} = {a[i] : i \in 1 .. Len(a)} \cup {s}
    BY <1>1, <1>3, <1>5
  <1> QED BY <1>3, <1>4, <1>6 DEF a, b

LEMMA SealKeeps ==
  ASSUME TypeOK, NEW m \in MilestoneIds, Sealed(m), SealStep(m)
  PROVE  Sealed(m)'
  <1>1. CASE ms'[m].approvals = ms[m].approvals
    <2>1. Signers(m)' = Signers(m)
      BY <1>1 DEF Signers
    <2>2. Len(ms'[m].approvals) = Cardinality(Signers(m)')
      BY <1>1, <2>1 DEF Sealed
    <2>3. CASE /\ ms'[m].priced = ms[m].priced
               /\ ms'[m].status \in Done => ms[m].status \in Done \/ ms[m].priced
      BY <1>1, <2>2, <2>3 DEF Sealed
    <2>4. CASE ms'[m].approvals = <<>> /\ ms'[m].status \notin Done
      BY <2>2, <2>4 DEF Sealed
    <2>5. CASE \E s \in Approvers : /\ ms'[m].approvals = Signatures(m, s, 1)
                                    /\ ms'[m].status \in Done => Reaches(m, s)
      BY <2>2, <2>5 DEF Sealed, Reaches
    <2> QED BY <2>3, <2>4, <2>5 DEF SealStep
  <1>2. CASE ms'[m].approvals = <<>> /\ ms'[m].status \notin Done
    <2>1. Signers(m)' = {}
      BY <1>2 DEF Signers
    <2>2. Cardinality({}) = 0 /\ Len(<<>>) = 0
      BY FS_EmptySet
    <2> QED BY <1>2, <2>1, <2>2 DEF Sealed
  <1>3. ASSUME NEW s \in Approvers, ms'[m].approvals # ms[m].approvals,
               ms'[m].approvals = Signatures(m, s, 1),
               Threshold > 0 => ~HasSigned(m, s),
               ms'[m].status \in Done => Reaches(m, s)
        PROVE  Sealed(m)'
    <2>1. Threshold > 0
      BY <1>3, PolicyAssumption DEF Signatures
    <2>2. s \notin Signers(m)
      BY <1>3, <2>1 DEF HasSigned, Signers
    <2>3. /\ Len(ms'[m].approvals) = Len(ms[m].approvals) + 1
          /\ Signers(m)' = Signers(m) \cup {s}
      BY <1>3, <2>1, OneMoreSigner
    <2>4. Cardinality(Signers(m)') = Cardinality(Signers(m)) + 1
      BY <2>2, <2>3, SignersFinite, FS_AddElement
    <2> QED BY <1>3, <2>3, <2>4 DEF Sealed, Reaches
  <1> QED BY <1>1, <1>2, <1>3 DEF SealStep

(* Handing in, rejecting, disputing, paying, and the price oracle record no *)
(* signature.                                                               *)
LEMMA SettingSeals ==
  ASSUME TypeOK, NEW m \in MilestoneIds, NEW st, ms' = Setting(m, st),
         st \in Done => ms[m].status \in Done \/ ms[m].priced
  PROVE  \A k \in MilestoneIds : SealStep(k)
  <1>1. SealStep(m)
    BY SettingMoves DEF SealStep
  <1>2. \A k \in MilestoneIds : k # m => SealStep(k)
    BY SettingMoves DEF SealStep
  <1> QED BY <1>1, <1>2

LEMMA FundingSeals ==
  ASSUME TypeOK, FundingStep
  PROVE  \A m \in MilestoneIds : SealStep(m)
  <1>1. \A m \in MilestoneIds :
          \/ ms'[m] = ms[m]
          \/ \E a, p : ms'[m] = NewMilestone(a, p)
    <2>1. ASSUME NEW amounts, AddMilestones(amounts), NEW m \in MilestoneIds
          PROVE  ms'[m] = ms[m] \/ \E a, p : ms'[m] = NewMilestone(a, p)
      BY <2>1 DEF AddMilestones
    <2>2. ASSUME NEW b \in Amounts, CreatePriceIndexedMilestone(b), NEW m \in MilestoneIds
          PROVE  ms'[m] = ms[m] \/ \E a, p : ms'[m] = NewMilestone(a, p)
      BY <2>2 DEF CreatePriceIndexedMilestone, TypeOK
    <2>3. ASSUME NEW amount, NEW dl, NEW lt, NEW d, CreateEscrow(amount, dl, lt, d)
          PROVE  ms' = ms
      BY <2>3 DEF CreateEscrow
    <2> QED BY <2>1, <2>2, <2>3 DEF FundingStep, AddMilestone, BatchAddMilestones
  <1>2. \A a, p : NewMilestone(a, p).approvals = <<>> /\ NewMilestone(a, p).status = "Pending"
    BY DEF NewMilestone
  <1>3. \A m \in MilestoneIds :
          ms'[m] = ms[m] \/ (ms'[m].approvals = <<>> /\ ms'[m].status = "Pending")
    BY <1>1, <1>2
  <1> QED BY <1>3 DEF SealStep, Done

LEMMA WorkSeals ==
  ASSUME DistinctIds, TypeOK, WorkStep
  PROVE  \A m \in MilestoneIds : SealStep(m)
  <1>1. ASSUME NEW m \in MilestoneIds,
               \/ SubmitMilestone(m) \/ RejectMilestone(m) \/ RejectMilestoneWithReason(m)
               \/ RaiseMilestoneDispute(m)
        PROVE  \A k \in MilestoneIds : SealStep(k)
    <2>1. \E st : ms' = Setting(m, st) /\ st \notin Done
      BY <1>1 DEF SubmitMilestone, RejectMilestone, RejectMilestoneWithReason, Reject,
         RaiseMilestoneDispute, Done
    <2> QED BY <2>1, SettingSeals
  <1>2. ASSUME NEW m \in MilestoneIds, NEW s \in Approvers, ApproveMilestone(m, s)
        PROVE  \A k \in MilestoneIds : SealStep(k)
    <2>1. ms \in [MilestoneIds -> Milestone]
      BY DEF TypeOK
    <2>2. \A k \in MilestoneIds : k # m => ms'[k] = ms[k]
      BY <1>2, <2>1 DEF ApproveMilestone
    <2>3. /\ ms'[m].approvals = Signatures(m, s, 1)
          /\ Threshold > 0 => ~HasSigned(m, s)
          /\ ms'[m].status \in Done => Reaches(m, s)
      BY <1>2, <2>1 DEF ApproveMilestone, Milestone, Done, Reaches
    <2> QED BY <2>2, <2>3 DEF SealStep
  <1>3. ASSUME NEW ids \in Batches, NEW s \in Approvers, BatchApproveMilestones(ids, s)
        PROVE  \A k \in MilestoneIds : SealStep(k)
    <2>1. IdsOf(ids) \in SUBSET MilestoneIds
      BY BatchIds
    <2>2. ASSUME NEW k \in MilestoneIds, k \notin IdsOf(ids)
          PROVE  ms'[k] = ms[k]
      BY <1>3, <2>2 DEF BatchApproveMilestones
    <2>3. ASSUME NEW k \in IdsOf(ids)
          PROVE  /\ ms'[k].approvals = Signatures(k, s, 1)
                 /\ Threshold > 0 => ~HasSigned(k, s)
                 /\ ms'[k].status \in Done => Reaches(k, s)
      <3> DEFINE st == IF Passes(ids, k, s) = 0 THEN "Submitted"
                       ELSE IF TimelockOver THEN "Released" ELSE "Approved"
      <3>1. /\ ms'[k] = [ms[k] EXCEPT !.approvals = Signatures(k, s, Occurrences(ids, k)),
                                      !.status = st]
            /\ Threshold > 0 => ~HasSigned(k, s)
        BY <1>3, <2>1 DEF BatchApproveMilestones
      <3>2. Occurrences(ids, k) = 1 /\ (Passes(ids, k, s) # 0 => Reaches(k, s))
        BY OccursOnce, PassesOnce
      <3>3. st \in Done => Reaches(k, s)
        BY <3>2 DEF Done
      <3>4. ms[k] \in Milestone
        BY <2>1 DEF TypeOK
      <3> HIDE DEF st
      <3>5. ms'[k].approvals = Signatures(k, s, 1) /\ ms'[k].status = st
        BY <3>1, <3>2, <3>4, SignedRecord
      <3> QED BY <3>1, <3>3, <3>5
    <2> QED BY <2>2, <2>3 DEF SealStep
  <1>4. ASSUME NEW ids \in Batches, BatchReleaseFunds(ids)
        PROVE  \A k \in MilestoneIds : SealStep(k)
    <2>1. ms \in [MilestoneIds -> Milestone]
      BY DEF TypeOK
    <2>2. ASSUME NEW k \in MilestoneIds
          PROVE  SealStep(k)
      <3>1. ms'[k] = IF k \in IdsOf(ids) THEN [ms[k] EXCEPT !.status = "Released"] ELSE ms[k]
        BY <1>4 DEF BatchReleaseFunds
      <3>2. k \in IdsOf(ids) => ms[k].status \in Done
        BY <1>4 DEF BatchReleaseFunds, Done
      <3>3. ms[k] \in Milestone
        BY <2>1
      <3> QED BY <3>1, <3>2, <3>3 DEF SealStep, Milestone
    <2> QED BY <2>2
  <1>5. ASSUME NEW m \in MilestoneIds,
               (\E c \in {"admin", "anyone"} : ReleaseFunds(m, c)) \/ ReleaseWithTimelock(m)
        PROVE  \A k \in MilestoneIds : SealStep(k)
    <2>1. ms' = Setting(m, "Released") /\ ms[m].status \in Done
      BY <1>5 DEF ReleaseFunds, ReleaseWithTimelock, PayMilestone, Done
    <2> QED BY <2>1, SettingSeals
  <1>6. ASSUME NEW m \in MilestoneIds, TriggerOracleRelease(m)
        PROVE  \A k \in MilestoneIds : SealStep(k)
    <2>1. ms' = Setting(m, "Released") /\ ms[m].priced
      BY <1>6 DEF TriggerOracleRelease
    <2> QED BY <2>1, SettingSeals
  <1> QED BY <1>1, <1>2, <1>3, <1>4, <1>5, <1>6 DEF WorkStep, ReviewStep, ReleaseStep

LEMMA NextSeals ==
  ASSUME DistinctIds, BooksInv, [Next]_vars
  PROVE  \A m \in MilestoneIds : SealStep(m)
  <1>1. CASE FundingStep
    BY <1>1, FundingSeals DEF BooksInv
  <1>2. CASE WorkStep
    BY <1>2, WorkSeals DEF BooksInv
  <1>3. CASE ms' = ms
    BY <1>3 DEF SealStep
  <1>4. CASE ExpireEscrow
    BY <1>4 DEF ExpireEscrow, SealStep, NoMilestone, Done
  <1>5. Elsewhere \/ CancelEscrow => ms' = ms
    BY DEF Elsewhere, CancelEscrow
  <1> QED BY <1>1, <1>2, <1>3, <1>4, <1>5, StepForms

(* A milestone approved by review carries the signatures of distinct approvers *)
(* whose weights reach the threshold, for every policy and every order of      *)
(* rejections, resubmissions and batches.                                      *)
THEOREM ThresholdHolds ==
  ASSUME DistinctIds
  PROVE  Spec => []ThresholdBacked
  <1> DEFINE Inv == BooksInv /\ \A m \in MilestoneIds : Sealed(m)
  <1>1. Init => Inv
    <2> SUFFICES ASSUME Init, NEW m \in MilestoneIds
                 PROVE  Sealed(m)
      BY InitBooks
    <2>1. ms[m] = NoMilestone
      BY DEF Init
    <2>2. ms[m].approvals = <<>> /\ ms[m].status = "None" /\ Signers(m) = {}
      BY <2>1 DEF NoMilestone, Signers
    <2>3. Cardinality({}) = 0 /\ Len(<<>>) = 0
      BY FS_EmptySet
    <2> QED BY <2>2, <2>3 DEF Sealed, Done
  <1>2. Inv /\ [Next]_vars => Inv'
    <2> SUFFICES ASSUME Inv, [Next]_vars
                 PROVE  Inv'
      OBVIOUS
    <2>1. BooksInv'
      BY NextBooks
    <2>2. \A m \in MilestoneIds : Sealed(m)'
      BY NextSeals, SealKeeps DEF BooksInv
    <2> QED BY <2>1, <2>2
  <1>3. Inv => ThresholdBacked
    BY DEF ThresholdBacked, Sealed, With, Done
  <1> QED BY <1>1, <1>2, <1>3, PTL DEF Spec

(***************************************************************************)
(* The counters implement the look at the board.                           *)
(***************************************************************************)

(* What the counters say of a finished escrow, and what a look says. *)
FullyReleased == milestone_count > 0 /\ released_count = milestone_count

LooksFinished == /\ \E m \in MilestoneIds : ms[m].status # "None"
                 /\ \A m \in MilestoneIds : ms[m].status \in {"None", "Released"}

(* The counters are in order, and equal only where the milestones are. *)
LEMMA CountersOrdered ==
  BooksInv /\ Stored =>
    /\ released_count <= approved_count /\ approved_count <= milestone_count
    /\ FullyReleased <=> LooksFinished
  <1> SUFFICES ASSUME BooksInv, Stored
               PROVE  /\ released_count <= approved_count /\ approved_count <= milestone_count
                      /\ FullyReleased <=> LooksFinished
    OBVIOUS
  <1> DEFINE R == With({"Released"})
             D == With(Done)
             A == With(MilestoneStatuses)
  <1>1. R \in SUBSET D /\ D \in SUBSET A /\ R \in SUBSET A /\ A \in SUBSET MilestoneIds
    BY DEF With, Done, MilestoneStatuses
  <1>2. /\ IsFiniteSet(A) /\ IsFiniteSet(D)
        /\ Cardinality(R) \in Nat /\ Cardinality(D) \in Nat /\ Cardinality(A) \in Nat
    BY <1>1, IdsFinite
  <1>3. /\ released_count = Cardinality(R) /\ approved_count = Cardinality(D)
        /\ milestone_count = Cardinality(A)
    BY MilestonesNumbered DEF BooksInv, Counted, Stored, Statuses
  <1>4. Cardinality(R) <= Cardinality(D) /\ Cardinality(D) <= Cardinality(A)
    BY <1>1, <1>2, FS_Subset
  <1>5. Cardinality(A) = Cardinality(R) <=> A = R
    BY <1>1, <1>2, FS_Subset
  <1>6. A = R <=> \A m \in MilestoneIds : ms[m].status \in {"None", "Released"}
    <2>1. \A m \in MilestoneIds : ms[m].status \in MilestoneStatuses \/ ms[m].status = "None"
      BY DEF BooksInv, TypeOK, Milestone
    <2> QED BY <2>1 DEF With, MilestoneStatuses
  <1>7. milestone_count > 0 <=> \E m \in MilestoneIds : ms[m].status # "None"
    <2>1. milestone_count \in 0 .. IdBound /\ IdBound \in Nat \ {0} /\ 0 \in MilestoneIds
      BY BoundsAssumption DEF BooksInv, TypeOK, MilestoneIds
    <2>2. \A m \in MilestoneIds : ms[m].status # "None" <=> m < milestone_count
      BY DEF BooksInv, Numbered, Stored, Statuses
    <2> QED BY <2>1, <2>2 DEF MilestoneIds
  <1> QED BY <1>3, <1>4, <1>5, <1>6, <1>7 DEF FullyReleased, LooksFinished

LEMMA CountersOrderedNext ==
  BooksInv' /\ Stored' =>
    /\ (released_count <= approved_count)' /\ (approved_count <= milestone_count)'
    /\ FullyReleased' <=> LooksFinished'
  BY CountersOrdered, PTL

(* A working escrow is not finished. *)
BoardInv == BooksInv /\ (status = "Active" => ~FullyReleased)

(* The milestones follow some edges of the state machine. *)
Along(edges) ==
  \A m \in MilestoneIds : \/ ms'[m].status = ms[m].status
                          \/ <<ms[m].status, ms'[m].status>> \in edges

(* The kinds of step that the board knows, in the contract's terms. *)
Works == /\ status = "Active" /\ status' \in {"Active", "Completed"}
         /\ status' = "Completed" <=> FullyReleased'
         /\ Along(Board!Edges)

IsSetAside == /\ status = "Active" /\ status' \in Statuses \ {"Active", "Completed"}
              /\ Along({e \in Board!Edges : e[2] = "Disputed"})

IsAftermath == /\ status \in Statuses \ {"Active"} /\ status' \in Statuses \ {"Active"}
               /\ Along({e \in Board!Edges : e[2] = "Submitted" \/ e = <<"Approved", "Released">>})

IsErased == /\ Stored /\ status' = "Removed"
            /\ \A m \in MilestoneIds : ms'[m].status = "None"

IsOpened == status = "None" /\ status' = "Active" /\ ms' = ms

BoardStep == \/ IsOpened \/ Works \/ IsSetAside \/ IsAftermath \/ IsErased
             \/ status' = status /\ ms' = ms

(* Each of them is a step of the board, or none. *)
LEMMA BoardStepIsBoardNext ==
  ASSUME BooksInv', BoardStep
  PROVE  [Board!Next]_<<[m \in MilestoneIds |-> ms[m].status],
                        CASE status = "None" -> "none"
                          [] status = "Active" -> "working"
                          [] status = "Completed" -> "complete"
                          [] status = "Removed" -> "erased"
                          [] OTHER -> "aside">>
  <1> DEFINE board == [m \in MilestoneIds |-> ms[m].status]
             phase == CASE status = "None" -> "none"
                        [] status = "Active" -> "working"
                        [] status = "Completed" -> "complete"
                        [] status = "Removed" -> "erased"
                        [] OTHER -> "aside"
  <1>1. CASE IsOpened
    <2>1. phase = "none" /\ phase' = "working" /\ board' = board
      BY <1>1 DEF IsOpened
    <2>2. Board!Open
      BY <2>1 DEF Board!Open
    <2> QED BY <2>2 DEF Board!Next
  <1>6. CASE status' = status /\ ms' = ms
    <2>1. board' = board /\ phase' = phase
      BY <1>6
    <2> QED BY <2>1
  <1>2. ASSUME NEW E, Along(E)
        PROVE  \A m \in MilestoneIds : board'[m] = board[m] \/ <<board[m], board'[m]>> \in E
    BY <1>2 DEF Along
  <1>3. CASE IsErased
    <2>1. phase # "none" /\ phase' = "erased" /\ board' = [m \in MilestoneIds |-> "None"]
      BY <1>3 DEF IsErased, Stored, Statuses
    <2>2. Board!Erase
      BY <2>1 DEF Board!Erase
    <2> QED BY <2>2 DEF Board!Next
  <1>4. CASE Works
    <2>1. phase = "working" /\ phase' = IF status' = "Completed" THEN "complete" ELSE "working"
      BY <1>4 DEF Works
    <2>2. \A m \in MilestoneIds : board'[m] = ms'[m].status
      OBVIOUS
    <2>3. status' = "Completed" <=> LooksFinished'
      BY <1>4, CountersOrderedNext DEF Works, Stored, Statuses
    <2>4. LooksFinished' <=> /\ \E m \in MilestoneIds : board'[m] # "None"
                             /\ \A m \in MilestoneIds : board'[m] \in {"None", "Released"}
      BY <2>2 DEF LooksFinished
    <2>5. Board!Follows(Board!Edges)
      BY <1>2, <1>4 DEF Works, Board!Follows
    <2>6. Board!Progress
      BY <2>1, <2>3, <2>4, <2>5 DEF Board!Progress, Board!Finished
    <2> QED BY <2>6 DEF Board!Next
  <1>5. CASE IsSetAside
    <2>1. phase = "working" /\ phase' = "aside"
      BY <1>5 DEF IsSetAside, Statuses
    <2>2. Board!SetAside
      BY <1>2, <1>5, <2>1 DEF IsSetAside, Board!SetAside, Board!Follows
    <2> QED BY <2>2 DEF Board!Next
  <1>7. CASE IsAftermath
    <2>1. phase \in {"aside", "complete"} /\ phase' \in {"aside", "complete"}
      BY <1>7 DEF IsAftermath, Statuses
    <2>2. Board!Aftermath
      BY <1>2, <1>7, <2>1 DEF IsAftermath, Board!Aftermath, Board!Follows
    <2> QED BY <2>2 DEF Board!Next
  <1> QED BY <1>1, <1>3, <1>4, <1>5, <1>6, <1>7 DEF BoardStep

LEMMA SettingAlong ==
  ASSUME TypeOK, NEW m \in MilestoneIds, NEW st, ms' = Setting(m, st),
         NEW E, <<ms[m].status, st>> \in E
  PROVE  Along(E)
  BY SettingMoves DEF Along

(* Without a release an escrow at work is not finished by the step. *)
LEMMA NotFinishedBy ==
  ASSUME BoardInv, status = "Active", UNCHANGED <<released_count, milestone_count>>
  PROVE  ~FullyReleased'
  BY DEF BoardInv, FullyReleased

LEMMA FundingOnBoard ==
  ASSUME BoardInv, BooksInv', FundingStep
  PROVE  BoardStep
  <1>1. ASSUME NEW n \in Nat \ {0}, status = "Active", status' = "Active",
               milestone_count' = milestone_count + n, released_count' = released_count,
               \A m \in MilestoneIds : m < milestone_count => ms'[m] = ms[m],
               \A m \in MilestoneIds : ms'[m] # ms[m] => ms'[m].status = "Pending"
        PROVE  BoardStep
    <2>1. released_count <= milestone_count /\ released_count \in Nat /\ milestone_count \in Nat
      BY <1>1, CountersOrdered DEF BoardInv, BooksInv, TypeOK, Stored, Statuses
    <2>2. ~FullyReleased'
      BY <1>1, <2>1 DEF FullyReleased
    <2>3. \A m \in MilestoneIds : ms'[m] # ms[m] => ms[m].status = "None"
      BY <1>1 DEF BoardInv, BooksInv, Numbered
    <2>4. Along(Board!Edges)
      BY <1>1, <2>3 DEF Along, Board!Edges
    <2> QED BY <1>1, <2>2, <2>4 DEF BoardStep, Works
  <1>2. ASSUME NEW amounts, Len(amounts) \in {1, 2}, AddMilestones(amounts)
        PROVE  BoardStep
    <2>1. milestone_count \in Nat
      BY DEF BoardInv, BooksInv, TypeOK
    <2>2. \A m \in MilestoneIds : m < milestone_count => ms'[m] = ms[m]
      <3>1. \A m \in MilestoneIds :
              m < milestone_count => m \notin milestone_count .. (milestone_count + Len(amounts) - 1)
        BY <2>1 DEF MilestoneIds
      <3> QED BY <1>2, <3>1 DEF AddMilestones
    <2>3. \A m \in MilestoneIds : ms'[m] # ms[m] => ms'[m].status = "Pending"
      BY <1>2 DEF AddMilestones, NewMilestone
    <2>4. /\ status = "Active" /\ status' = "Active" /\ Len(amounts) \in Nat \ {0}
          /\ milestone_count' = milestone_count + Len(amounts)
          /\ released_count' = released_count
      BY <1>2 DEF AddMilestones
    <2> QED BY <1>1, <2>2, <2>3, <2>4
  <1>3. ASSUME NEW a \in Amounts, CreatePriceIndexedMilestone(a)
        PROVE  BoardStep
    <2>1. milestone_count \in Nat /\ ms \in [MilestoneIds -> Milestone]
      BY DEF BoardInv, BooksInv, TypeOK
    <2>2. \A m \in MilestoneIds :
            IF m = milestone_count THEN ms'[m].status = "Pending" ELSE ms'[m] = ms[m]
      BY <1>3, <2>1 DEF CreatePriceIndexedMilestone, NewMilestone
    <2>3. milestone_count' = milestone_count + 1 /\ status = "Active" /\ status' = "Active"
          /\ released_count' = released_count
      BY <1>3 DEF CreatePriceIndexedMilestone
    <2> QED BY <1>1, <2>1, <2>2, <2>3 DEF MilestoneIds
  <1>4. ASSUME NEW amount, NEW dl, NEW lt, NEW d, CreateEscrow(amount, dl, lt, d)
        PROVE  BoardStep
    BY <1>4 DEF CreateEscrow, BoardStep, IsOpened
  <1>5. ASSUME NEW a, AddMilestone(a)
        PROVE  BoardStep
    <2>1. Len(<<a>>) = 1
      OBVIOUS
    <2> QED BY <1>2, <1>5, <2>1 DEF AddMilestone
  <1>6. ASSUME NEW a, NEW b, BatchAddMilestones(a, b)
        PROVE  BoardStep
    <2>1. Len(<<a, b>>) = 2
      OBVIOUS
    <2> QED BY <1>2, <1>6, <2>1 DEF BatchAddMilestones
  <1> QED BY <1>3, <1>4, <1>5, <1>6 DEF FundingStep

(* A release that completes the escrow when the counters say so: at work it is *)
(* work, and afterwards it pays what was approved.                             *)
LEMMA ReleaseOnBoard ==
  ASSUME BoardInv, BooksInv', Stored, NEW done,
         CompleteIf(done), status = "Active" => (done <=> FullyReleased'),
         Along({<<"Approved", "Released">>})
  PROVE  BoardStep
  <1>1. Along(Board!Edges)
        /\ Along({e \in Board!Edges : e[2] = "Submitted" \/ e = <<"Approved", "Released">>})
    BY DEF Along, Board!Edges
  <1>2. CASE status = "Active"
    BY <1>1, <1>2 DEF BoardStep, Works, CompleteIf
  <1>3. CASE status # "Active"
    BY <1>1, <1>3 DEF BoardStep, IsAftermath, CompleteIf, Stored, Statuses
  <1> QED BY <1>2, <1>3

LEMMA ReviewOnBoard ==
  ASSUME DistinctIds, BoardInv, BooksInv', ReviewStep
  PROVE  BoardStep
  <1>0. TypeOK
    BY DEF BoardInv, BooksInv
  <1>1. ASSUME NEW m \in MilestoneIds, SubmitMilestone(m)
        PROVE  BoardStep
    <2>1. /\ Stored /\ status' = status /\ UNCHANGED <<released_count, milestone_count>>
          /\ ms' = Setting(m, "Submitted") /\ ms[m].status \in {"Pending", "Rejected"}
      BY <1>1 DEF SubmitMilestone, LiveUnfrozen, Live, Accessible
    <2>2. Along(Board!Edges)
          /\ Along({e \in Board!Edges : e[2] = "Submitted" \/ e = <<"Approved", "Released">>})
      <3>1. <<ms[m].status, "Submitted">> \in {e \in Board!Edges : e[2] = "Submitted"}
        BY <2>1 DEF Board!Edges
      <3> QED BY <1>0, <2>1, <3>1, SettingAlong
    <2>3. CASE status = "Active"
      BY <2>1, <2>2, <2>3, NotFinishedBy DEF BoardStep, Works
    <2>4. CASE status # "Active"
      BY <2>1, <2>2, <2>4 DEF BoardStep, IsAftermath, Stored
    <2> QED BY <2>3, <2>4
  <1>2. ASSUME NEW m \in MilestoneIds, RejectMilestone(m) \/ RejectMilestoneWithReason(m)
        PROVE  BoardStep
    <2>1. /\ status = "Active" /\ status' = status
          /\ UNCHANGED <<released_count, milestone_count>>
          /\ ms' = Setting(m, "Rejected") /\ ms[m].status = "Submitted"
      BY <1>2 DEF RejectMilestone, RejectMilestoneWithReason, Reject
    <2>2. <<ms[m].status, "Rejected">> \in Board!Edges
      BY <2>1 DEF Board!Edges
    <2>3. Along(Board!Edges)
      BY <1>0, <2>1, <2>2, SettingAlong
    <2> QED BY <2>1, <2>3, NotFinishedBy DEF BoardStep, Works
  <1>3. ASSUME NEW m \in MilestoneIds, NEW s \in Approvers, ApproveMilestone(m, s)
        PROVE  BoardStep
    <2> DEFINE pays == Reaches(m, s) /\ TimelockOver
               done == Reaches(m, s) /\ approved_count + 1 = milestone_count
                         /\ AllReleased(released_count + (IF pays THEN 1 ELSE 0))
    <2>1. /\ status = "Active" /\ status' = IF done THEN "Completed" ELSE status
          /\ milestone_count' = milestone_count
          /\ released_count' = released_count + (IF pays THEN 1 ELSE 0)
          /\ approved_count' = approved_count + (IF Reaches(m, s) THEN 1 ELSE 0)
      BY <1>3 DEF ApproveMilestone, CompleteIf, Reaches
    <2>2. Along(Board!Edges)
      <3>1. ms[m].status = "Submitted" /\ ms'[m].status \in {"Submitted", "Approved", "Released"}
            /\ \A k \in MilestoneIds : k # m => ms'[k] = ms[k]
        BY <1>0, <1>3 DEF ApproveMilestone, TypeOK, Milestone
      <3> QED BY <3>1 DEF Along, Board!Edges
    <2>3. /\ released_count' <= approved_count' /\ approved_count' <= milestone_count'
          /\ approved_count' \in Nat /\ released_count' \in Nat
          /\ released_count \in Nat /\ milestone_count \in Nat
      BY <2>1, CountersOrderedNext DEF BooksInv, BoardInv, TypeOK, Stored, Statuses
    <2>4. done <=> FullyReleased'
      <3>1. CASE Reaches(m, s)
        BY <2>1, <2>3, <3>1 DEF FullyReleased, AllReleased
      <3>2. CASE ~Reaches(m, s)
        BY <2>1, <2>3, <3>2 DEF FullyReleased, BoardInv
      <3> QED BY <3>1, <3>2
    <2> QED BY <2>1, <2>2, <2>4 DEF BoardStep, Works
  <1>4. ASSUME NEW ids \in Batches, NEW s \in Approvers, BatchApproveMilestones(ids, s)
        PROVE  BoardStep
    <2>1. /\ status = "Active" /\ milestone_count' = milestone_count
          /\ \E n : released_count' = released_count + n
                   /\ CompleteIf(AllReleased(released_count + n))
      BY <1>4 DEF BatchApproveMilestones
    <2>2. status' = IF FullyReleased' THEN "Completed" ELSE "Active"
      BY <2>1 DEF CompleteIf, AllReleased, FullyReleased
    <2>3. Along(Board!Edges)
      <3>1. ASSUME NEW m \in MilestoneIds, m \in IdsOf(ids)
            PROVE  /\ ms[m].status = "Submitted"
                   /\ ms'[m].status \in {"Submitted", "Approved", "Released"}
        <4>1. ms[m] \in Milestone
          BY <1>0 DEF TypeOK
        <4>2. \E a, st : /\ ms'[m] = [ms[m] EXCEPT !.approvals = a, !.status = st]
                         /\ st \in {"Submitted", "Approved", "Released"}
          BY <1>4, <3>1 DEF BatchApproveMilestones
        <4>3. ms[m].status = "Submitted"
          BY <1>4, <3>1 DEF BatchApproveMilestones
        <4>4. ms'[m].status \in {"Submitted", "Approved", "Released"}
          BY <4>1, <4>2, SignedRecord
        <4> QED BY <4>3, <4>4
      <3>2. ASSUME NEW m \in MilestoneIds, m \notin IdsOf(ids)
            PROVE  ms'[m] = ms[m]
        BY <1>4, <3>2 DEF BatchApproveMilestones
      <3> QED BY <3>1, <3>2 DEF Along, Board!Edges
    <2> QED BY <2>1, <2>2, <2>3 DEF BoardStep, Works
  <1> QED BY <1>1, <1>2, <1>3, <1>4 DEF ReviewStep

LEMMA ReleasesOnBoard ==
  ASSUME DistinctIds, BoardInv, BooksInv', ReleaseStep
  PROVE  BoardStep
  <1>0. TypeOK
    BY DEF BoardInv, BooksInv
  <1>1. ASSUME NEW ids \in Batches, BatchReleaseFunds(ids)
        PROVE  BoardStep
    <2>1. /\ Stored /\ milestone_count' = milestone_count
          /\ released_count' = released_count + Len(ids)
          /\ CompleteIf(AllReleased(released_count + Len(ids)))
      BY <1>1 DEF BatchReleaseFunds, Live, Accessible
    <2>2. AllReleased(released_count + Len(ids)) <=> FullyReleased'
      BY <2>1 DEF AllReleased, FullyReleased
    <2>3. Along({<<"Approved", "Released">>})
      <3>1. ASSUME NEW m \in MilestoneIds
            PROVE  \/ ms'[m].status = ms[m].status
                   \/ <<ms[m].status, ms'[m].status>> \in {<<"Approved", "Released">>}
        <4>1. ms[m] \in Milestone
          BY <1>0 DEF TypeOK
        <4>2. ms'[m] = IF m \in IdsOf(ids) THEN [ms[m] EXCEPT !.status = "Released"] ELSE ms[m]
          BY <1>1 DEF BatchReleaseFunds
        <4>3. m \in IdsOf(ids) => ms[m].status = "Approved"
          BY <1>1 DEF BatchReleaseFunds
        <4> QED BY <4>1, <4>2, <4>3 DEF Milestone
      <3> QED BY <3>1 DEF Along
    <2> QED BY <2>1, <2>2, <2>3, ReleaseOnBoard
  <1>2. ASSUME NEW m \in MilestoneIds, NEW done, PayMilestone(m, done)
        PROVE  /\ milestone_count' = milestone_count /\ released_count' = released_count + 1
               /\ CompleteIf(done) /\ Along({<<"Approved", "Released">>})
               /\ ms[m].status = "Approved"
    <2>1. /\ ms[m].status = "Approved" /\ ms' = Setting(m, "Released")
          /\ milestone_count' = milestone_count /\ released_count' = released_count + 1
          /\ CompleteIf(done)
      BY <1>2 DEF PayMilestone
    <2>2. <<ms[m].status, "Released">> \in {<<"Approved", "Released">>}
      BY <2>1
    <2> QED BY <1>0, <2>1, <2>2, SettingAlong
  <1>3. ASSUME NEW m \in MilestoneIds, NEW c \in {"admin", "anyone"}, ReleaseFunds(m, c)
        PROVE  BoardStep
    <2>1. Stored /\ PayMilestone(m, AllReleased(released_count + 1))
      BY <1>3 DEF ReleaseFunds, LiveUnfrozen, Live, Accessible
    <2>2. AllReleased(released_count + 1) <=> FullyReleased'
      BY <1>2, <2>1 DEF AllReleased, FullyReleased
    <2> QED BY <1>2, <2>1, <2>2, ReleaseOnBoard
  <1>4. ASSUME NEW m \in MilestoneIds, ReleaseWithTimelock(m)
        PROVE  BoardStep
    <2>1. /\ Stored /\ status = "Active" /\ Stored'
          /\ PayMilestone(m, released_count + 1 >= milestone_count)
      BY <1>4 DEF ReleaseWithTimelock, PayMilestone, CompleteIf, LiveUnfrozen, Live, Accessible,
         Stored, Statuses
    <2>2. milestone_count > 0 /\ milestone_count \in Nat /\ released_count \in Nat
      <3>1. m < milestone_count /\ milestone_count \in Nat /\ released_count \in Nat
        BY <1>2, <2>1 DEF BoardInv, BooksInv, TypeOK, Numbered
      <3> QED BY <3>1 DEF MilestoneIds
    <2>3. released_count' <= milestone_count'
      <3>1. approved_count' \in Nat /\ released_count' \in Nat /\ milestone_count' \in Nat
        BY DEF BooksInv, TypeOK
      <3> QED BY <2>1, <3>1, CountersOrderedNext
    <2>4. released_count + 1 >= milestone_count <=> FullyReleased'
      BY <1>2, <2>1, <2>2, <2>3 DEF FullyReleased
    <2> QED BY <1>2, <2>1, <2>4, ReleaseOnBoard
  <1>5. ASSUME NEW m \in MilestoneIds, TriggerOracleRelease(m)
        PROVE  BoardStep
    <2>1. /\ status = "Active" /\ ms' = Setting(m, "Released") /\ ms[m].status = "Pending"
          /\ CompleteIf(AllReleased(released_count + 1))
          /\ milestone_count' = milestone_count /\ released_count' = released_count + 1
      BY <1>5 DEF TriggerOracleRelease
    <2>2. AllReleased(released_count + 1) <=> FullyReleased'
      BY <2>1 DEF AllReleased, FullyReleased
    <2>3. <<ms[m].status, "Released">> \in Board!Edges
      BY <2>1 DEF Board!Edges
    <2>4. Along(Board!Edges)
      BY <1>0, <2>1, <2>3, SettingAlong
    <2> QED BY <2>1, <2>2, <2>4 DEF BoardStep, Works, CompleteIf
  <1> QED BY <1>1, <1>3, <1>4, <1>5 DEF ReleaseStep

(* The rest sets the escrow aside, settles what was set aside, or erases it. *)
LEMMA OthersOnBoard ==
  ASSUME BoardInv,
         \/ \E m \in MilestoneIds : RaiseMilestoneDispute(m)
         \/ Elsewhere \/ CancelEscrow \/ ExpireEscrow
  PROVE  BoardStep
  <1>1. ASSUME NEW m \in MilestoneIds, RaiseMilestoneDispute(m)
        PROVE  BoardStep
    <2>1. /\ status = "Active" /\ status' = "Disputed" /\ ms' = Setting(m, "Disputed")
          /\ ms[m].status \in {"Pending", "Submitted"}
      BY <1>1 DEF RaiseMilestoneDispute, Disputing
    <2>2. <<ms[m].status, "Disputed">> \in {e \in Board!Edges : e[2] = "Disputed"}
      BY <2>1 DEF Board!Edges
    <2>3. Along({e \in Board!Edges : e[2] = "Disputed"})
      BY <2>1, <2>2, SettingAlong DEF BoardInv, BooksInv
    <2> QED BY <2>1, <2>3 DEF BoardStep, IsSetAside, Statuses
  <1>2. CASE Elsewhere
    BY <1>2 DEF Elsewhere, BoardStep, IsSetAside, IsAftermath, Along, Stored, Statuses
  <1>3. CASE CancelEscrow
    BY <1>3 DEF CancelEscrow, BoardStep, IsSetAside, Along, Statuses
  <1>4. CASE ExpireEscrow
    BY <1>4 DEF ExpireEscrow, BoardStep, IsErased, NoMilestone
  <1> QED BY <1>1, <1>2, <1>3, <1>4

LEMMA NextOnBoard ==
  ASSUME DistinctIds, BoardInv, BooksInv', [Next]_vars
  PROVE  BoardStep
  BY FundingOnBoard, ReviewOnBoard, ReleasesOnBoard, OthersOnBoard, StepForms
  DEF WorkStep, BoardInv

(* The contract, which keeps counters, implements the board, which looks: for *)
(* every number of milestones, every policy and every order of calls, each    *)
(* milestone follows the documented state machine, a released one never moves, *)
(* and an active escrow completes in the very step that releases its last     *)
(* milestone.                                                                 *)
THEOREM CountersImplementBoard ==
  ASSUME DistinctIds
  PROVE  Spec => ImplementsBoard
  <1>1. Init => BoardInv
    BY InitBooks DEF Init, BoardInv
  <1>2. BoardInv /\ [Next]_vars => BoardInv'
    <2> SUFFICES ASSUME BoardInv, [Next]_vars
                 PROVE  BoardInv'
      OBVIOUS
    <2>1. BooksInv'
      BY NextBooks DEF BoardInv
    <2>2. BoardStep
      BY <2>1, NextOnBoard
    <2>3. ASSUME status' = "Active", FullyReleased'
          PROVE  FALSE
      <3>1. LooksFinished'
        BY <2>1, <2>3, CountersOrderedNext DEF Stored, Statuses
      <3>2. ms' = ms /\ (status = "None" \/ status = "Active")
        BY <2>2, <2>3 DEF BoardStep, IsOpened, Works, IsSetAside, IsAftermath, IsErased
      <3>3. LooksFinished
        BY <3>1, <3>2 DEF LooksFinished
      <3>4. CASE status = "None"
        BY <3>3, <3>4 DEF LooksFinished, BoardInv, BooksInv, Numbered, MilestoneIds
      <3>5. CASE status = "Active"
        BY <3>3, <3>5, CountersOrdered DEF BoardInv, Stored, Statuses
      <3> QED BY <3>2, <3>4, <3>5
    <2> QED BY <2>1, <2>3 DEF BoardInv
  <1>3. Init => Board!Init
    BY DEF Init, Board!Init, NoMilestone
  <1>4. BoardInv /\ BoardInv' /\ [Next]_vars =>
          [Board!Next]_<<[m \in MilestoneIds |-> ms[m].status],
                         CASE status = "None" -> "none"
                           [] status = "Active" -> "working"
                           [] status = "Completed" -> "complete"
                           [] status = "Removed" -> "erased"
                           [] OTHER -> "aside">>
    BY NextOnBoard, BoardStepIsBoardNext DEF BoardInv
  <1> QED BY <1>1, <1>2, <1>3, <1>4, PTL DEF Spec, ImplementsBoard, Board!Spec
-------------------------------------------------------------------------------
(***************************************************************************)
(* The tokens behind the books: what a step takes out of the contract is   *)
(* what it writes off the books, but for the exceptions that ComesApart    *)
(* names.  It needs one fact beside the types, that there is no amount     *)
(* held back where there is no slash.                                      *)
(***************************************************************************)
SlashInv ==
  /\ ~Slashed => slash = NoSlash
  /\ status = "None" => slash = NoSlash

(* The escrow exists before and after the step. *)
Stands == Stored /\ Stored'

(* Settling the rent moves it out of the reserve and out of the contract. *)
LEMMA BooksPay ==
  ASSUME TypeOK, NEW charge \in Int, NEW payout \in Int, Books(charge, payout)
  PROVE  Held \in Int /\ Held' = Held - payout
  <1>1. RentOwed \in Nat
    BY RentType
  <1>2. vault \in Int /\ rent_balance \in Int
    BY DEF TypeOK
  <1> QED BY <1>1, <1>2 DEF Books, Held

LEMMA BooksUnsettledPay ==
  ASSUME TypeOK, NEW payout \in Int, BooksUnsettled(payout)
  PROVE  Held \in Int /\ Held' = Held - payout
  BY DEF BooksUnsettled, Held, TypeOK

(* The sum of the amounts of a batch is natural. *)
LEMMA TotalNat ==
  ASSUME NEW ids \in Batches, NEW f, \A m \in MilestoneIds : f[m] \in Nat
  PROVE  TotalOver(ids, f) \in Nat
  <1>1. f[ids[1]] \in Nat /\ (Len(ids) = 2 => f[ids[2]] \in Nat)
    BY BatchType
  <1> QED BY <1>1 DEF TotalOver

(***************************************************************************)
(* Work on milestones takes the same from the books and from the funds.    *)
(***************************************************************************)
Spends(due) == remaining' = remaining - due /\ Held' = Held - due /\ slash' = slash

LEMMA ReviewSpends ==
  ASSUME TypeOK, ReviewStep
  PROVE  \E due \in Nat : Spends(due)
  <1>1. remaining \in Int /\ \A m \in MilestoneIds : ms[m].amount \in Nat
    BY DEF TypeOK, Milestone
  <1>2. ASSUME NEW m \in MilestoneIds, SubmitMilestone(m) \/ Reject(m)
        PROVE  \E due \in Nat : Spends(due)
    <2>1. Books(0, 0) /\ UNCHANGED <<money, slash>>
      BY <1>2 DEF SubmitMilestone, Reject, records
    <2>2. Held' = Held - 0
      BY <2>1, BooksPay
    <2>3. Spends(0)
      BY <1>1, <2>1, <2>2 DEF Spends, money
    <2> QED BY <2>3
  <1>3. ASSUME NEW m \in MilestoneIds, NEW s \in Approvers, ApproveMilestone(m, s)
        PROVE  \E due \in Nat : Spends(due)
    <2> DEFINE due == IF AccruedWeight(Signatures(m, s, 1)) >= Threshold /\ TimelockOver
                      THEN ms[m].amount ELSE 0
    <2>1. Books(0, due) /\ remaining' = remaining - due /\ slash' = slash
      BY <1>3 DEF ApproveMilestone, records
    <2>2. due \in Nat
      BY <1>1
    <2> HIDE DEF due
    <2>3. Held' = Held - due
      BY <2>1, <2>2, BooksPay
    <2>4. Spends(due)
      BY <2>1, <2>3 DEF Spends
    <2> QED BY <2>2, <2>4
  <1>4. ASSUME NEW ids \in Batches, NEW s \in Approvers, BatchApproveMilestones(ids, s)
        PROVE  \E due \in Nat : Spends(due)
    <2> DEFINE first == [m \in MilestoneIds |->
                           IF AccruedWeight(Signatures(m, s, 1)) >= Threshold
                           THEN ms[m].amount ELSE 0]
               due == IF TimelockOver THEN TotalOver(ids, first) ELSE 0
    <2>1. Books(0, due) /\ remaining' = remaining - due /\ slash' = slash
      BY <1>4 DEF BatchApproveMilestones, records
    <2>2. \A m \in MilestoneIds : first[m] \in Nat
      BY <1>1
    <2> HIDE DEF first
    <2>3. due \in Nat
      BY <2>2, TotalNat
    <2> HIDE DEF due
    <2>4. Held' = Held - due
      BY <2>1, <2>3, BooksPay
    <2>5. Spends(due)
      BY <2>1, <2>4 DEF Spends
    <2> QED BY <2>3, <2>5
  <1> QED BY <1>2, <1>3, <1>4 DEF ReviewStep, RejectMilestone, RejectMilestoneWithReason

LEMMA ReleaseSpends ==
  ASSUME TypeOK, ReleaseStep
  PROVE  \E due \in Nat : Spends(due)
  <1>1. \A m \in MilestoneIds : ms[m].amount \in Nat /\ Amount[m] = ms[m].amount
    BY DEF TypeOK, Milestone, Amount
  <1>2. ASSUME NEW m \in MilestoneIds, Books(0, ms[m].amount),
               remaining' = remaining - ms[m].amount, slash' = slash
        PROVE  \E due \in Nat : Spends(due)
    <2> DEFINE due == ms[m].amount
    <2>1. due \in Nat /\ Books(0, due) /\ remaining' = remaining - due
      BY <1>1, <1>2
    <2> HIDE DEF due
    <2>2. Held' = Held - due
      BY <2>1, BooksPay
    <2> QED BY <1>2, <2>1, <2>2 DEF Spends
  <1>3. ASSUME NEW m \in MilestoneIds, NEW done, PayMilestone(m, done)
        PROVE  \E due \in Nat : Spends(due)
    BY <1>2, <1>3 DEF PayMilestone, records
  <1>4. ASSUME NEW m \in MilestoneIds, TriggerOracleRelease(m)
        PROVE  \E due \in Nat : Spends(due)
    BY <1>2, <1>4 DEF TriggerOracleRelease, records
  <1>5. ASSUME NEW ids \in Batches, BatchReleaseFunds(ids)
        PROVE  \E due \in Nat : Spends(due)
    <2> DEFINE due == TotalOver(ids, Amount)
    <2>1. Books(0, due) /\ remaining' = remaining - due /\ slash' = slash
      BY <1>5 DEF BatchReleaseFunds, records
    <2>2. due \in Nat
      BY <1>1, TotalNat
    <2> HIDE DEF due
    <2>3. Held' = Held - due
      BY <2>1, <2>2, BooksPay
    <2>4. Spends(due)
      BY <2>1, <2>3 DEF Spends
    <2> QED BY <2>2, <2>4
  <1> QED BY <1>3, <1>4, <1>5 DEF ReleaseStep, ReleaseFunds, ReleaseWithTimelock

LEMMA WorkStands ==
  ASSUME ReviewStep \/ ReleaseStep
  PROVE  Stands
  <1>1. CASE ReviewStep
    BY <1>1 DEF ReviewStep, SubmitMilestone, RejectMilestone, RejectMilestoneWithReason, Reject,
       ApproveMilestone, BatchApproveMilestones, CompleteIf, LiveUnfrozen, Live, Accessible,
       Stands, Stored, Statuses
  <1>2. CASE ReleaseStep
    BY <1>2 DEF ReleaseStep, BatchReleaseFunds, ReleaseFunds, ReleaseWithTimelock, PayMilestone,
       TriggerOracleRelease, CompleteIf, LiveUnfrozen, Live, Accessible, Stands, Stored, Statuses
  <1> QED BY <1>1, <1>2

(* The balance covers the milestone, or is overdrawn by it. *)
LEMMA SpendsAccounted ==
  ASSUME TypeOK, NEW due \in Nat, Spends(due)
  PROVE  TakenOut = WrittenOff \/ ComesApart
  <1>1. Held \in Int /\ remaining \in Int
    BY DEF TypeOK, Held
  <1>2. TakenOut = due
    BY <1>1 DEF TakenOut, Spends
  <1>3. CASE remaining' < 0
    <2>1. remaining' < 0 /\ TakenOut = remaining - remaining'
      BY <1>1, <1>2, <1>3 DEF Spends
    <2> QED BY <2>1 DEF ComesApart
  <1>4. CASE ~(remaining' < 0)
    <2>1. Positive(remaining) = remaining /\ Positive(remaining') = remaining - due
      BY <1>1, <1>4 DEF Positive, Spends
    <2>2. Positive(slash.amount) \in Int /\ Positive(slash'.amount) = Positive(slash.amount)
      BY DEF Positive, Spends, TypeOK, SlashRecord
    <2>3. WrittenOff = due
      BY <1>1, <2>1, <2>2 DEF WrittenOff, Owed
    <2> QED BY <1>2, <2>3
  <1> QED BY <1>3, <1>4

(***************************************************************************)
(* What moves no token but rent.                                           *)
(***************************************************************************)
QuietStep ==
  \/ \E a \in Amounts : AddMilestone(a)
  \/ \E a, b \in Amounts : BatchAddMilestones(a, b)
  \/ \E a \in Amounts : CreatePriceIndexedMilestone(a)
  \/ LockStep \/ AdminStep \/ Tick \/ UNCHANGED vars
  \/ CollectRent \/ (\E n \in TopUps : TopUpRent(n))
  \/ \E a \in Amounts : WithdrawRentOverpayment(a)
  \/ RaiseDispute \/ (\E m \in MilestoneIds : RaiseMilestoneDispute(m))
  \/ \E party \in Parties : RequestCancellation(party)
  \/ ApproveCancellation \/ DisputeCancellation \/ DisputeSlash

Quiet ==
  /\ Held' = Held /\ remaining' = remaining /\ slash'.amount = slash.amount
  /\ Stands \/ status' = status

LEMMA QuietBooks ==
  ASSUME TypeOK, NEW charge \in Int, Books(charge, 0)
  PROVE  Held' = Held
  <1>1. Held \in Int /\ Held' = Held - 0
    BY BooksPay
  <1> QED BY <1>1

LEMMA QuietSteps ==
  ASSUME TypeOK, QuietStep
  PROVE  Quiet
  <1>1. ASSUME NEW charge \in Int, Books(charge, 0), UNCHANGED <<remaining, slash>>,
               Stands \/ status' = status
        PROVE  Quiet
    BY <1>1, QuietBooks DEF Quiet
  <1>2. ASSUME NEW amounts, Len(amounts) \in Nat, AddMilestones(amounts)
        PROVE  Quiet
    BY <1>1, <1>2, ReserveType DEF AddMilestones, records
  <1>3. CASE \/ \E a \in Amounts : AddMilestone(a)
             \/ \E a, b \in Amounts : BatchAddMilestones(a, b)
    BY <1>2, <1>3 DEF AddMilestone, BatchAddMilestones
  <1>4. ASSUME Books(0, 0), UNCHANGED <<remaining, slash>>, Stands \/ status' = status
        PROVE  Quiet
    BY <1>1, <1>4
  <1>5. CASE \E a \in Amounts : CreatePriceIndexedMilestone(a)
    BY <1>4, <1>5 DEF CreatePriceIndexedMilestone, records
  <1>6. CASE LockStep
    BY <1>4, <1>6 DEF LockStep, StartTimelock, ExtendLockTime, SetTimelock, money, records
  <1>7. CASE (\E f \in BOOLEAN : SetFrozen(f)) \/ CollectRent
    BY <1>4, <1>7 DEF SetFrozen, CollectRent, escrowVars, money, records
  <1>8. CASE (\E p \in BOOLEAN : SetPaused(p)) \/ Tick \/ UNCHANGED vars
    BY <1>8 DEF SetPaused, Tick, vars, escrowVars, money, records, Quiet, Held
  <1>9. ASSUME NEW n \in TopUps, TopUpRent(n)
        PROVE  Quiet
    <2>1. RentRate \in Nat /\ n \in Nat
      BY RentType, ServiceAssumption
    <2>2. n * RentRate \in Int
      BY <2>1
    <2> QED BY <1>1, <1>9, <2>2 DEF TopUpRent, escrowVars, money, records
  <1>10. ASSUME NEW a \in Amounts, WithdrawRentOverpayment(a)
         PROVE  Quiet
    <2>1. -a \in Int
      BY InputsAssumption
    <2> QED BY <1>1, <1>10, <2>1 DEF WithdrawRentOverpayment, escrowVars, money, records
  <1>11. CASE RaiseDispute \/ (\E m \in MilestoneIds : RaiseMilestoneDispute(m))
    BY <1>4, <1>11 DEF RaiseDispute, RaiseMilestoneDispute, Disputing, money, records, Stands,
       Stored, Statuses
  <1>12. ASSUME NEW party \in Parties, RequestCancellation(party)
         PROVE  Quiet
    <2>1. Reserve(1) \in Int
      BY ReserveType
    <2> QED BY <1>1, <1>12, <2>1 DEF RequestCancellation, money, Stands, Stored, Statuses
  <1>13. CASE ApproveCancellation \/ DisputeCancellation
    BY <1>4, <1>13 DEF ApproveCancellation, DisputeCancellation, Live, Accessible, money, Stands,
       Stored, Statuses
  <1>14. CASE DisputeSlash
    <2>1. Books(0, 0) /\ remaining' = remaining /\ status' = status
      BY <1>14 DEF DisputeSlash, money
    <2>2. slash'.amount = slash.amount
      BY <1>14 DEF DisputeSlash, TypeOK, SlashRecord
    <2> QED BY <2>1, <2>2, QuietBooks DEF Quiet
  <1> QED BY <1>3, <1>5, <1>6, <1>7, <1>8, <1>9, <1>10, <1>11, <1>12, <1>13, <1>14
      DEF QuietStep, AdminStep

(***************************************************************************)
(* Every step is accounted for.                                            *)
(***************************************************************************)
Accounted ==
  /\ Stored /\ Stored' => TakenOut = WrittenOff \/ ComesApart
  /\ status = "None" /\ Stored' => Held' = Owed'
  /\ Stored /\ status' = "Removed" => TakenOut = Positive(remaining)

LEMMA StandsAccounted ==
  ASSUME Stands, TakenOut = WrittenOff \/ ComesApart
  PROVE  Accounted
  BY DEF Stands, Stored, Statuses, Accounted

LEMMA AmountsType ==
  ASSUME TypeOK
  PROVE  /\ Held \in Int /\ remaining \in Int /\ slash.amount \in Int
         /\ Positive(remaining) \in Int /\ Positive(slash.amount) \in Int
  BY DEF TypeOK, Held, SlashRecord, Positive

LEMMA QuietAccounted ==
  ASSUME TypeOK, Quiet
  PROVE  Accounted
  <1>1. TakenOut = WrittenOff
    BY AmountsType DEF Quiet, TakenOut, WrittenOff, Owed, Positive
  <1>2. CASE Stands
    BY <1>1, <1>2, StandsAccounted
  <1>3. CASE status' = status
    BY <1>1, <1>3 DEF Accounted, Stored, Statuses
  <1> QED BY <1>2, <1>3 DEF Quiet

(* The balance is paid out, and the slash left alone. *)
LEMMA ClosingAccounted ==
  ASSUME TypeOK, Stands, remaining' = 0, slash' = slash,
         Books(0, Positive(remaining)) \/ BooksUnsettled(Positive(remaining))
  PROVE  Accounted
  <1>1. Held' = Held - Positive(remaining)
    BY AmountsType, BooksPay, BooksUnsettledPay
  <1>2. TakenOut = WrittenOff
    BY <1>1, AmountsType DEF TakenOut, WrittenOff, Owed, Positive
  <1> QED BY <1>2, StandsAccounted

LEMMA CreateAccounted ==
  ASSUME TypeOK, SlashInv, NEW amount \in Totals, NEW dl, NEW lt, NEW d,
         CreateEscrow(amount, dl, lt, d)
  PROVE  Accounted
  <1>1. amount \in Nat /\ Reserve(1) \in Nat
    BY InputsAssumption, ReserveType
  <1>2. /\ status = "None" /\ remaining' = amount /\ slash' = NoSlash
        /\ vault' = amount + Reserve(1) /\ rent_balance' = Reserve(1)
    BY DEF CreateEscrow, SlashInv, records
  <1>3. Held' = Owed'
    BY <1>1, <1>2 DEF Held, Owed, Positive, NoSlash
  <1> QED BY <1>2, <1>3 DEF Accounted, Stored, Statuses

(* The award of a settlement may be more than there is: no more than the      *)
(* balance is written off.                                                    *)
LEMMA SettleAccounted ==
  ASSUME TypeOK, NEW c \in Int, Settle(c), status = "Disputed",
         \/ remaining >= 0 /\ c \in 0 .. remaining
         \/ remaining < 0 /\ c \in remaining .. 0
         \/ ~FairArbiter
  PROVE  Accounted
  <1> DEFINE split == Positive(c) + Positive(remaining - c)
  <1>1. /\ remaining' = 0 /\ status' = "Completed" /\ slash' = slash /\ ms' = ms
        /\ Books(0, ArbiterFee + Positive(c) + Positive(remaining - c))
    BY DEF Settle, records
  <1>2. ArbiterFee \in Int /\ split \in Int
        /\ ArbiterFee + Positive(c) + Positive(remaining - c) = ArbiterFee + split
    BY AmountsType, DisputeAssumption DEF Positive
  <1>3. split = Positive(remaining) \/ (~FairArbiter /\ split > Positive(remaining))
    <2>1. remaining \in Int
      BY AmountsType
    <2>2. split >= Positive(remaining)
      BY <2>1 DEF Positive
    <2>3. (remaining >= 0 /\ c \in 0 .. remaining) \/ (remaining < 0 /\ c \in remaining .. 0)
            => split = Positive(remaining)
      BY <2>1 DEF Positive
    <2>4. split = Positive(remaining) \/ split > Positive(remaining)
      BY <1>2, <2>2, AmountsType
    <2> QED BY <2>3, <2>4
  <1> HIDE DEF split
  <1>4. Books(0, ArbiterFee + split)
    BY <1>1, <1>2
  <1>5. TakenOut = ArbiterFee + split
    BY <1>2, <1>4, AmountsType, BooksPay DEF TakenOut
  <1>6. WrittenOff = Positive(remaining)
    BY <1>1, AmountsType DEF WrittenOff, Owed, Positive
  <1>7. \/ TakenOut = WrittenOff + ArbiterFee
        \/ ~FairArbiter /\ TakenOut > WrittenOff + ArbiterFee
    BY <1>2, <1>3, <1>5, <1>6, AmountsType
  <1>8. ComesApart
    BY <1>1, <1>7 DEF ComesApart
  <1> QED BY <1>1, <1>8, StandsAccounted DEF Stands, Stored, Statuses

LEMMA DisputeAccounted ==
  ASSUME TypeOK, DisputeStep
  PROVE  Accounted
  <1>1. CASE RaiseDispute \/ (\E m \in MilestoneIds : RaiseMilestoneDispute(m))
    BY <1>1, QuietSteps, QuietAccounted DEF QuietStep
  <1>2. CASE ClaimDisputeTimeout
    <2>1. remaining * 1 = remaining
      BY AmountsType
    <2>2. /\ remaining >= 0 => Quotient(remaining, 2) \in 0 .. remaining
          /\ remaining < 0 => Quotient(remaining, 2) \in remaining .. 0
      BY <2>1, AmountsType, Halves, 1 \in 0 .. 2
    <2>3. Quotient(remaining, 2) \in Int
      BY AmountsType, QuotientType
    <2> QED BY <1>2, <2>2, <2>3, AmountsType, SettleAccounted DEF ClaimDisputeTimeout
  <1>3. ASSUME NEW award \in Awards, FairArbiter => award \in 0 .. remaining,
               ResolveDispute(award)
        PROVE  Accounted
    <2>1. award \in Int /\ (FairArbiter => remaining >= 0 /\ award \in 0 .. remaining)
      BY <1>3, AmountsType, DisputeAssumption
    <2> QED BY <1>3, <2>1, SettleAccounted DEF ResolveDispute
  <1>4. ASSUME NEW h \in 0 .. 2, OracleResolveDispute(h)
        PROVE  Accounted
    <2>1. /\ remaining >= 0 => Quotient(remaining * h, 2) \in 0 .. remaining
          /\ remaining < 0 => Quotient(remaining * h, 2) \in remaining .. 0
      BY AmountsType, Halves
    <2>2. Quotient(remaining * h, 2) \in Int
      <3>1. remaining * h \in Int
        BY AmountsType
      <3> QED BY <3>1, QuotientType
    <2> QED BY <1>4, <2>1, <2>2, AmountsType, SettleAccounted DEF OracleResolveDispute
  <1> QED BY <1>1, <1>2, <1>3, <1>4 DEF DisputeStep

(* A percentage of the balance lies between zero and the balance. *)
LEMMA Percentage ==
  ASSUME NEW n \in Int, NEW p \in 0 .. 100
  PROVE  /\ Quotient(n * p, 100) \in Int
         /\ n >= 0 => Quotient(n * p, 100) \in 0 .. n
         /\ n < 0 => Quotient(n * p, 100) \in n .. 0
  <1>1. ASSUME NEW k \in Nat
        PROVE  k * p \in Int /\ k * p >= 0 /\ k * p <= k * 100
    <2>1. k * p \in Nat /\ k * (100 - p) \in Nat
      OBVIOUS
    <2>2. k * p + k * (100 - p) = k * 100
      OBVIOUS
    <2> QED BY <2>1, <2>2
  <1>2. CASE n >= 0
    <2> DEFINE x == n * p
    <2>1. x \in Int /\ x >= 0 /\ x <= n * 100
      BY <1>1, <1>2
    <2> HIDE DEF x
    <2>2. x \div 100 \in 0 .. n
      BY <1>2, <2>1
    <2>3. Quotient(x, 100) = x \div 100
      BY <2>1 DEF Quotient
    <2>4. Quotient(x, 100) \in 0 .. n
      BY <2>2, <2>3
    <2> QED BY <1>2, <2>4 DEF x
  <1>3. CASE n < 0
    <2> DEFINE k == -n
               x == n * p
    <2>1. k \in Nat /\ k * p \in Int /\ k * p >= 0 /\ k * p <= k * 100
      BY <1>1, <1>3
    <2>2. x = -(k * p) /\ x \in Int
      BY <1>3
    <2>3. -x >= 0 /\ -x <= k * 100 /\ x <= 0
      BY <2>1, <2>2
    <2> HIDE DEF x
    <2>4. (-x) \div 100 \in 0 .. k
      BY <1>3, <2>1, <2>2, <2>3
    <2>5. Quotient(x, 100) \in n .. 0
      <3>1. CASE x = 0
        <4>1. 0 \div 100 = 0
          OBVIOUS
        <4> QED BY <1>3, <3>1, <4>1 DEF Quotient
      <3>2. CASE x < 0
        <4>1. Quotient(x, 100) = -((-x) \div 100)
          BY <2>2, <3>2 DEF Quotient
        <4> QED BY <1>3, <2>1, <2>4, <4>1
      <3> QED BY <2>2, <2>3, <3>1, <3>2
    <2> QED BY <1>3, <2>5 DEF x
  <1> QED BY <1>2, <1>3

(* A cancellation holds back the slash out of what remained. *)
LEMMA ExecuteAccounted ==
  ASSUME TypeOK, SlashInv, ExecuteCancellation
  PROVE  Accounted
  <1> DEFINE slashed == Quotient(remaining * SlashPercent, 100)
  <1>1. /\ Stands /\ remaining' = 0 /\ slash = NoSlash
        /\ slash' = [slashed_user |-> request.requester, amount |-> slashed,
                     slashed_at |-> Now, disputed |-> FALSE]
        /\ Books(0, Positive(remaining - slashed))
    BY DEF ExecuteCancellation, Live, Accessible, Stands, Stored, Statuses, SlashInv
  <1>2. /\ slashed \in Int
        /\ remaining >= 0 => slashed \in 0 .. remaining
        /\ remaining < 0 => slashed \in remaining .. 0
    BY AmountsType, Percentage, DisputeAssumption
  <1>3. slash'.amount = slashed /\ slash.amount = 0
    BY <1>1 DEF NoSlash
  <1> HIDE DEF slashed
  <1>4. Positive(remaining - slashed) + Positive(slashed) = Positive(remaining)
        /\ Positive(remaining - slashed) \in Int /\ Positive(slashed) \in Int
    BY <1>2, AmountsType DEF Positive
  <1>5. TakenOut = Positive(remaining - slashed)
    BY <1>1, <1>4, AmountsType, BooksPay DEF TakenOut
  <1>6. WrittenOff = Positive(remaining) - Positive(slashed)
    <2>1. Positive(slash.amount) = 0 /\ Positive(remaining') = 0
      BY <1>1, <1>3 DEF Positive
    <2>2. Owed = Positive(remaining) /\ Owed' = Positive(slashed)
      BY <1>3, <1>4, <2>1, AmountsType DEF Owed
    <2> QED BY <2>2 DEF WrittenOff
  <1>7. TakenOut = WrittenOff
    BY <1>4, <1>5, <1>6, AmountsType
  <1> QED BY <1>1, <1>7, StandsAccounted

(* The slash is paid, or dropped. *)
LEMMA SlashAccounted ==
  ASSUME TypeOK, SlashStep
  PROVE  Accounted
  <1>1. ASSUME slash.amount >= 0, slash' = NoSlash, UNCHANGED <<status, remaining>>, Stored,
               Books(0, slash.amount) \/ BooksUnsettled(slash.amount)
        PROVE  Accounted
    <2>1. Held' = Held - slash.amount
      BY <1>1, AmountsType, BooksPay, BooksUnsettledPay
    <2>2. TakenOut = slash.amount
      BY <2>1, AmountsType DEF TakenOut
    <2>3. slash'.amount = 0
      BY <1>1 DEF NoSlash
    <2>4. WrittenOff = slash.amount
      BY <1>1, <2>3, AmountsType DEF WrittenOff, Owed, Positive
    <2> QED BY <1>1, <2>2, <2>4, StandsAccounted DEF Stands, Stored
  <1>2. CASE FinalizeSlash
    BY <1>1, <1>2 DEF FinalizeSlash, money
  <1>3. CASE DisputeSlash
    BY <1>3, QuietSteps, QuietAccounted DEF QuietStep
  <1>4. CASE ResolveSlashDispute(FALSE)
    BY <1>1, <1>4 DEF ResolveSlashDispute, Live, Accessible, money
  <1>5. CASE ResolveSlashDispute(TRUE)
    <2>1. Stands /\ Books(0, 0)
      BY <1>5 DEF ResolveSlashDispute, Live, Accessible, Stands, Stored
    <2>2. TakenOut = 0
      BY <2>1, AmountsType, QuietBooks DEF TakenOut
    <2> QED BY <1>5, <2>1, <2>2, StandsAccounted DEF ComesApart
  <1> QED BY <1>2, <1>3, <1>4, <1>5 DEF SlashStep

(* The client takes money back, or the deadline does. *)
LEMMA RefundAccounted ==
  ASSUME TypeOK, RefundStep \/ TriggerExpiry
  PROVE  Accounted
  <1>1. CASE CancelEscrow \/ TriggerExpiry
    <2>1. /\ Stands /\ remaining' = 0 /\ slash' = slash
          /\ Books(0, Positive(remaining)) \/ BooksUnsettled(Positive(remaining))
      BY <1>1 DEF CancelEscrow, TriggerExpiry, Stands, Stored, Statuses, records
    <2> QED BY <2>1, ClosingAccounted
  <1>2. CASE PartialCancel
    <2> DEFINE due == Positive(remaining - allocated)
    <2>1. Stands /\ Books(0, due) /\ remaining' = remaining - due /\ slash' = slash
      BY <1>2 DEF PartialCancel, Stands, Stored, Statuses, records
    <2>2. due \in Nat
      BY DEF TypeOK, Positive
    <2> HIDE DEF due
    <2>3. Spends(due)
      BY <2>1, <2>2, BooksPay DEF Spends
    <2> QED BY <2>1, <2>2, <2>3, SpendsAccounted, StandsAccounted
  <1>3. ASSUME NEW a \in Amounts, SwapAssetViaDex(a)
        PROVE  Accounted
    <2>1. Stands /\ Books(0, 0)
      BY <1>3 DEF SwapAssetViaDex, Stands, Stored, Statuses
    <2>2. TakenOut = 0
      BY <2>1, AmountsType, QuietBooks DEF TakenOut
    <2> QED BY <1>3, <2>1, <2>2, StandsAccounted DEF ComesApart
  <1> QED BY <1>1, <1>2, <1>3 DEF RefundStep

LEMMA ServiceAccounted ==
  ASSUME TypeOK, CollectEscrowFee \/ ExpireEscrow
  PROVE  Accounted
  <1>1. CASE CollectEscrowFee
    <2>1. Stands /\ BooksUnsettled(CompletionFee) /\ CompletionFee \in Int
      BY <1>1, ServiceAssumption DEF CollectEscrowFee, Stands, Stored, Statuses
    <2>2. TakenOut = CompletionFee
      BY <2>1, AmountsType, BooksUnsettledPay DEF TakenOut
    <2> QED BY <1>1, <2>1, <2>2, StandsAccounted DEF ComesApart
  <1>2. CASE ExpireEscrow
    <2>1. /\ Stored /\ status' = "Removed" /\ rent_balance' = 0
          /\ vault' = vault - rent_balance - Positive(remaining)
      BY <1>2 DEF ExpireEscrow
    <2>2. TakenOut = Positive(remaining)
      BY <2>1, AmountsType DEF TakenOut, Held, TypeOK
    <2> QED BY <2>1, <2>2 DEF Accounted, Stored, Statuses
  <1> QED BY <1>1, <1>2

LEMMA NextAccounted ==
  ASSUME TypeOK, SlashInv, [Next]_vars
  PROVE  Accounted
  <1>1. CASE QuietStep
    BY <1>1, QuietSteps, QuietAccounted
  <1>2. CASE ReviewStep \/ ReleaseStep
    BY <1>2, ReviewSpends, ReleaseSpends, WorkStands, SpendsAccounted, StandsAccounted
  <1>3. CASE \E amount \in Totals, dl \in Deadlines, lt \in LockTimes, d \in Timelocks :
               CreateEscrow(amount, dl, lt, d)
    BY <1>3, CreateAccounted
  <1>4. CASE DisputeStep \/ SlashStep
    BY <1>4, DisputeAccounted, SlashAccounted
  <1>5. CASE ExecuteCancellation
    BY <1>5, ExecuteAccounted
  <1>6. CASE RefundStep \/ TriggerExpiry
    BY <1>6, RefundAccounted
  <1>7. CASE CollectEscrowFee \/ ExpireEscrow
    BY <1>7, ServiceAccounted
  <1> QED BY <1>1, <1>2, <1>3, <1>4, <1>5, <1>6, <1>7 DEF Next, MilestoneStep, FundingStep,
      CancellationStep, RentStep, ClosingStep, QuietStep

(***************************************************************************)
(* Where there is no slash there is no amount held back.                   *)
(***************************************************************************)
LEMMA NextSlash ==
  ASSUME TypeOK, SlashInv, [Next]_vars
  PROVE  SlashInv'
  <1>1. ASSUME slash' = slash, status' = "None" => status = "None"
        PROVE  SlashInv'
    BY <1>1 DEF SlashInv, Slashed
  <1>2. CASE FundingStep
    BY <1>1, <1>2 DEF FundingStep, CreateEscrow, AddMilestone, BatchAddMilestones, AddMilestones,
       CreatePriceIndexedMilestone, records
  <1>3. CASE ReviewStep \/ ReleaseStep
    <2>1. status' # "None"
      BY <1>3, WorkStands DEF Stands, Stored, Statuses
    <2>2. slash' = slash
      BY <1>3, ReviewSpends, ReleaseSpends DEF Spends
    <2> QED BY <1>1, <2>1, <2>2
  <1>4. CASE LockStep \/ AdminStep \/ Tick \/ UNCHANGED vars
    BY <1>1, <1>4 DEF LockStep, StartTimelock, ExtendLockTime, SetTimelock, AdminStep, SetPaused,
       SetFrozen, Tick, vars, escrowVars, records
  <1>5. CASE RefundStep \/ ClosingStep
    BY <1>1, <1>5 DEF RefundStep, SwapAssetViaDex, PartialCancel, CancelEscrow, ClosingStep,
       TriggerExpiry, CollectEscrowFee, records
  <1>6. CASE DisputeStep
    BY <1>1, <1>6 DEF DisputeStep, RaiseDispute, RaiseMilestoneDispute, Disputing,
       ClaimDisputeTimeout, ResolveDispute, OracleResolveDispute, Settle, records
  <1>7. CASE \/ \E party \in Parties : RequestCancellation(party)
             \/ ApproveCancellation \/ DisputeCancellation
    BY <1>1, <1>7 DEF RequestCancellation, ApproveCancellation, DisputeCancellation
  <1>8. CASE ExecuteCancellation
    BY <1>8 DEF ExecuteCancellation, Requested, SlashInv, Slashed
  <1>9. CASE SlashStep
    <2>1. CASE slash' = NoSlash
      BY <2>1 DEF SlashInv
    <2>2. CASE DisputeSlash
      <3>1. Stored /\ Slashed /\ status' = status /\ slash'.slashed_user = slash.slashed_user
        BY <2>2 DEF DisputeSlash, Live, Accessible, TypeOK, SlashRecord
      <3> QED BY <3>1 DEF SlashInv, Slashed, Stored, Statuses
    <2> QED BY <1>9, <2>1, <2>2 DEF SlashStep, FinalizeSlash, ResolveSlashDispute
  <1>10. CASE RentStep
    <2>1. CASE ExpireEscrow
      BY <2>1 DEF ExpireEscrow, SlashInv
    <2>2. CASE ~ExpireEscrow
      BY <1>1, <1>10, <2>2 DEF RentStep, CollectRent, TopUpRent, WithdrawRentOverpayment,
         escrowVars, records
    <2> QED BY <2>1, <2>2
  <1> QED BY <1>2, <1>3, <1>4, <1>5, <1>6, <1>7, <1>8, <1>9, <1>10
      DEF Next, MilestoneStep, CancellationStep

(* Whatever the fees, the arbiter, the batches and the order of the calls: a  *)
(* step of the contract takes out of it what it writes off the books of the   *)
(* escrow, but for the exceptions that ComesApart names; a new escrow is      *)
(* backed, and one that expires has its balance refunded.                     *)
THEOREM StepsAccounted == Spec => FundsAccounted
  <1>1. Init => SlashInv
    BY DEF Init, SlashInv
  <1>2. TypeOK /\ SlashInv /\ [Next]_vars => SlashInv'
    BY NextSlash
  <1>3. TypeOK /\ SlashInv /\ [Next]_vars =>
          [/\ Stored /\ Stored' => TakenOut = WrittenOff \/ ComesApart
           /\ status = "None" /\ Stored' => Held' = Owed'
           /\ Stored /\ status' = "Removed" => TakenOut = Positive(remaining)]_vars
    BY NextAccounted DEF Accounted
  <1>4. Spec => []TypeOK
    BY TypeCorrect
  <1> QED BY <1>1, <1>2, <1>3, <1>4, PTL DEF Spec, FundsAccounted
==============================================================================
