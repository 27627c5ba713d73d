----------------------------- MODULE RecordsProofs -----------------------------
(***************************************************************************)
(* Proofs about EscrowRecords: its types, and what the serializable        *)
(* transactions protect.                                                   *)
(***************************************************************************)
EXTENDS EscrowRecords, TLAPS

(***************************************************************************)
(* The arithmetic of the split.                                            *)
(***************************************************************************)
LEMMA SplitInRange ==
  ASSUME NEW split \in {0, 5000, 10000}
  PROVE  /\ ClientAmount(Total, split) \in 0 .. Total
         /\ FreelancerAmount(Total, split) \in 0 .. Total
  <1>0. Total \in Nat
    BY RecordsAssumption
  <1>1. ClientAmount(Total, split) \in 0 .. Total
    <2>1. CASE split = 0
      BY <1>0, <2>1, SMT DEF ClientAmount
    <2>2. CASE split = 5000
      BY <1>0, <2>2, SMT DEF ClientAmount
    <2>3. CASE split = 10000
      BY <1>0, <2>3, SMT DEF ClientAmount
    <2> QED BY <2>1, <2>2, <2>3
  <1> QED BY <1>0, <1>1 DEF FreelancerAmount

LEMMA SplitIsOneOfThree == ClientSplit \in {0, 5000, 10000}
  BY DEF ClientSplit

(***************************************************************************)
(* What a request that is about to write has read.                         *)
(***************************************************************************)

(* It read the row as it is or an earlier version of it.  *)
SeenFits(r) ==
  request[r].pc = "write" /\ request[r].op \in {"release", "raise", "resolve", "expire"} =>
    /\ request[r].version[1] <= escrow.version
    /\ request[r].version[1] = escrow.version =>
         request[r].status = escrow.status /\ request[r].balance = escrow.balance

(* What it checked of what it read.  *)
Checked(r) ==
  /\ At(r, "raise", "write") \/ At(r, "expire", "write") => request[r].status = "Active"
  /\ At(r, "release", "write") =>
       /\ request[r].milestone \in Milestones
       /\ request[r].amount \in Amounts /\ request[r].amount <= request[r].balance
  /\ At(r, "resolve", "write") => request[r].client + request[r].freelancer = request[r].balance
  /\ At(r, "auto", "write") => Raised

DisputedOrOver == Raised => escrow.status \in {"Disputed", "Completed"}

IInv ==
  /\ TypeOK
  /\ \A r \in Requests : SeenFits(r) /\ Checked(r)
  /\ DisputedOrOver

LEMMA InitIInv == Init => IInv
  <1> SUFFICES ASSUME Init PROVE IInv
    OBVIOUS
  <1>1. TypeOK
    BY RecordsAssumption
       DEF Init, TypeOK, EscrowRow, MilestoneRow, DisputeRow, NoDispute, Idle,
           RequestStates, Operations
  <1>2. \A r \in Requests : SeenFits(r) /\ Checked(r)
    BY DEF Init, Idle, SeenFits, Checked, At
  <1> QED BY <1>1, <1>2 DEF IInv, DisputedOrOver, Raised, Init, NoDispute

-------------------------------------------------------------------------------
(* A request that reads, begins or ends changes no row.  *)
LEMMA RequestStep ==
  ASSUME IInv, NEW r \in Requests, NEW as \in RequestStates,
         request' = [request EXCEPT ![r] = as],
         UNCHANGED <<escrow, milestone, dispute, evidence, clock, paid>>,
         requests' \in 0 .. MaxRequests,
         SeenFits(r)', Checked(r)'
  PROVE  IInv'
  <1>1. TypeOK'
    BY DEF IInv, TypeOK
  <1>2. ASSUME NEW s \in Requests PROVE (SeenFits(s) /\ Checked(s))'
    <2>1. CASE s = r
      BY <2>1
    <2>2. CASE s # r
      BY <1>2, <2>2 DEF IInv, TypeOK, SeenFits, Checked, At, Raised
    <2> QED BY <2>1, <2>2
  <1> QED BY <1>1, <1>2 DEF IInv, DisputedOrOver, Raised

LEMMA EndStep ==
  ASSUME IInv, NEW r \in Requests, End(r),
         UNCHANGED <<escrow, milestone, dispute, evidence, clock, paid>>,
         requests' \in 0 .. MaxRequests
  PROVE  IInv'
  <1>1. Idle \in RequestStates
    BY RecordsAssumption DEF Idle, RequestStates, Operations
  <1>2. request'[r] = Idle
    BY DEF End, IInv, TypeOK
  <1>3. SeenFits(r)' /\ Checked(r)'
    BY <1>2 DEF Idle, SeenFits, Checked, At
  <1> QED BY <1>1, <1>3, RequestStep DEF End

LEMMA RefuseStep ==
  ASSUME IInv, NEW r \in Requests, Refuse(r)
  PROVE  IInv'
  BY EndStep DEF Refuse, IInv, TypeOK

(* A step that writes rows: the requests that it leaves have now read an     *)
(* earlier version of the escrow it writes.                                  *)
LEMMA RowStep ==
  ASSUME IInv,
         request' \in [Requests -> RequestStates],
         \A s \in Requests : request'[s] = request[s] \/ request'[s] = Idle,
         escrow' \in EscrowRow, escrow' = escrow \/ escrow'.version = escrow.version + 1,
         milestone' \in [Milestones -> MilestoneRow],
         dispute' \in DisputeRow, evidence' \subseteq Roles, paid' \in Nat,
         clock' \in [expired : BOOLEAN, waited : BOOLEAN], UNCHANGED requests,
         DisputedOrOver', Raised => Raised'
  PROVE  IInv'
  <1>1. TypeOK'
    BY DEF IInv, TypeOK
  <1>2. ASSUME NEW s \in Requests PROVE (SeenFits(s) /\ Checked(s))'
    <2>1. CASE request'[s] = Idle
      BY <2>1 DEF Idle, SeenFits, Checked, At
    <2>2. CASE request'[s] = request[s]
      <3>1. Checked(s)'
        BY <2>2 DEF IInv, Checked, At
      <3>2. request[s].version[1] \in Nat /\ escrow.version \in Nat
        BY DEF IInv, TypeOK, EscrowRow, RequestStates
      <3>3. SeenFits(s)'
        BY <2>2, <3>2 DEF IInv, SeenFits
      <3> QED BY <3>1, <3>3
    <2> QED BY <2>1, <2>2
  <1> QED BY <1>1, <1>2 DEF IInv

LEMMA EndsRequest ==
  ASSUME IInv, NEW r \in Requests, End(r)
  PROVE  /\ request' \in [Requests -> RequestStates]
         /\ \A s \in Requests : request'[s] = request[s] \/ request'[s] = Idle
  <1>1. Idle \in RequestStates
    BY RecordsAssumption DEF Idle, RequestStates, Operations
  <1> QED BY <1>1 DEF End, IInv, TypeOK

(* A transaction that commits and ends its request.  *)
LEMMA WriteStep ==
  ASSUME IInv, NEW r \in Requests, End(r),
         escrow' \in EscrowRow, escrow' = escrow \/ escrow'.version = escrow.version + 1,
         milestone' \in [Milestones -> MilestoneRow],
         dispute' \in DisputeRow, evidence' \subseteq Roles, paid' \in Nat,
         UNCHANGED <<clock, requests>>,
         DisputedOrOver', Raised => Raised'
  PROVE  IInv'
  <1>1. clock' \in [expired : BOOLEAN, waited : BOOLEAN]
    BY DEF IInv, TypeOK
  <1> QED BY <1>1, EndsRequest, RowStep

-------------------------------------------------------------------------------
LEMMA SeenStep ==
  ASSUME IInv, NEW r \in Requests, NEW as \in RequestStates, Proceed(r, as),
         as.pc = "write" /\ as.op \in {"release", "raise", "resolve", "expire"} =>
           /\ as.version[1] = escrow.version
           /\ as.status = escrow.status /\ as.balance = escrow.balance,
         as.pc = "write" =>
           /\ as.op \in {"raise", "expire"} => as.status = "Active"
           /\ as.op = "release" =>
                as.milestone \in Milestones /\ as.amount \in Amounts /\ as.amount <= as.balance
           /\ as.op = "resolve" => as.client + as.freelancer = as.balance
           /\ as.op = "auto" => Raised
  PROVE  IInv'
  <1>1. request'[r] = as
    BY DEF Proceed, IInv, TypeOK
  <1>2. UNCHANGED <<escrow, milestone, dispute, evidence, clock, paid, requests>>
    BY DEF Proceed
  <1>3. escrow.version \in Nat
    BY DEF IInv, TypeOK, EscrowRow
  <1>4. SeenFits(r)'
    <2>1. escrow' = escrow
      BY <1>2
    <2> SUFFICES ASSUME as.pc = "write", as.op \in {"release", "raise", "resolve", "expire"}
                 PROVE  /\ as.version[1] <= escrow.version
                        /\ as.status = escrow.status /\ as.balance = escrow.balance
      BY <1>1, <2>1 DEF SeenFits
    <2>2. as.version[1] = escrow.version /\ as.status = escrow.status /\ as.balance = escrow.balance
      OBVIOUS
    <2>3. escrow.version <= escrow.version
      BY <1>3
    <2> QED BY <2>2, <2>3
  <1>5. Checked(r)'
    <2>1. dispute' = dispute
      BY <1>2
    <2> QED BY <1>1, <2>1 DEF Checked, At, Raised
  <1>6. requests' \in 0 .. MaxRequests
    BY <1>2 DEF IInv, TypeOK
  <1> QED BY <1>2, <1>4, <1>5, <1>6, RequestStep DEF Proceed

LEMMA SeenType ==
  ASSUME IInv, NEW r \in Requests
  PROVE  /\ Seen(r) \in RequestStates
         /\ request[r] \in RequestStates
         /\ escrow.balance \in 0 .. Total
         /\ Seen(r).op = request[r].op
         /\ Seen(r).status = escrow.status /\ Seen(r).balance = escrow.balance
         /\ Seen(r).version[1] = escrow.version
  <1>1. request[r] \in RequestStates /\ escrow \in EscrowRow /\ dispute \in DisputeRow
    BY DEF IInv, TypeOK
  <1>2. <<escrow.version, dispute.version>> \in Nat \X Nat
    BY <1>1 DEF EscrowRow, DisputeRow
  <1>3. Seen(r) \in RequestStates
    BY <1>1, <1>2 DEF Seen, RequestStates, EscrowRow
  <1>4. escrow.balance \in 0 .. Total
    BY <1>1 DEF EscrowRow
  <1>5. /\ Seen(r).op = request[r].op
        /\ Seen(r).status = escrow.status /\ Seen(r).balance = escrow.balance
        /\ Seen(r).version[1] = escrow.version
    BY <1>1 DEF Seen, RequestStates
  <1> QED BY <1>1, <1>3, <1>4, <1>5

LEMMA GiveType ==
  ASSUME NEW q \in RequestStates, NEW c \in 0 .. Total, NEW f \in 0 .. Total,
         NEW o \in {"none", "AUTO", "ESCALATED"}
  PROVE  /\ [q EXCEPT !.client = c, !.freelancer = f] \in RequestStates
         /\ [q EXCEPT !.pc = "write", !.client = c, !.freelancer = f] \in RequestStates
         /\ [q EXCEPT !.pc = "write", !.outcome = o, !.client = c, !.freelancer = f]
              \in RequestStates
  BY DEF RequestStates

(* The steps that read.  *)
LEMMA ReadStep ==
  ASSUME IInv, NEW r \in Requests,
         \/ ReadForRelease(r) \/ ReadForRaise(r) \/ ReadForResolve(r) \/ ReadForExpire(r)
         \/ ReadForAdmin(r) \/ ReadForAuto(r) \/ ReadForEvidence(r)
  PROVE  IInv'
  <1>1. CASE Refuse(r)
    BY <1>1, RefuseStep
  <1>2. ASSUME NEW m \in Milestones, NEW amount \in Amounts, At(r, "release", "read"),
               escrow.balance >= amount,
               Proceed(r, [Seen(r) EXCEPT !.milestone = m, !.amount = amount])
        PROVE  IInv'
    <2> DEFINE as == [Seen(r) EXCEPT !.milestone = m, !.amount = amount]
    <2>1. as \in RequestStates
      <3>1. Seen(r) \in RequestStates
        BY SeenType
      <3>2. m \in Milestones \cup {0} /\ amount \in Amounts \cup {0}
        OBVIOUS
      <3> QED BY <3>1, <3>2 DEF RequestStates
    <2>2. as.op = "release" /\ as.milestone = m /\ as.amount = amount
          /\ as.balance = escrow.balance /\ as.status = escrow.status
          /\ as.version[1] = escrow.version
      BY <1>2, SeenType DEF At, RequestStates
    <2>3. amount <= escrow.balance
      BY <1>2, SeenType, RecordsAssumption
    <2> HIDE DEF as
    <2> QED BY <1>2, <2>1, <2>2, <2>3, SeenStep DEF as
  <1>3. ASSUME At(r, "raise", "read") \/ At(r, "expire", "read"), escrow.status = "Active",
               Proceed(r, Seen(r))
        PROVE  IInv'
    <2>1. Seen(r).op \in {"raise", "expire"} /\ Seen(r).status = "Active"
      BY <1>3, SeenType DEF At
    <2> QED BY <1>3, <2>1, SeenType, SeenStep
  <1>4. ASSUME NEW c \in {0, escrow.balance}, At(r, "resolve", "read"),
               Proceed(r, [Seen(r) EXCEPT !.client = c, !.freelancer = escrow.balance - c])
        PROVE  IInv'
    <2> DEFINE as == [Seen(r) EXCEPT !.client = c, !.freelancer = escrow.balance - c]
    <2>0. c \in 0 .. Total /\ escrow.balance - c \in 0 .. Total
      BY RecordsAssumption, SeenType
    <2>1. as \in RequestStates
      BY <2>0, SeenType, GiveType
    <2>2. as.op = "resolve" /\ as.client = c /\ as.freelancer = escrow.balance - c
          /\ as.balance = escrow.balance
          /\ as.status = escrow.status /\ as.version[1] = escrow.version
      BY <1>4, SeenType DEF At, RequestStates
    <2>3. c + (escrow.balance - c) = escrow.balance
      BY SeenType
    <2> HIDE DEF as
    <2> QED BY <1>4, <2>1, <2>2, <2>3, SeenStep DEF as
  <1>5. ASSUME NEW c \in {0, Total}, At(r, "admin", "read"),
               Proceed(r, [request[r] EXCEPT !.pc = "write", !.client = c, !.freelancer = Total - c])
        PROVE  IInv'
    <2> DEFINE as == [request[r] EXCEPT !.pc = "write", !.client = c, !.freelancer = Total - c]
    <2>0. c \in 0 .. Total /\ Total - c \in 0 .. Total
      BY RecordsAssumption
    <2>1. as \in RequestStates
      BY <2>0, SeenType, GiveType
    <2>2. as.op = "admin"
      BY <1>5, SeenType DEF At, RequestStates
    <2> HIDE DEF as
    <2> QED BY <1>5, <2>1, <2>2, SeenStep DEF as
  <1>6. CASE ReadForAuto(r)
    <2> DEFINE c == IF RuleFires THEN ClientAmount(Total, ClientSplit) ELSE 0
               f == IF RuleFires THEN FreelancerAmount(Total, ClientSplit) ELSE 0
               o == IF RuleFires THEN "AUTO" ELSE "ESCALATED"
               as == [request[r] EXCEPT !.pc = "write", !.outcome = o, !.client = c,
                                        !.freelancer = f]
    <2>1. c \in 0 .. Total /\ f \in 0 .. Total /\ o \in {"AUTO", "ESCALATED"}
      <3>0. Total \in Nat
        BY RecordsAssumption
      <3>1. /\ ClientAmount(Total, ClientSplit) \in 0 .. Total
            /\ FreelancerAmount(Total, ClientSplit) \in 0 .. Total
        BY SplitInRange, SplitIsOneOfThree
      <3> QED BY <3>0, <3>1
    <2> HIDE DEF c, f, o
    <2>2. as \in RequestStates
      BY <2>1, SeenType, GiveType
    <2>3. At(r, "auto", "read") =>
            as.op = "auto" /\ as.outcome = o /\ as.client = c /\ as.freelancer = f
      BY SeenType DEF At, RequestStates
    <2>4. Refuse(r) \/ (Raised /\ At(r, "auto", "read") /\ Proceed(r, as))
      BY <1>6 DEF ReadForAuto, c, f, o
    <2> HIDE DEF as
    <2> QED BY <1>1, <2>1, <2>2, <2>3, <2>4, SeenStep
  <1>7. ASSUME At(r, "evidence", "read"), Proceed(r, [request[r] EXCEPT !.pc = "write"])
        PROVE  IInv'
    <2> DEFINE as == [request[r] EXCEPT !.pc = "write"]
    <2>1. as \in RequestStates
      BY SeenType DEF RequestStates
    <2>2. as.op = "evidence"
      BY <1>7, SeenType DEF At, RequestStates
    <2> HIDE DEF as
    <2> QED BY <1>7, <2>1, <2>2, SeenStep DEF as
  <1> QED BY <1>1, <1>2, <1>3, <1>4, <1>5, <1>6, <1>7 DEF ReadForRelease, ReadForRaise,
      ReadForResolve, ReadForExpire, Expired, ReadForAdmin, ReadForEvidence

-------------------------------------------------------------------------------
(* The steps that write.  *)
LEMMA RowTypes ==
  ASSUME IInv, NEW r \in Requests
  PROVE  /\ escrow \in EscrowRow /\ dispute \in DisputeRow /\ evidence \subseteq Roles
         /\ milestone \in [Milestones -> MilestoneRow]
         /\ paid \in Nat /\ request[r] \in RequestStates
         /\ escrow.version + 1 \in Nat /\ dispute.version + 1 \in Nat
  <1>1. escrow \in EscrowRow /\ dispute \in DisputeRow
    BY DEF IInv, TypeOK
  <1>2. escrow.version + 1 \in Nat /\ dispute.version + 1 \in Nat
    BY <1>1 DEF EscrowRow, DisputeRow
  <1> QED BY <1>1, <1>2 DEF IInv, TypeOK

LEMMA UpdateType ==
  ASSUME IInv, NEW status \in {"none", "Active", "Disputed", "Completed", "Cancelled"},
         NEW balance \in 0 .. Total, Update(status, balance)
  PROVE  /\ escrow' \in EscrowRow /\ escrow'.version = escrow.version + 1
         /\ escrow'.status = status
  <1>1. escrow.version + 1 \in Nat
    BY DEF IInv, TypeOK, EscrowRow
  <1> QED BY <1>1 DEF Update, EscrowRow

LEMMA FundStep == IInv /\ FundEscrow => IInv'
  <1> SUFFICES ASSUME IInv, FundEscrow PROVE IInv'
    OBVIOUS
  <1>1. Total \in 0 .. Total
    BY RecordsAssumption
  <1>2. escrow' \in EscrowRow /\ escrow'.version = escrow.version + 1 /\ escrow'.status = "Active"
    BY <1>1, UpdateType DEF FundEscrow
  <1>3. DisputedOrOver'
    BY DEF IInv, DisputedOrOver, Raised, FundEscrow
  <1>4. Raised => Raised'
    BY DEF FundEscrow, Raised
  <1> QED BY <1>2, <1>3, <1>4, RowStep DEF FundEscrow, IInv, TypeOK

LEMMA ReleaseStep ==
  ASSUME IInv, NEW r \in Requests, ReleaseMilestone(r)
  PROVE  IInv'
  <1> DEFINE amount == request[r].amount
             left == request[r].balance - amount
             status == IF left = 0 THEN "Completed" ELSE escrow.status
  <1>1. amount \in Amounts /\ amount <= request[r].balance
    BY DEF IInv, Checked, ReleaseMilestone
  <1>2. amount \in Nat /\ request[r].balance \in 0 .. Total /\ Total \in Nat
    BY <1>1, RecordsAssumption, RowTypes DEF RequestStates
  <1>3. left \in 0 .. Total
    BY <1>1, <1>2
  <1>4. status \in {"none", "Active", "Disputed", "Completed", "Cancelled"}
    BY RowTypes DEF EscrowRow
  <1>5. Update(status, left) /\ End(r) /\ UNCHANGED <<dispute, evidence, clock, requests>>
    BY DEF ReleaseMilestone
  <1>6. escrow' \in EscrowRow /\ escrow'.version = escrow.version + 1 /\ escrow'.status = status
    <2> HIDE DEF left, status
    <2> QED BY <1>3, <1>4, <1>5, UpdateType
  <1>7. DisputedOrOver'
    BY <1>5, <1>6 DEF IInv, DisputedOrOver, Raised
  <1>8. milestone' \in [Milestones -> MilestoneRow]
    BY RowTypes DEF ReleaseMilestone, MilestoneRow
  <1>9. paid' \in Nat
    BY <1>2, RowTypes DEF ReleaseMilestone
  <1>10. Raised => Raised'
    BY <1>5 DEF Raised
  <1> QED BY <1>5, <1>6, <1>7, <1>8, <1>9, <1>10, RowTypes, WriteStep

LEMMA RaiseStep ==
  ASSUME IInv, NEW r \in Requests, RaiseDispute(r)
  PROVE  IInv'
  <1>1. CASE Refuse(r)
    BY <1>1, RefuseStep
  <1>2. CASE ~Refuse(r)
    <2>1. /\ Update("Disputed", escrow.balance)
          /\ dispute' = [NoDispute EXCEPT !.type = "open"]
          /\ \/ UNCHANGED milestone
             \/ \E m \in Milestones : milestone' = [milestone EXCEPT ![m].status = "Rejected"]
          /\ End(r)
          /\ UNCHANGED <<evidence, clock, paid, requests>>
      BY <1>2, Zenon DEF RaiseDispute
    <2>2. escrow.balance \in 0 .. Total
      BY RowTypes DEF EscrowRow
    <2>3. escrow' \in EscrowRow /\ escrow'.version = escrow.version + 1
          /\ escrow'.status = "Disputed"
      BY <2>1, <2>2, UpdateType
    <2>4. dispute' \in DisputeRow /\ Raised'
      BY <2>1 DEF NoDispute, DisputeRow, Raised
    <2>5. milestone' \in [Milestones -> MilestoneRow]
      BY <2>1, RowTypes DEF MilestoneRow
    <2>6. DisputedOrOver'
      BY <2>3 DEF DisputedOrOver
    <2> QED BY <2>1, <2>3, <2>4, <2>5, <2>6, RowTypes, WriteStep
  <1> QED BY <1>1, <1>2

LEMMA ResolveType ==
  ASSUME IInv, NEW r \in Requests, NEW by \in {"admin", "service"},
         Resolve(by, request[r].client, request[r].freelancer)
  PROVE  dispute' \in DisputeRow /\ dispute'.type = dispute.type
  <1>1. request[r].client \in Int /\ request[r].freelancer \in Int
    BY RecordsAssumption, RowTypes DEF RequestStates
  <1> QED BY <1>1, RowTypes DEF Resolve, DisputeRow

LEMMA ResolveStep ==
  ASSUME IInv, NEW r \in Requests, ResolveDispute(r)
  PROVE  IInv'
  <1>1. CASE Refuse(r)
    BY <1>1, RefuseStep
  <1>2. CASE ~Refuse(r)
    <2>1. /\ Update("Completed", 0)
          /\ Resolve("service", request[r].client, request[r].freelancer)
          /\ End(r)
          /\ UNCHANGED <<milestone, evidence, clock, paid, requests>>
      BY <1>2, Zenon DEF ResolveDispute
    <2>2. escrow' \in EscrowRow /\ escrow'.version = escrow.version + 1
          /\ escrow'.status = "Completed"
      <3>1. 0 \in 0 .. Total
        BY RecordsAssumption
      <3> QED BY <2>1, <3>1, UpdateType
    <2>3. dispute' \in DisputeRow /\ dispute'.type = dispute.type
      BY <2>1, ResolveType
    <2>4. DisputedOrOver' /\ (Raised => Raised')
      BY <2>2, <2>3 DEF DisputedOrOver, Raised
    <2> QED BY <2>1, <2>2, <2>3, <2>4, RowTypes, WriteStep
  <1> QED BY <1>1, <1>2

LEMMA ExpireStep ==
  ASSUME IInv, NEW r \in Requests, ExpireEscrow(r)
  PROVE  IInv'
  <1>1. CASE Refuse(r)
    BY <1>1, RefuseStep
  <1>2. CASE ~Refuse(r)
    <2>1. /\ EscrowUnchanged(r)
          /\ Update("Cancelled", escrow.balance)
          /\ End(r)
          /\ UNCHANGED <<milestone, dispute, evidence, clock, paid, requests>>
      BY <1>2, Zenon DEF ExpireEscrow
    <2>2. escrow.balance \in 0 .. Total
      BY RowTypes DEF EscrowRow
    <2>3. escrow' \in EscrowRow /\ escrow'.version = escrow.version + 1
      BY <2>1, <2>2, UpdateType
    <2>4. escrow.status = "Active"
      BY <2>1 DEF IInv, SeenFits, Checked, At, ExpireEscrow, EscrowUnchanged
    <2>5. DisputedOrOver' /\ (Raised => Raised')
      BY <2>1, <2>4 DEF IInv, DisputedOrOver, Raised
    <2> QED BY <2>1, <2>3, <2>5, RowTypes, WriteStep
  <1> QED BY <1>1, <1>2

(* The steps that write the dispute or the evidence only.  *)
LEMMA DisputeStep ==
  ASSUME IInv, NEW r \in Requests,
         ResolveByAdmin(r) \/ RunAutomatedResolution(r) \/ SubmitEvidence(r)
  PROVE  IInv'
  <1>1. CASE ResolveByAdmin(r)
    <2>1. dispute' \in DisputeRow /\ dispute'.type = dispute.type
      BY <1>1, ResolveType DEF ResolveByAdmin
    <2>2. escrow' = escrow
      BY <1>1 DEF ResolveByAdmin
    <2>3. DisputedOrOver' /\ (Raised => Raised')
      BY <2>1, <2>2 DEF IInv, DisputedOrOver, Raised
    <2> QED BY <1>1, <2>1, <2>2, <2>3, RowTypes, WriteStep DEF ResolveByAdmin
  <1>2. CASE RunAutomatedResolution(r)
    <2>1. request[r].client \in Int /\ request[r].freelancer \in Int
      BY RecordsAssumption, RowTypes DEF RequestStates
    <2>2. dispute' \in DisputeRow
      BY <1>2, <2>1, RowTypes DEF RunAutomatedResolution, DisputeRow
    <2>3. escrow' = escrow
      BY <1>2 DEF RunAutomatedResolution
    <2>4. Raised
      BY <1>2 DEF IInv, Checked, At, RunAutomatedResolution
    <2>5. DisputedOrOver' /\ (Raised => Raised')
      BY <1>2, <2>3, <2>4, RowTypes DEF IInv, DisputedOrOver, Raised, RunAutomatedResolution,
         DisputeRow
    <2> QED BY <1>2, <2>2, <2>3, <2>5, RowTypes, WriteStep DEF RunAutomatedResolution
  <1>3. CASE SubmitEvidence(r)
    <2>1. evidence' \subseteq Roles
      BY <1>3, RowTypes DEF SubmitEvidence
    <2>2. escrow' = escrow /\ dispute' = dispute
      BY <1>3 DEF SubmitEvidence
    <2>3. DisputedOrOver' /\ (Raised => Raised')
      BY <2>2 DEF IInv, DisputedOrOver, Raised
    <2> QED BY <1>3, <2>1, <2>2, <2>3, RowTypes, WriteStep DEF SubmitEvidence
  <1> QED BY <1>1, <1>2, <1>3

LEMMA ClockStep == IInv /\ (PassDeadline \/ PassWindow) => IInv'
  <1> SUFFICES ASSUME IInv, PassDeadline \/ PassWindow PROVE IInv'
    OBVIOUS
  <1>1. UNCHANGED <<escrow, milestone, dispute, evidence, request, paid, requests>>
    BY DEF PassDeadline, PassWindow
  <1>2. clock' \in [expired : BOOLEAN, waited : BOOLEAN]
    BY DEF PassDeadline, PassWindow, IInv, TypeOK
  <1>3. DisputedOrOver' /\ (Raised => Raised')
    BY <1>1 DEF IInv, DisputedOrOver, Raised
  <1> QED BY <1>1, <1>2, <1>3, RowStep DEF IInv, TypeOK

(* The steps that begin a request or give it up.  *)
LEMMA BeginStep ==
  ASSUME IInv, NEW r \in Requests, BeginRequest(r) \/ FindExpired(r)
  PROVE  IInv'
  <1>1. PICK op \in Operations \ {"none"} :
          /\ request' = [request EXCEPT ![r] = [Idle EXCEPT !.op = op, !.pc = "read"]]
          /\ requests' \in 0 .. MaxRequests
    <2>1. CASE BeginRequest(r)
      <3>1. PICK op \in Operations \ {"none", "expire"} : Come(r, op, "read")
        BY <2>1 DEF BeginRequest
      <3>2. requests' \in 0 .. MaxRequests
        BY <3>1, RecordsAssumption DEF Come, IInv, TypeOK
      <3> QED BY <3>1, <3>2 DEF Come
    <2>2. CASE FindExpired(r)
      BY <2>2 DEF FindExpired, Operations, IInv, TypeOK
    <2> QED BY <2>1, <2>2
  <1> DEFINE as == [Idle EXCEPT !.op = op, !.pc = "read"]
  <1>2. as \in RequestStates /\ as.pc = "read"
    <2>1. Idle \in RequestStates
      BY RecordsAssumption DEF Idle, RequestStates, Operations
    <2> QED BY <1>1, <2>1 DEF RequestStates
  <1> HIDE DEF as
  <1>3. request'[r] = as
    BY <1>1 DEF IInv, TypeOK, as
  <1>4. SeenFits(r)' /\ Checked(r)'
    BY <1>2, <1>3 DEF SeenFits, Checked, At
  <1>5. UNCHANGED <<escrow, milestone, dispute, evidence, clock, paid>>
    BY DEF BeginRequest, FindExpired
  <1> QED BY <1>1, <1>2, <1>4, <1>5, RequestStep DEF as

LEMMA FailStep ==
  ASSUME IInv, NEW r \in Requests, FailRequest(r)
  PROVE  IInv'
  <1>1. requests' \in 0 .. MaxRequests
    BY RecordsAssumption DEF FailRequest, IInv, TypeOK
  <1> QED BY <1>1, EndStep DEF FailRequest

LEMMA NextIInv == IInv /\ [Next]_vars => IInv'
  <1> SUFFICES ASSUME IInv, [Next]_vars PROVE IInv'
    OBVIOUS
  <1>1. CASE FundEscrow \/ PassDeadline \/ PassWindow
    BY <1>1, FundStep, ClockStep
  <1>2. ASSUME NEW r \in Requests, BeginRequest(r) \/ FailRequest(r) \/ FindExpired(r)
        PROVE  IInv'
    BY <1>2, BeginStep, FailStep
  <1>3. ASSUME NEW r \in Requests, Serve(r) \/ ExpiryStep(r)
        PROVE  IInv'
    BY <1>3, ReadStep, ReleaseStep, RaiseStep, ResolveStep, ExpireStep, DisputeStep
       DEF Serve, ExpiryStep
  <1>4. CASE UNCHANGED vars
    BY <1>4 DEF vars, IInv, TypeOK, SeenFits, Checked, At, DisputedOrOver, Raised
  <1> QED BY <1>1, <1>2, <1>3, <1>4 DEF Next

(* Every state of the specification satisfies the inductive invariant.  *)
THEOREM RecordsInvariant == Spec => []IInv
  <1> QED BY InitIInv, NextIInv, PTL DEF Spec

-------------------------------------------------------------------------------
(* The rows and the requests keep their types: in particular the balance that *)
(* a release computes from what it read stays between nothing and the total.  *)
THEOREM RecordsTypeCorrect == Spec => []TypeOK
  <1>1. IInv => TypeOK
    BY DEF IInv
  <1> QED BY <1>1, RecordsInvariant, PTL

(* Whichever of the expiry job and a dispute commits first, the serializable  *)
(* transaction of the other fails: an escrow with a dispute is not cancelled. *)
THEOREM DisputeOrExpiryHolds == Spec => []DisputeOrExpiry
  <1>1. IInv => DisputeOrExpiry
    BY DEF IInv, DisputedOrOver, DisputeOrExpiry
  <1> QED BY <1>1, RecordsInvariant, PTL

(* The service's resolution gives away the balance of the escrow it closes,   *)
(* whatever the releases that run beside it do.                               *)
THEOREM SettlesWhatIsLeftHolds == Spec => SettlesWhatIsLeft
  <1> DEFINE A == escrow' # escrow /\ dispute' # dispute /\ dispute'.by = "service"
                    => dispute'.client + dispute'.freelancer = escrow.balance
  <1>1. IInv /\ [Next]_vars => [A]_vars
    <2> SUFFICES ASSUME IInv, Next, escrow' # escrow, dispute' # dispute,
                        dispute'.by = "service"
                 PROVE  dispute'.client + dispute'.freelancer = escrow.balance
      OBVIOUS
    <2>1. PICK r \in Requests : RaiseDispute(r) \/ ResolveDispute(r)
      BY DEF Next, Serve, ExpiryStep, FundEscrow, PassDeadline, PassWindow, BeginRequest,
             FailRequest, FindExpired, ReadForExpire, ExpireEscrow, ReadForRelease,
             ReleaseMilestone, ReadForRaise, ReadForResolve, ReadForAdmin, ResolveByAdmin,
             ReadForAuto, RunAutomatedResolution, ReadForEvidence, SubmitEvidence,
             Refuse, Proceed
    <2>2. CASE RaiseDispute(r)
      BY <2>2 DEF RaiseDispute, Refuse, NoDispute
    <2>3. CASE ResolveDispute(r)
      <3>1. EscrowUnchanged(r) /\ Resolve("service", request[r].client, request[r].freelancer)
        BY <2>3 DEF ResolveDispute, Refuse
      <3>2. request[r].balance = escrow.balance
        BY <2>3, <3>1 DEF IInv, SeenFits, At, EscrowUnchanged, ResolveDispute
      <3>3. request[r].client + request[r].freelancer = request[r].balance
        BY <2>3 DEF IInv, Checked, ResolveDispute
      <3>4. dispute'.client = request[r].client /\ dispute'.freelancer = request[r].freelancer
        BY <3>1, RowTypes DEF Resolve, DisputeRow
      <3> QED BY <3>2, <3>3, <3>4
    <2> QED BY <2>1, <2>2, <2>3
  <1> QED BY <1>1, RecordsInvariant, PTL DEF Spec, SettlesWhatIsLeft
===============================================================================
