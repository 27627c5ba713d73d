------------------------------- MODULE MCEscrow -------------------------------
(***************************************************************************)
(* Instances of the escrow contract for TLC.  Each specification explores  *)
(* one part of the contract in depth; Spec, at smaller bounds, explores    *)
(* all of it.                                                              *)
(***************************************************************************)
EXTENDS EscrowClaims

CONSTANTS s1, s2, s3

UnitWeight == [s \in Approvers |-> 1]
OneHeavySigner == [s \in Approvers |-> IF s = s1 THEN 2 ELSE 1]

DistinctBatches == {<<0>>, <<0, 1>>, <<1, 0>>}
OneBatch == {<<0, 1>>}
SingleBatch == {<<0>>}
RepeatedBatch == {<<0, 0>>}

NoDeadline == {NoTime}
NoTimelock == {NoTime}
SomeTimelock == {NoTime, 1}
SomeLock == {NoTime, 2}

Milestones == FundingStep \/ ReviewStep \/ ReleaseStep

(* Milestones and refunds; nothing depends on time. *)
WorkSpec == Init /\ [][Milestones \/ RefundStep]_vars

(* Disputes, slashes and cancellations, by request and by the client. *)
ConflictSpec ==
  Init /\ [][\/ Milestones \/ DisputeStep \/ CancellationStep \/ CancelEscrow
            \/ SlashStep \/ Tick]_vars

(* Rent, expiry, pause and freeze. *)
ServiceSpec ==
  Init /\ [][Milestones \/ AdminStep \/ RentStep \/ ClosingStep \/ Tick]_vars

(* Ledgers close, a party claims a dispute timeout it may claim, and someone  *)
(* executes a cancellation that is due.  Nobody pauses or freezes.            *)
FairSpec == ConflictSpec /\ WF_vars(Tick) /\ WF_vars(ClaimDisputeTimeout)
                         /\ WF_vars(ExecuteCancellation)
(* The arbiter, the admin and the oracle as well do what they may.  *)
FairResolution ==
  FairSpec /\ WF_vars(\E award \in Awards : ResolveDispute(award))
           /\ WF_vars(\E halves \in 0 .. 2 : OracleResolveDispute(halves))
==============================================================================
