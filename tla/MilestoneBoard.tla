---------------------------- MODULE MilestoneBoard ----------------------------
(***************************************************************************)
(* What an escrow promises about its milestones, without counters, money   *)
(* or time: milestones move along these edges only, a released one never   *)
(* changes, and a working escrow is complete exactly when a look at the    *)
(* whole board finds every milestone released.  The contract keeps         *)
(* counters instead of looking (the comment above EscrowMeta in lib.rs).   *)
(*                                                                         *)
(* The edges are those of the code.  docs/milestone-state-machine.md       *)
(* knows no Released, calls Approved terminal (113) and lets no escrow be  *)
(* cancelled over submitted or approved work (240): EscrowClaims.          *)
(***************************************************************************)
EXTENDS Integers

CONSTANT Ids

VARIABLES
  board,      \* [Ids -> status], "None" where there is no milestone
  phase       \* "none", "working", "complete", "aside" or "erased"

Edges == {<<"None", "Pending">>,
          <<"Pending", "Submitted">>, <<"Rejected", "Submitted">>,
          <<"Submitted", "Rejected">>, <<"Submitted", "Approved">>,
          <<"Submitted", "Released">>, <<"Approved", "Released">>,
          <<"Pending", "Released">>,
          <<"Pending", "Disputed">>, <<"Submitted", "Disputed">>}

Follows(edges) ==
  \A i \in Ids : board'[i] = board[i] \/ <<board[i], board'[i]>> \in edges

Finished(b) == /\ \E i \in Ids : b[i] # "None"
               /\ \A i \in Ids : b[i] \in {"None", "Released"}

Init == board = [i \in Ids |-> "None"] /\ phase = "none"

Open == phase = "none" /\ phase' = "working" /\ UNCHANGED board

(* Work on the milestones; the look at the board decides. *)
Progress ==
  /\ phase = "working"
  /\ Follows(Edges)
  /\ phase' = IF Finished(board') THEN "complete" ELSE "working"

(* A dispute, a cancellation or an expiry takes the escrow out of work,  *)
(* whatever its milestones are.                                          *)
SetAside ==
  /\ phase = "working" /\ phase' = "aside"
  /\ Follows({e \in Edges : e[2] = "Disputed"})

(* Once out of work nothing new is approved: work is still handed in, and *)
(* what was approved is still paid.                                       *)
Aftermath ==
  /\ phase \in {"aside", "complete"} /\ phase' \in {"aside", "complete"}
  /\ Follows({e \in Edges : e[2] = "Submitted" \/ e = <<"Approved", "Released">>})

Erase ==
  /\ phase # "none" /\ phase' = "erased"
  /\ board' = [i \in Ids |-> "None"]

Next == Open \/ Progress \/ SetAside \/ Aftermath \/ Erase

Spec == Init /\ [][Next]_<<board, phase>>
==============================================================================
