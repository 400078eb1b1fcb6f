------------------------------ MODULE MCRound -------------------------------
(***************************************************************************)
(* Instances of Round for TLC: four validators; a1 and b1 compete at       *)
(* height 1, a2 extends a1.  The proposers are v1 (of a1) and v2.          *)
(***************************************************************************)
EXTENDS Round

CONSTANTS v1, v2, a1, b1, a2

MCHeight == [b \in Blocks |-> IF b = a2 THEN 2 ELSE 1]
MCParent == [b \in Blocks |-> IF b = a2 THEN a1 ELSE GenesisHash]
MCProposer == [b \in Blocks |-> IF b = a1 THEN v1 ELSE v2]

\* pending is written but never read by a guard.
ViewWithoutPending ==
  <<height, tipHash, blocks, voted, lockedHeight, lockedHash, votes, ledger, roundVars>>
=============================================================================
