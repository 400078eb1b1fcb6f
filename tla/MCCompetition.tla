---------------------------- MODULE MCCompetition ----------------------------
(***************************************************************************)
(* Competition for TLC: four validators, two jobs, work hashes of two      *)
(* bytes with three bits each.                                             *)
(***************************************************************************)
EXTENDS Competition, TLC

\* All miners tie; or miner 2 wins, miner 3 meets every difficulty but 5 and
\* miner 4 only the lowest.
MCLuck == {<<<<0, 1>>, <<0, 1>>, <<0, 1>>, <<0, 1>>>>,
           <<<<0, 1>>, <<0, 0>>, <<0, 2>>, <<2, 0>>>>}

\* A whole byte, more than a byte, and no difficulty but every proof.
MCPolicies ==
  {[difficulty |-> d, manifest |-> 1, samples |-> 0, zkml |-> FALSE, sound |-> TRUE] : d \in {3, 5}}
    \cup {[difficulty |-> 0, manifest |-> 1, samples |-> 1, zkml |-> TRUE, sound |-> TRUE]}

MCEndpoints == {[m \in Nodes |-> m], [m \in Nodes |-> IF m = 4 THEN 3 ELSE m]}
MCOrders == {<<1, 2, 3, 4>>, <<4, 3, 2, 1>>}
=============================================================================
