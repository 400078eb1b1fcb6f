----------------------------- MODULE MCHotStuff -----------------------------
(***************************************************************************)
(* Instances of HotStuff for TLC: four validators (the devnet), two        *)
(* competing blocks at height 1, or two competing blocks on top of one.    *)
(***************************************************************************)
EXTENDS HotStuff, TLC

CONSTANTS
  a1, b1, a2, b2,  \* block hashes
  Laggards         \* validators that have missed all of height 1 so far

\* Two blocks at height 1, and two children of a1 at height 2.
MCHeight == [b \in Blocks |-> IF b \in {a1, b1} THEN 1 ELSE 2]
MCParent == [b \in Blocks |-> IF b \in {a1, b1} THEN GenesisHash ELSE a1]

\* A reachable state to start the height-2 run from: the validators of S have
\* voted for a1 in every phase and are locked on it, the others have handled
\* nothing of height 1 yet (their requests are still under way), and the
\* validators of F have received the commit QC.
AtHeightOne(S, F) ==
  /\ height = [r \in Validators |-> IF r \in F THEN 1 ELSE 0]
  /\ tipHash = [r \in Validators |-> IF r \in F THEN a1 ELSE GenesisHash]
  /\ blocks = [r \in Validators |-> IF r \in F THEN <<a1>> ELSE <<>>]
  /\ pending = [r \in Validators |-> IF r \in S \ F THEN {a1} ELSE {}]
  /\ voted = [r \in Validators |-> [h \in Heights |-> [p \in Phases |->
                IF r \in S /\ h = 1 THEN a1 ELSE NoHash]]]
  /\ lockedHeight = [r \in Validators |-> IF r \in S THEN 1 ELSE 0]
  /\ lockedHash = [r \in Validators |-> IF r \in S THEN a1 ELSE NoHash]
  /\ votes = [p \in Phases |-> [b \in Blocks |-> IF b = a1 THEN S ELSE {}]]
  /\ ledger = <<a1>>

InitAtHeightOne ==
  AtHeightOne(Validators \ Laggards, Validators \ Laggards)

SpecAtHeightOne == InitAtHeightOne /\ [][Next]_vars

\* Validators that neither restart nor lag are interchangeable.
ValidatorSymmetry == Permutations(Validators \ (Restarters \cup Laggards))

\* pending is written but never read by a guard: states that differ only in it
\* have the same behaviours in every other variable.
ViewWithoutPending == <<height, tipHash, blocks, voted, lockedHeight, lockedHash, votes, ledger>>
=============================================================================
