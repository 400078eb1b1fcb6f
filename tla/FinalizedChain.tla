--------------------------- MODULE FinalizedChain ---------------------------
(***************************************************************************)
(* What finality promises to the users of the devnet, with no vote, phase  *)
(* or quorum in sight: there is one chain of decided blocks, it only ever  *)
(* grows at its end, and every validator holds a prefix of it.  A          *)
(* validator moves along the chain one block at a time; only one that has  *)
(* all of it can decide the next block; one that restarts forgets what it  *)
(* held but the decision stands.                                           *)
(***************************************************************************)
EXTENDS Integers, Sequences

CONSTANTS Validators, Restarters, Blocks, Height, ParentHash, GenesisHash

VARIABLES
  decided,   \* the decided chain
  chain      \* chain[r]: what validator r holds of it

chainVars == <<decided, chain>>

LastHash(s) == IF s = <<>> THEN GenesisHash ELSE s[Len(s)]

Init == decided = <<>> /\ chain = [r \in Validators |-> <<>>]

\* r learns the block that was decided after the last one it holds.
Adopt(r) ==
  /\ Len(chain[r]) < Len(decided)
  /\ chain' = [chain EXCEPT ![r] = Append(@, decided[Len(@) + 1])]
  /\ UNCHANGED decided

\* r holds the whole chain and is the first to finalize a block on top of it.
Decide(r, b) ==
  /\ chain[r] = decided
  /\ Height[b] = Len(decided) + 1
  /\ ParentHash[b] = LastHash(decided)
  /\ decided' = Append(decided, b)
  /\ chain' = [chain EXCEPT ![r] = decided']

Forget(r) ==
  /\ chain' = [chain EXCEPT ![r] = <<>>]
  /\ UNCHANGED decided

Next ==
  \/ \E r \in Validators : Adopt(r) \/ \E b \in Blocks : Decide(r, b)
  \/ \E r \in Restarters : Forget(r)

Spec == Init /\ [][Next]_chainVars
=============================================================================
