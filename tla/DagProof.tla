------------------------------ MODULE DagProof ------------------------------
(***************************************************************************)
(* The life of an AISeal proof: computeRootsFromFile reads the pages into  *)
(* the accumulators, the sidecar is built and compared with the roots, a   *)
(* challenge selects pages, ProveFiles answers with these pages and their  *)
(* paths, and VerifyBytes, which has the manifest only, accepts or rejects *)
(* what it receives.  On its way the proof may be replaced by another one. *)
(*                                                                         *)
(* A page is its index i, or a page that has the same index and passes     *)
(* verifyPage: Altered(i) with another payload, Retyped(i) with another    *)
(* page type.  Page 0 is the index page and pages 1..model hold the model. *)
(* The digests of the seal are left out: they are computed from what the   *)
(* proof contains, by whoever assembles it.                                *)
(*                                                                         *)
(* ChallengeUnchecked is a faulty version of the definition after it.      *)
(***************************************************************************)
EXTENDS Merkle, FiniteSets

CONSTANTS
  MaxPages,       \* bound: pages of the DAG
  MaxSamples,     \* bound: samples a challenge asks of a tree
  PageSizes,      \* the page sizes a DAG may be generated with
  MaxProofPages,  \* Limits of the verifier: MaxPages (256 by default),
  MaxPageSize,    \*   MaxPageSize (1 MiB)
  MaxProofBytes,  \*   and MaxProofBytes (8 MiB)
  ProofBytes(_, _) \* ProofBytes(q, size): the length of the JSON of proof q, whose
                  \* pages have that size

ASSUME ProofAssumption ==
  /\ MaxPages \in Nat \ {0, 1}
  /\ MaxSamples \in Nat
  /\ PageSizes \subseteq Nat /\ PageSizes # {}
  /\ MaxProofPages \in Nat /\ MaxPageSize \in Nat /\ MaxProofBytes \in Nat
  /\ StackLevels \in Nat
  /\ MaxPages < Pow2[StackLevels]

VARIABLES
  total, model,       \* TotalPages and ModelPageCount of the manifest
  pageSize,           \* its PageSize
  pow, tensor,        \* the accumulators of the two trees
  sidecar,
  phase,
  powWanted,          \* the sample counts of the challenge
  tensorWanted,
  powSamples,         \* the pages drawn for it
  tensorSamples,
  proof,              \* proof[i]: the PageProof of page i
  replaced,           \* what arrives is not what ProveFiles made
  verdict

layout == <<total, model, pageSize>>
trees == <<pow, tensor, sidecar>>
challenge == <<powWanted, tensorWanted>>
samples == <<powSamples, tensorSamples>>
vars == <<layout, trees, phase, challenge, samples, proof, replaced, verdict>>

ModelStart == 1
Pages == 0..total - 1
ModelPages == ModelStart..ModelStart + model - 1

Altered(i) == -1 - 2 * i
Retyped(i) == -2 - 2 * i
\* The pages of the page file.
Dag == [i \in Pages |-> i]

\* The header of a page: its PageIndex, whether its PageType is that of model pages,
\* and its ShardID.
IndexOf(page) == IF page < 0 THEN (-1 - page) \div 2 ELSE page
IsModelPage(page) ==
  IF page < 0 /\ page % 2 = 0 THEN IndexOf(page) \notin ModelPages ELSE IndexOf(page) \in ModelPages
ShardID(page) == IF IsModelPage(page) THEN IndexOf(page) - ModelStart ELSE 0

NoSidecar == [file |-> <<>>, pow |-> <<>>, tensor |-> <<>>]
NoProof == [i \in {} |-> {}]

Init ==
  /\ total \in 2..MaxPages
  /\ model \in 1..total - 1
  /\ pageSize \in PageSizes
  /\ pow = NewAccumulator
  /\ tensor = NewAccumulator
  /\ sidecar = NoSidecar
  /\ phase = "roots"
  /\ powWanted = 0
  /\ tensorWanted = 0
  /\ powSamples = {}
  /\ tensorSamples = {}
  /\ proof = NoProof
  /\ replaced = FALSE
  /\ verdict = "none"

-----------------------------------------------------------------------------
(* The trees *)

\* One turn of the loop of computeRootsFromFile; the page read is pow.count.
ReadPage ==
  /\ phase = "roots"
  /\ pow.count < total
  /\ pow' = AddLeaf("pow", pow, LeafHash("pow", pow.count))
  /\ tensor' = IF pow.count \in ModelPages
               THEN AddLeaf("tensor", tensor, LeafHash("tensor", pow.count))
               ELSE tensor
  /\ UNCHANGED <<layout, sidecar, phase, challenge, samples, proof, replaced, verdict>>

powRoot == AccumulatorRoot("pow", pow)
tensorRoot == AccumulatorRoot("tensor", tensor)

PowLeaves(dag) == [k \in 1..total |-> LeafHash("pow", dag[k - 1])]
TensorLeaves(dag) == [k \in 1..model |-> LeafHash("tensor", dag[ModelStart + k - 1])]

SidecarOf(dag) == Sidecar(PowLeaves(dag), TensorLeaves(dag))

\* buildMerkleSidecarTempFromDAG: an error if its roots are not those of the manifest.
BuildSidecar ==
  /\ phase = "roots"
  /\ pow.count = total
  /\ LET s == SidecarOf(Dag)
     IN IF SidecarRoot(s.file, s.pow) = powRoot /\ SidecarRoot(s.file, s.tensor) = tensorRoot
        THEN sidecar' = s /\ phase' = "ready"
        ELSE phase' = "failed" /\ UNCHANGED sidecar
  /\ UNCHANGED <<layout, pow, tensor, challenge, samples, proof, replaced, verdict>>

-----------------------------------------------------------------------------
(* Challenge and sampling *)

ChallengeUnchecked(p, t) ==
  /\ phase = "ready"
  /\ powWanted' = p
  /\ tensorWanted' = t
  /\ phase' = "sampling"
  /\ UNCHANGED <<layout, trees, samples, proof, replaced, verdict>>

\* The levels of a tree of n leaves: each half as long as the one below, up to one.
LevelsValid(levels, n) ==
  /\ levels # <<>>
  /\ levels[1].count = n
  /\ \A k \in 2..Len(levels) : levels[k].count = (levels[k - 1].count + 1) \div 2
  /\ Last(levels).count = 1

\* openSidecar and validateManifest.
SidecarValid == LevelsValid(sidecar.pow, total) /\ LevelsValid(sidecar.tensor, model)

\* ProveFiles is called with sample counts: refused if none is asked for, or, once the
\* sidecar is open and valid, if more are asked for than there are pages.
Challenge(p, t) ==
  /\ phase = "ready"
  /\ powWanted' = p
  /\ tensorWanted' = t
  /\ phase' = IF p <= 0 THEN "refused"
               ELSE IF ~SidecarValid THEN "failed"
               ELSE IF p > total \/ t > model THEN "refused" ELSE "sampling"
  /\ UNCHANGED <<layout, trees, samples, proof, replaced, verdict>>

\* sampleUnique, first for the PoW pages: the next hash gives a page, which is
\* taken unless it was seen before.
DrawPow ==
  /\ phase = "sampling"
  /\ Cardinality(powSamples) < powWanted
  /\ \E i \in Pages : powSamples' = powSamples \cup {i}
  /\ UNCHANGED <<layout, trees, phase, challenge, tensorSamples, proof, replaced, verdict>>

DrawTensor ==
  /\ phase = "sampling"
  /\ Cardinality(powSamples) >= powWanted
  /\ Cardinality(tensorSamples) < tensorWanted
  /\ \E i \in ModelPages : tensorSamples' = tensorSamples \cup {i}
  /\ UNCHANGED <<layout, trees, phase, challenge, powSamples, proof, replaced, verdict>>

Sampled ==
  /\ Cardinality(powSamples) >= powWanted
  /\ Cardinality(tensorSamples) >= tensorWanted

Required == powSamples \cup tensorSamples

-----------------------------------------------------------------------------
(* The proof *)

PageProof(s, i, page) ==
  [page |-> page,
   powPath |-> SidecarPath(s.file, s.pow, i),
   tensorPath |-> IF i \in tensorSamples
                  THEN SidecarPath(s.file, s.tensor, i - ModelStart)
                  ELSE <<>>]

\* What ProveFiles makes of a page file and the sidecar s, for the pages in required.
ProofOf(s, dag, required) == [i \in required |-> PageProof(s, i, dag[i])]

GenuineProof == ProofOf(sidecar, Dag, Required)

Prove ==
  /\ phase = "sampling"
  /\ Sampled
  /\ proof' = GenuineProof
  /\ phase' = "proved"
  /\ UNCHANGED <<layout, trees, challenge, samples, replaced, verdict>>

\* The page file cannot be read, or the caller gives up.
ProveFails ==
  /\ phase = "sampling"
  /\ phase' = "aborted"
  /\ UNCHANGED <<layout, trees, challenge, samples, proof, replaced, verdict>>

WithAltered(k) == [Dag EXCEPT ![k] = Altered(k)]

\* The proofs that may arrive in its place.  With another page in k's place:
PageReplaced ==
  LET otherPage(k, page) == [proof EXCEPT ![k].page = page]
      otherProof(k, j) == [proof EXCEPT ![k] = PageProof(sidecar, k, j)]
  IN {otherPage(k, Altered(k)) : k \in Required}
       \cup {otherPage(k, Retyped(k)) : k \in Required}
       \cup {otherProof(k, j) : k \in Required, j \in Pages}

\* with the path of another page, or with a path that lacks its last step:
PathReplaced ==
  LET otherPath(k, j) == [proof EXCEPT ![k].powPath = SidecarPath(sidecar.file, sidecar.pow, j)]
      shortPath(k) == [proof EXCEPT ![k].powPath = Front(@)]
  IN {otherPath(k, j) : k \in Required, j \in Pages} \cup {shortPath(k) : k \in Required}

\* made from a DAG that differs in page k, without k, or with one page more.
ProofReplaced ==
  LET alterAll(k) == ProofOf(SidecarOf(WithAltered(k)), WithAltered(k), Required)
      without(k) == [i \in Required \ {k} |-> proof[i]]
      with(j) == ProofOf(sidecar, Dag, Required \cup {j})
  IN {alterAll(k) : k \in Pages} \cup {without(k) : k \in Required} \cup {with(j) : j \in Pages}

Replacements == PageReplaced \cup PathReplaced \cup ProofReplaced

Replace ==
  /\ phase = "proved"
  /\ ~replaced
  /\ proof' \in Replacements \ {proof}
  /\ replaced' = TRUE
  /\ UNCHANGED <<layout, trees, phase, challenge, samples, verdict>>

\* Verify's checks of one page: its header names its place, a tensor sample is a page
\* of the model, and the paths lead from its leaves to the roots of the manifest.
PageAccepted(i, p) ==
  /\ IndexOf(p.page) = i
  /\ VerifyMerkleProof("pow", LeafHash("pow", p.page), i, total, p.powPath, powRoot)
  /\ IF i \in tensorSamples
     THEN /\ IsModelPage(p.page)
          /\ ShardID(p.page) = i - ModelStart
          /\ VerifyMerkleProof("tensor", LeafHash("tensor", p.page), i - ModelStart,
                               model, p.tensorPath, tensorRoot)
     ELSE p.tensorPath = <<>>

\* Verify returns no error.  It draws the samples again: they depend on manifest and
\* seal only.
Verify(q) ==
  /\ pageSize <= MaxPageSize
  /\ Cardinality(DOMAIN q) <= MaxProofPages
  /\ DOMAIN q = Required
  /\ \A i \in Required : PageAccepted(i, q[i])

\* What validators and the command line call.
VerifyBytes ==
  /\ phase = "proved"
  /\ phase' = "verified"
  /\ verdict' = IF ProofBytes(proof, pageSize) <= MaxProofBytes /\ Verify(proof)
                THEN "accepted" ELSE "rejected"
  /\ UNCHANGED <<layout, trees, challenge, samples, proof, replaced>>

Next ==
  \/ ReadPage
  \/ BuildSidecar
  \/ \E p, t \in 0..MaxSamples : Challenge(p, t)
  \/ DrawPow
  \/ DrawTensor
  \/ Prove
  \/ ProveFails
  \/ Replace
  \/ VerifyBytes

Spec == Init /\ [][Next]_vars

\* The prover goes on, and the hashes sooner or later give a page not seen before,
\* as long as there is one.
FairSpec == Spec /\ WF_vars(DrawPow) /\ WF_vars(DrawTensor) /\ WF_vars(Prove)

-----------------------------------------------------------------------------
(* Properties *)

\* After every page the accumulator, which keeps one hash per level, has the root
\* that the tree over all pages so far has by definition; for both trees.
RootsAgree ==
  /\ powRoot = ReferenceRoot("pow", [k \in 1..pow.count |-> LeafHash("pow", k - 1)])
  /\ tensorRoot = ReferenceRoot("tensor", [k \in 1..tensor.count |-> LeafHash("tensor", k)])

\* The sidecar, built level by level, has the roots that the accumulators found in
\* the same pages, and the levels the prover expects: a generated DAG fails neither
\* the generator's comparison nor the prover's.
SidecarMatchesRoots == phase # "failed"

\* The verifier's resource limits, of what ProveFiles has made: neither it nor the
\* generator looks at them.
WithinLimits ==
  /\ pageSize <= MaxPageSize
  /\ Cardinality(Required) <= MaxProofPages
  /\ ProofBytes(GenuineProof, pageSize) <= MaxProofBytes

\* What ProveFiles makes from the sidecar's paths, VerifyBytes accepts, for every
\* number of pages and every sample, if page size, number of pages and length of the
\* proof are within the verifier's limits.
ProofAccepted == phase = "verified" /\ ~replaced /\ WithinLimits => verdict = "accepted"

\* Verify accepts nothing else: not a single page, path or set of pages may differ
\* from what ProveFiles makes of the committed DAG.
AcceptedIsGenuine == verdict = "accepted" => proof = GenuineProof

\* Sampling ends, also when as many pages are asked for as there are.
SamplingEnds == phase = "sampling" ~> phase # "sampling"
=============================================================================
