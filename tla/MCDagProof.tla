----------------------------- MODULE MCDagProof -----------------------------
\* Instances of DagProof for TLC: the constants are numbers, given in the
\* configuration, except the length of a proof's JSON.
EXTENDS DagProof

\* Version and seal; for each page its index and names, its bytes in hex and a side
\* and 32 bytes in hex for each step of its paths.
SealBytes == 1300
PageBytes(p, size) == 50 + 2 * size + 93 * (Len(p.powPath) + Len(p.tensorPath))

MCProofBytes(q, size) == SealBytes + MapThenSumSet(LAMBDA i : PageBytes(q[i], size), DOMAIN q)
=============================================================================
