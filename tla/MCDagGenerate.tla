--------------------------- MODULE MCDagGenerate ----------------------------
\* Instances of DagGenerate for TLC: the constants are plain values, given in the
\* configuration.
EXTENDS DagGenerate
=============================================================================
