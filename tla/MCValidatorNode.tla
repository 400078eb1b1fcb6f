--------------------------- MODULE MCValidatorNode --------------------------
\* Instances of ValidatorNode for TLC: the constants are plain values, given in
\* the configurations.
EXTENDS ValidatorNode
=============================================================================
