------------------------- MODULE MCAuthKeyRotation -------------------------
\* Model-checking instance of AuthKeyRotation.
EXTENDS AuthKeyRotation, TLC

\* No definition distinguishes two controllers, or two consumers.
Symmetry == Permutations(Controllers) \cup Permutations(Consumers)
=============================================================================
