------------------------- MODULE MCControllerPeers -------------------------
\* Model-checking instance of ControllerPeers.
EXTENDS ControllerPeers

\* No definition distinguishes two units other than the first.
Symmetry == Permutations(Units \ {First})
=============================================================================
