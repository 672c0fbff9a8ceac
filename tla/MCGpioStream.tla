---------------------------- MODULE MCGpioStream ----------------------------
EXTENDS GpioStream

CONSTANTS g1, g2

\* Pages are told apart by nothing but their name. Only for runs of invariants
\* and action properties.
PageSymmetry == {[g \in {g1, g2} |-> g],
                 [g \in {g1, g2} |-> IF g = g1 THEN g2 ELSE g1]}

=============================================================================
