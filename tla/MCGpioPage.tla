---------------------------- MODULE MCGpioPage ----------------------------
EXTENDS GpioPage, TLC

\* No property tells one pin from another.
Symmetry == Permutations(Pins)

=============================================================================
