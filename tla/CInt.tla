------------------------------- MODULE CInt -------------------------------
(***************************************************************************)
(* The numbers of request bodies. The handlers cast the long that          *)
(* mg_json_get_long returns to an int before they check it, so a number    *)
(* outside the range of an int is taken for another one inside.            *)
(***************************************************************************)
EXTENDS Integers

CONSTANT IntHalf   \* an int is one of -IntHalf .. IntHalf - 1, 2^31 in C

ASSUME IntHalfAssumption == IntHalf \in Nat \ {0}

ToInt(n) == ((n + IntHalf) % (2 * IntHalf)) - IntHalf

=============================================================================
