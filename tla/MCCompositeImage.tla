--------------------------- MODULE MCCompositeImage ---------------------------
(***************************************************************************)
(* CompositeImage for TLC: two retimers, one bit of the bitmap that is no   *)
(* retimer, up to three components and a size_t of four bits, in which the  *)
(* sum of an offset and an image length does overflow.                      *)
(***************************************************************************)
EXTENDS CompositeImage, TLC

CONSTANTS r1, r2, other

MCRetimers == {r1, r2}
MCBits == {r1, r2, other}
Symmetry == Permutations(MCRetimers)

===============================================================================
