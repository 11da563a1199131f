------------------------------ MODULE MCRtManager ------------------------------
(***************************************************************************)
(* RtManager for TLC: every file of up to three entries of two indexes.     *)
(***************************************************************************)
EXTENDS RtManager

CONSTANTS x1, x2

MCIndexes == {x1, x2}

(* 257 does not fit a byte.                                                  *)
MCNumbers == {3, 257}

===============================================================================
