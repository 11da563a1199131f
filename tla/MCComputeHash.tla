----------------------------- MODULE MCComputeHash -----------------------------
(***************************************************************************)
(* ComputeHash for TLC: two retimers with different firmware, a DPRAM of    *)
(* two pages that holds neither at the start, an FPGA left in any state.    *)
(***************************************************************************)
EXTENDS ComputeHash, TLC

CONSTANTS r1, r2, c1, c2, zero

MCRetimers == {r1, r2}
MCContents == {c1, c2, zero}

MCInit ==
    /\ Init
    /\ dpram = BlankMemory
    /\ eeprom = (r1 :> c1 @@ r2 :> c2)
MCSpec == MCInit /\ [][Next]_vars
MCFairSpec == MCSpec /\ Fairness

===============================================================================
