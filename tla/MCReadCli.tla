------------------------------- MODULE MCReadCli -------------------------------
(***************************************************************************)
(* ReadCli for TLC: retimers 0 and 1 with different firmware, no file yet,  *)
(* a DPRAM that holds neither, an FPGA left in any state.                   *)
(***************************************************************************)
EXTENDS ReadCli, TLC

CONSTANTS c1, c2, zero

MCRetimers == {0, 1}
MCContents == {c1, c2, zero}

(* 16 is beyond the four bits of the trigger.                               *)
MCReadArgs == {0, 1, 16}

MCInit ==
    /\ Init
    /\ dpram = BlankMemory
    /\ eeprom = (0 :> c1 @@ 1 :> c2)
MCSpec == MCInit /\ [][Next]_vars
MCFairSpec == MCSpec /\ Fairness

===============================================================================
