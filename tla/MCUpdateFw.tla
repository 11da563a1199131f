------------------------------ MODULE MCUpdateFw ------------------------------
(***************************************************************************)
(* UpdateFw on a small baseboard for TLC.                                   *)
(***************************************************************************)
EXTENDS UpdateFwRefinement, TLC

CONSTANTS short, long, huge, r1, r2

MCRetimers == {r1, r2}
MCImages == {short, long, huge}

(* short leaves a page of long behind it; huge does not fit the DPRAM.      *)
MCNumPages == short :> 1 @@ long :> 2 @@ huge :> 3

(* What the FPGA may hold at the start: nothing of interest, or short, left *)
(* by an earlier session that failed some retimers and may still be         *)
(* programming others; the engine gives up a retimer when it sets its bit.  *)
MCFpgaInit ==
    /\ \E c \in {Foreign, short} :
          /\ dpram = [p \in Pages |-> c]
          /\ sizeReg = c
          /\ crcReg = c
          /\ eeprom = [r \in Retimers |-> c]
    /\ busy \in SUBSET Retimers
    /\ \E S \in SUBSET (Retimers \ busy) :
          verdict = [r \in Retimers |-> IF r \in S THEN "checksum" ELSE "ok"]
    /\ sizeReg = Foreign => Status = ClearStatus

MCInit == MCFpgaInit /\ UpdateFwInit
MCSpec == MCInit /\ [][Next]_vars
MCFairSpec == MCSpec /\ Fairness

(* A baseboard nobody is programming when the session starts.               *)
MCIdleInit == MCInit /\ busy = {}
MCIdleSpec == MCIdleInit /\ [][Next]_vars

===============================================================================
