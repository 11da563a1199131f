------------------------------ MODULE MCSharedFpga ------------------------------
(***************************************************************************)
(* SharedFpga for TLC: a session that has parsed an image of one component, *)
(* for the one retimer, and is about to begin; the component is of one      *)
(* page, the blank image of two.                                            *)
(***************************************************************************)
EXTENDS SharedFpga, TLC

CONSTANTS img, zero, r1

MCRetimers == {r1}
MCImages == {img, zero}
MCNumPages == img :> 1 @@ zero :> 2

(* Nobody is programming or reading, and the DPRAM is of no interest.       *)
MCInit ==
    /\ dpram = [p \in Pages |-> Foreign]
    /\ sizeReg = Foreign
    /\ crcReg = Foreign
    /\ eeprom = [r \in Retimers |-> Foreign]
    /\ busy = {}
    /\ verdict = [r \in Retimers |-> "ok"]
    /\ pc = "next_op"
    /\ target = Retimers
    /\ ops = <<[img |-> img, apply |-> Retimers]>>
    /\ uo = 1
    /\ page = 0
    /\ todo = {}
    /\ attempt = 0
    /\ timeout = 0
    /\ rb = ClearStatus
    /\ notUpdated = Retimers
    /\ ret = "OK"
    /\ firstErr = "OK"
    /\ log = {}
    /\ adrift = {}
    /\ stale = {}
    /\ erred = {}
    /\ reading = NoRetimer
    /\ filled = 0
    /\ nack = {}
    /\ Hash!Init
    /\ disturbed = {}
    /\ spoilt = {}

(* Bound: one hash request.  A second one of this service does to the FPGA  *)
(* what the first does, and to its digest what ComputeHash checks.          *)
MCNext == UpdateStep \/ (signal = NoSignal /\ GetHash) \/ HashStep \/ FinishHash

MCSpec == MCInit /\ [][MCNext]_sharedVars

===============================================================================
