-------------------------- MODULE UpdateFwRefinement --------------------------
(***************************************************************************)
(* UpdateFw implements UpdateSession.                                       *)
(***************************************************************************)
EXTENDS UpdateFw

(* The journal entry that concludes a retimer of an operation.              *)
Conclusion(o, r) == CHOOSE m \in Conclusions : Reported(o, m, r)

stage ==
    CASE pc \in {"setup", "load"} -> "planning"
      [] pc \in {"trigger", "poll", "check"} -> "programming"
      [] pc = "exit" -> "over"
      [] OTHER -> "transfer"

outcome == [o \in 1..(uo - 1) |-> [r \in ops[o].apply |-> Conclusion(o, r)]]

(* Besides the retimers adrift, the FPGA may be made to program those whose *)
(* stale error bits the retry takes for the operation's own.                *)
Session == INSTANCE UpdateSession WITH
    status <- IF pc = "exit" THEN ExitStatus(ret) ELSE 0,
    stray <- adrift \cup stale

(* A session behaves as UpdateSession promises, whatever fails on the way   *)
(* and wherever the FPGA's engine moves in between: conclusions come in the *)
(* order of the operations and are never revised, no EEPROM changes while   *)
(* an image is copied, and the exit status agrees with the conclusions.     *)
ImplementsSession == Session!Spec

===============================================================================
