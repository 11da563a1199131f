----------------------------- MODULE UpdateSession -----------------------------
(***************************************************************************)
(* What a session of updateRetimerFw promises to the one who started it and *)
(* reads its journal and its exit status, without the I2C transactions, the *)
(* DPRAM, the polls and the attempts: the operations are concluded one      *)
(* after the other, each with one conclusion per retimer that is never      *)
(* taken back, and an EEPROM changes while its operation is programmed or   *)
(* not at all.                                                              *)
(*                                                                          *)
(* stray are the retimers the FPGA may be programming with nobody watching: *)
(* of these nothing is promised, and with them around less is of others.    *)
(***************************************************************************)
EXTENDS Naturals, Sequences

CONSTANTS Retimers, Images

VARIABLES
    stage,    \* "planning", "transfer", "programming" or "over"
    ops,      \* the image and the retimers of each operation
    outcome,  \* the conclusion about each retimer of the operations done
    erred,    \* the operations that ended in a transport error
    status,   \* the exit status, when the stage is "over"
    stray,
    eeprom

vars == <<stage, ops, outcome, erred, status, stray, eeprom>>

uo == Len(outcome) + 1
Apply == ops[uo].apply
Image == ops[uo].img

AllSuccessful ==
    \A o \in DOMAIN outcome : \A r \in DOMAIN outcome[o] :
        outcome[o][r] = "UpdateSuccessful"

Init ==
    /\ stage = "planning"
    /\ ops = <<>>
    /\ outcome = <<>>
    /\ erred = {}
    /\ status = 0
    /\ stray \subseteq Retimers
    /\ DOMAIN eeprom = Retimers

(* What an EEPROM may do in a step that is about the retimers of S.         *)
Touches(S) ==
    /\ stray \subseteq stray'
    /\ DOMAIN eeprom' = Retimers
    /\ \A r \in Retimers \ (S \cup stray') : eeprom'[r] = eeprom[r]

(* The session ends before it has a plan, whatever its exit status.         *)
GiveUp ==
    /\ stage = "planning"
    /\ stage' = "over"
    /\ status' \in 0..255
    /\ Touches({})
    /\ UNCHANGED <<ops, outcome, erred, stray>>

(* No retimer is in the plan twice.                                         *)
Plan ==
    /\ stage = "planning"
    /\ stage' = "transfer"
    /\ ops' \in Seq([img : Images, apply : SUBSET Retimers])
    /\ \A i, j \in DOMAIN ops' : i # j => ops'[i].apply \cap ops'[j].apply = {}
    /\ Touches({})
    /\ UNCHANGED <<outcome, erred, status, stray>>

(* The image is not transferred, or there is nobody to transfer it to.      *)
FailTransfer ==
    /\ stage = "transfer"
    /\ uo <= Len(ops)
    /\ outcome' = Append(outcome, [r \in Apply |-> "TransferFailed"])
    /\ Touches({})
    /\ UNCHANGED <<stage, ops, erred, status, stray>>

Begin ==
    /\ stage = "transfer"
    /\ uo <= Len(ops)
    /\ Apply # {}
    /\ stage' = "programming"
    /\ Touches({})
    /\ UNCHANGED <<ops, outcome, erred, status, stray>>

(* The retimers of the operations so far, the one under way included.       *)
Begun == UNION {ops[o].apply : o \in 1..uo}

(* Some EEPROMs of the operation change; the session may lose track of a    *)
(* retimer.  Once it has, the FPGA may still report the failures of an      *)
(* operation that is over, and the session programs their retimers again,   *)
(* with the image of the operation under way.                               *)
Program ==
    /\ stage = "programming"
    /\ Touches(IF stray = {} THEN Apply ELSE Begun)
    /\ UNCHANGED <<stage, ops, outcome, erred, status>>

(* The retimers nobody watches go on in any stage.                          *)
Stray ==
    /\ Touches({})
    /\ UNCHANGED <<stage, ops, outcome, erred, status, stray>>

ConcludeWith(result) ==
    /\ stage' = "transfer"
    /\ outcome' = Append(outcome, result)
    /\ Touches({})
    /\ UNCHANGED <<ops, status>>

(* With no stray retimer the conclusions are true.                          *)
Conclude ==
    /\ stage = "programming"
    /\ \E result \in [Apply -> {"UpdateSuccessful", "ApplyFailed"}] :
          /\ ConcludeWith(result)
          /\ stray = {} => \A r \in Apply :
                result[r] = "UpdateSuccessful" <=> eeprom[r] = Image
    /\ UNCHANGED <<erred, stray>>

(* A transport error leaves the state of the retimers unknown.              *)
ConcludeInError ==
    /\ stage = "programming"
    /\ \E result \in [Apply -> {"UpdateSuccessful", "ApplyFailed"}] :
          ConcludeWith(result)
    /\ erred' = erred \cup {uo}

(* Exit status 0 says that every conclusion was a success, and any other    *)
(* that one was not or could not be told.                                   *)
End ==
    /\ stage = "transfer"
    /\ uo > Len(ops)
    /\ stage' = "over"
    /\ status' \in 0..255
    /\ status' = 0 => AllSuccessful
    /\ AllSuccessful /\ erred = {} /\ stray = {} => status' = 0
    /\ Touches({})
    /\ UNCHANGED <<ops, outcome, erred, stray>>

Next ==
    \/ GiveUp \/ Plan
    \/ FailTransfer \/ Begin \/ Program \/ Conclude \/ ConcludeInError
    \/ End \/ Stray

Spec == Init /\ [][Next]_vars

===============================================================================
