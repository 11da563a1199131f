-------------------------------- MODULE ReadCli --------------------------------
(***************************************************************************)
(* updateRetimerFw <bus> <retimer> <file> 1, the READ command of main() in   *)
(* updateRetimerMain.c: one retimer's firmware into /tmp/Dummyfile.          *)
(*                                                                          *)
(* The file outlives the process, is never removed and never truncated to    *)
(* nothing, so this is a succession of runs, one at a time, of which any     *)
(* may be killed anywhere.  rpc is "idle" between them.                      *)
(***************************************************************************)
EXTENDS ReadFw

CONSTANT ReadArgs   \* the retimer arguments given on the command lines

(* The nibble of the argument that readRetimerfw() puts in the trigger.     *)
Named(arg) == arg % 16

(* checkDigit_retimer() lets 0 to 255 through.  What the FPGA does when the *)
(* nibble is not a retimer is not known: such arguments are left out.       *)
ASSUME ReadCliAssumption ==
    /\ Retimers \subseteq 0..7
    /\ ReadArgs \subseteq {arg \in 0..255 : Named(arg) \in Retimers}

VARIABLES
    ret,      \* of the run under way or the last one: "OK", "FAILED", or
              \* "KILLED" if there is no exit status
    asked,    \* its retimer argument
    excuse,   \* history: what went wrong in it that ret does not tell
    genuine   \* history: the retimer whose firmware was last read into the
              \* file without any excuse, or NoRetimer

cliVars == <<ret, asked, excuse, genuine>>
vars == <<readerVars, readVars, cliVars>>

Excuses == {"not a retimer", "no file", "gave up", "dropped", "short write"}

Init ==
    /\ ReaderInit
    /\ ReadFwInit
    /\ ret = "KILLED"
    /\ asked \in ReadArgs
    /\ excuse = {}
    /\ genuine = NoRetimer

-------------------------------------------------------------------------------

(* Arguments and bus are good.                                              *)
StartRun ==
    /\ rpc = "idle"
    /\ asked' \in ReadArgs
    /\ rt' = Named(asked')
    /\ ret' = "OK"
    /\ excuse' = IF asked' \in Retimers THEN {} ELSE {"not a retimer"}
    /\ rpc' = "open"
    /\ UNCHANGED <<readerVars, file, dummyfd, buf, page, loopVars, taken, sound,
                   genuine>>

(* The arguments are refused, or the bus cannot be opened.                  *)
StartFails ==
    /\ rpc = "idle"
    /\ asked' \in ReadArgs
    /\ rt' = Named(asked')
    /\ ret' = "FAILED"
    /\ excuse' = {}
    /\ UNCHANGED <<readerVars, rpc, file, dummyfd, buf, page, loopVars, taken,
                   sound, genuine>>

(* open() or ftruncate() of the file fails: ret is not assigned.            *)
NoDummyFile ==
    /\ OpenFails \/ TruncateFails
    /\ excuse' = excuse \cup {"no file"}
    /\ UNCHANGED <<ret, asked, genuine>>

(* Mutant: what copyImageFromFpga() returns is not looked at.               *)
StepFailsUnlessCopyOut ==
    /\ LoadFails \/ CopyInFails \/ TriggerReadFails \/ PollReadFails \/ CopyOutFails
    /\ ret' = IF rpc = "copy_out" THEN ret ELSE "FAILED"
    /\ UNCHANGED <<asked, excuse, genuine>>

(* One of the three functions returns an error.                             *)
StepFails ==
    /\ LoadFails \/ CopyInFails \/ TriggerReadFails \/ PollReadFails \/ CopyOutFails
    /\ ret' = "FAILED"
    /\ UNCHANGED <<asked, excuse, genuine>>

(* The rest of the three functions, none of which changes ret.              *)
StepDone ==
    \/ /\ \/ OpenFile \/ LoadFile \/ CopyInPage \/ CopyInRegister
          \/ TriggerRead \/ PollRead \/ PollReadTimesOut \/ ReadAgain
          \/ CopyOutPage
       /\ UNCHANGED cliVars
    \/ /\ ReadComplete
       /\ excuse' = IF taken = rt THEN excuse ELSE excuse \cup {"dropped"}
       /\ UNCHANGED <<ret, asked, genuine>>
    \/ /\ ReadGivesUp
       /\ excuse' = excuse \cup {"gave up"}
       /\ UNCHANGED <<ret, asked, genuine>>
    \/ /\ WriteFile
       /\ excuse' = IF sound' = sound THEN excuse ELSE excuse \cup {"short write"}
       /\ genuine' = sound'
       /\ UNCHANGED <<ret, asked>>

(* The label exit: the descriptors are closed, the file stays.              *)
Exit ==
    /\ rpc \in {"done", "failed"}
    /\ dummyfd' = "none"
    /\ sound' = NoRetimer
    /\ rpc' = "idle"
    /\ UNCHANGED <<readerVars, rt, file, buf, page, loopVars, taken, cliVars>>

(* The process is killed: the file is left as it is.                        *)
Kill ==
    /\ rpc # "idle"
    /\ rpc' = "idle"
    /\ ret' = "KILLED"
    /\ dummyfd' = "none"
    /\ buf' = BlankMemory
    /\ page' = 0
    /\ attempt' = 0
    /\ timeout' = 0
    /\ rsp' = {}
    /\ taken' = NoRetimer
    /\ sound' = NoRetimer
    /\ UNCHANGED <<readerVars, rt, file, asked, excuse, genuine>>

Engine == ReaderStep /\ UNCHANGED <<readVars, cliVars>>

Next ==
    \/ StartRun \/ StartFails
    \/ NoDummyFile \/ StepFails \/ StepDone
    \/ Exit \/ Kill
    \/ Engine

(* The process is scheduled and its calls return, but none has to fail;     *)
(* nobody has to start it, and the FPGA need not do anything.               *)
Fairness == WF_vars(StepDone \/ Exit)

Spec == Init /\ [][Next]_vars
FairSpec == Spec /\ Fairness

-------------------------------------------------------------------------------
(* Properties.                                                              *)

(* Types, and the bounds of the loops.                                      *)
TypeOK ==
    /\ ReaderTypeOK
    /\ ReadFwTypeOK
    /\ ret \in {"OK", "FAILED", "KILLED"}
    /\ asked \in ReadArgs
    /\ excuse \in SUBSET Excuses
    /\ genuine \in Retimers \cup {NoRetimer}

(* The file keeps the firmware of the retimer last read into it without any *)
(* excuse, whatever runs fail or are killed afterwards: a run changes it by *)
(* its final write() only, although it opens it for writing at the start.   *)
FileGenuine == genuine # NoRetimer => file = [p \in Pages |-> eeprom[genuine]]

(* A run that ends with exit status 0 leaves the firmware of the retimer it *)
(* was asked for in the file, but for the five ways, named in Excuses, in   *)
(* which ret stays 0: an argument above 15 taken modulo 16, a file that     *)
(* cannot be opened or sized, a NACK or timeout of the last attempt, a      *)
(* trigger the FPGA did not take, and a short write().                      *)
ExitZeroMeansRead ==
    rpc = "idle" /\ ret = "OK" /\ excuse = {} =>
        file = [p \in Pages |-> eeprom[asked]]

(* A run comes to an end even if the FPGA hangs.                            *)
RunEnds == rpc = "open" ~> rpc = "idle"

(* "Create and Pass dummy blank FILE of 256KB to clear DPRAM before reading *)
(* content from Retimer": what is copied into the DPRAM first is blank.     *)
BlankClearsDpram == rpc = "copy_in" => buf = BlankMemory

===============================================================================
