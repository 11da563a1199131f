------------------------------- MODULE UpdateFw -------------------------------
(***************************************************************************)
(* One run of  updateRetimerFw <bus> <bitmap> <image> 0 <version>  against   *)
(* the FPGA: main() of updateRetimerMain.c with copyImageFromMemToFpga() and *)
(* startRetimerFwUpdate() of updateRetimerFwOverI2C.c.                       *)
(*                                                                          *)
(* Every I2C transaction is a step of its own, which may fail, and between  *)
(* any two of them the FPGA's programming engine may move.  FpgaInit leaves *)
(* the FPGA in any state, so a run that follows a killed one is included.   *)
(***************************************************************************)
EXTENDS FpgaDevice, Sequences

CONSTANTS
    MaxTimeoutSec,        \* MAX_TIMEOUT_SEC: polls of one attempt (60)
    MaxUpdateRetryCount,  \* MAX_UPDATE_RETRYCOUNT: attempts per operation (2)
    MaxOps                \* RETIMER_MAX_NUM: components of an image (8)

ASSUME UpdateFwAssumption ==
    /\ MaxTimeoutSec \in Nat \ {0}
    /\ MaxUpdateRetryCount \in Nat \ {0}
    /\ MaxOps \in Nat

VARIABLES
    pc,          \* where main() is
    target,      \* retimerToUpdate, the bitmap of the command line
    ops,         \* update_ops: the image and applyBitmap of each component
    uo,          \* the index of the operation under way (from 1)
    page,        \* the page loop of copyImageFromMemToFpga()
    todo,        \* retimerNumber of startRetimerFwUpdate()
    attempt,     \* its updateRetryCount
    timeout,     \* its timeout
    rb,          \* its read_buffer
    notUpdated,  \* retimerNotUpdated of main()
    ret,         \* ret of main(), as the name of the error
    firstErr,    \* updateFirstErrRet
    log,         \* the messages main() logs of images, transfers and results;
                 \* left out: TargetDetermined, AwaitToActivate, and those
                 \* startRetimerFwUpdate() logs of a single attempt
    adrift,      \* history: retimers the FPGA may be programming unwatched
    stale,       \* history: retimers an earlier session left with an error bit
                 \* in the status register of an FPGA that was still busy
    erred        \* history: operations that ended in a transport error

startVars == <<todo, attempt, timeout, rb>>
mainVars == <<pc, target, stale, ops, uo, page, startVars, notUpdated, ret,
              firstErr, log, adrift, erred>>
vars == <<fpgaVars, mainVars>>

OpIndex == 1..MaxOps
Op == [img : Images, apply : SUBSET Retimers]

(* The return codes and their magnitude; the code returns them negated.  A  *)
(* NACK or checksum failure returns -0x200, -0x300 or -0x400 ORed with the  *)
(* non-empty bitmap of the failed retimers: 0x1FF stands for all of these.  *)
Code == [OK |-> 0, INPUT_ARGUMENTS |-> 100, INPUT_I2C_ARGUMENT |-> 101,
         OPEN_FIRMWARE |-> 105, WRONG_FIRMWARE |-> 106, WRONG_CRC32 |-> 107,
         MALLOC_FAILURE |-> 108, OPEN_I2C_DEVICE |-> 109, IOCTL_I2C |-> 110,
         RETIMER_STATUS |-> 511, HEADER_CORRUPT |-> 1280,
         IMAGE_REJECTED |-> 1281]

SetupErrors == {"INPUT_ARGUMENTS", "INPUT_I2C_ARGUMENT", "OPEN_I2C_DEVICE"}

(* What parseCompositeImage() may return.  IMAGE_REJECTED stands for the    *)
(* codes 0x501 to 0x508, whose low byte is not 0.                           *)
ParseErrors == {"MALLOC_FAILURE", "WRONG_CRC32", "HEADER_CORRUPT",
                "IMAGE_REJECTED"}

(* The exit status the parent of the process sees: the low byte of -code.   *)
ExitStatus(c) == (256 - (Code[c] % 256)) % 256

(* The operations parseCompositeImage() accepts: no retimer is in the       *)
(* bitmaps of two components, and none is outside the platform's.           *)
ParsedOps ==
    UNION {{s \in [1..n -> Op] :
               \A i, j \in 1..n : i # j => s[i].apply \cap s[j].apply = {}}
           : n \in 0..MaxOps}

(* Mutant: the bitmaps of the image are taken as they are.                  *)
TargetedAll(parsed, T) == parsed

(* update_ops[uo].applyBitmap &= retimerToUpdate, for every operation.      *)
Targeted(parsed, T) ==
    [i \in DOMAIN parsed |-> [parsed[i] EXCEPT !.apply = @ \cap T]]

Messages == {"TransferringToComponent", "UpdateSuccessful", "ApplyFailed",
             "TransferFailed", "VerificationFailed"}

(* An event of the journal; operation 0 is the loading of the image file.   *)
Event == [op : 0..MaxOps, msg : Messages, rt : Retimers]

(* prepareMessageRegistry(): one event for each retimer of the bitmap.      *)
Logged(o, msg, S) == {[op |-> o, msg |-> msg, rt |-> r] : r \in S}

Reported(o, msg, r) == [op |-> o, msg |-> msg, rt |-> r] \in log

Apply == ops[uo].apply
Image == ops[uo].img

(* Mutant: the loop ends before the last page if that page is not full.     *)
PageCountTruncated == NumPages[Image] - 1

(* The pages the loop of copyImageFromMemToFpga() writes, the last one      *)
(* possibly in part.                                                        *)
PageCount == NumPages[Image]

(* An idle FPGA clears the error bits with the next trigger it takes; a busy *)
(* one drops triggers, so that bits of an earlier session may outlast one.  *)
StaleBits ==
    IF busy = {} THEN {} ELSE {r \in Retimers : verdict[r] # "ok"}

UpdateFwInit ==
    /\ pc = "setup"
    /\ target \in SUBSET Retimers
    /\ ops = <<>>
    /\ uo = 1
    /\ page = 0
    /\ todo = {}
    /\ attempt = 0
    /\ timeout = 0
    /\ rb = ClearStatus
    /\ notUpdated = Retimers
    /\ ret = "OK"
    /\ firstErr = "OK"
    /\ log = {}
    /\ adrift = busy
    /\ stale = StaleBits
    /\ erred = {}

Init == FpgaInit /\ UpdateFwInit

-------------------------------------------------------------------------------
(* Arguments, the I2C bus and the image file.                               *)

SetupFails ==
    /\ pc = "setup"
    /\ ret' \in SetupErrors
    /\ pc' = "exit"
    /\ UNCHANGED <<fpgaVars, target, stale, ops, uo, page, startVars,
                   notUpdated, firstErr, log, adrift, erred>>

SetupDone ==
    /\ pc = "setup"
    /\ pc' = "load"
    /\ UNCHANGED <<fpgaVars, target, stale, ops, uo, page, startVars,
                   notUpdated, ret, firstErr, log, adrift, erred>>

(* open() fails: VerificationFailed; fstat() or mmap() fails:               *)
(* TransferFailed.  ret is not assigned.                                    *)
LoadFails ==
    /\ pc = "load"
    /\ \E msg \in {"VerificationFailed", "TransferFailed"} :
          log' = log \cup Logged(0, msg, target)
    /\ pc' = "exit"
    /\ UNCHANGED <<fpgaVars, target, stale, ops, uo, page, startVars,
                   notUpdated, ret, firstErr, adrift, erred>>

ParseFails ==
    /\ pc = "load"
    /\ ret' \in ParseErrors
    /\ log' = log \cup Logged(0, "VerificationFailed", target)
    /\ pc' = "exit"
    /\ UNCHANGED <<fpgaVars, target, stale, ops, uo, page, startVars,
                   notUpdated, firstErr, adrift, erred>>

(* Every bitmap is cut down to the retimers named on the command line.      *)
ParseDone ==
    /\ pc = "load"
    /\ \E parsed \in ParsedOps : ops' = Targeted(parsed, target)
    /\ pc' = "next_op"
    /\ UNCHANGED <<fpgaVars, target, stale, uo, page, startVars, notUpdated,
                   ret, firstErr, log, adrift, erred>>

-------------------------------------------------------------------------------
(* The loop over the update operations.                                     *)

SkipOp ==
    /\ pc = "next_op"
    /\ uo <= Len(ops)
    /\ Apply = {}
    /\ uo' = uo + 1
    /\ UNCHANGED <<fpgaVars, pc, target, stale, ops, page, startVars,
                   notUpdated, ret, firstErr, log, adrift, erred>>

(* The image does not fit the DPRAM: copyImageFromMemToFpga() refuses it.   *)
RefuseImage ==
    /\ pc = "next_op"
    /\ uo <= Len(ops)
    /\ Apply # {}
    /\ NumPages[Image] > MaxPages
    /\ log' = log \cup Logged(uo, "TransferringToComponent", Apply)
                  \cup Logged(uo, "TransferFailed", Apply)
    /\ ret' = "WRONG_FIRMWARE"
    /\ firstErr' = "WRONG_FIRMWARE"
    /\ uo' = uo + 1
    /\ UNCHANGED <<fpgaVars, pc, target, stale, ops, page, startVars,
                   notUpdated, adrift, erred>>

BeginTransfer ==
    /\ pc = "next_op"
    /\ uo <= Len(ops)
    /\ Apply # {}
    /\ NumPages[Image] <= MaxPages
    /\ log' = log \cup Logged(uo, "TransferringToComponent", Apply)
    /\ page' = 0
    /\ pc' = "copy"
    /\ UNCHANGED <<fpgaVars, target, stale, ops, uo, startVars, notUpdated,
                   ret, firstErr, adrift, erred>>

(* Mutant: the result of the last operation is the result of the session.   *)
AllDoneLastRet ==
    /\ pc = "next_op"
    /\ uo > Len(ops)
    /\ pc' = "exit"
    /\ UNCHANGED <<fpgaVars, target, stale, ops, uo, page, startVars,
                   notUpdated, ret, firstErr, log, adrift, erred>>

(* The end of the loop: a failed operation decides over a last good one.    *)
AllDone ==
    /\ pc = "next_op"
    /\ uo > Len(ops)
    /\ ret' = IF ret = "OK" /\ firstErr # "OK" THEN firstErr ELSE ret
    /\ pc' = "exit"
    /\ UNCHANGED <<fpgaVars, target, stale, ops, uo, page, startVars,
                   notUpdated, firstErr, log, adrift, erred>>

-------------------------------------------------------------------------------
(* copyImageFromMemToFpga(): pages, size, read-back, checksum, read-back.   *)

CopyPage ==
    /\ pc = "copy"
    /\ page < PageCount
    /\ WriteDpram(page, Image)
    /\ page' = page + 1
    /\ UNCHANGED <<sizeReg, crcReg, progVars, pc, target, stale, ops, uo,
                   startVars, notUpdated, ret, firstErr, log, adrift, erred>>

WriteSize ==
    /\ pc = "copy"
    /\ page = PageCount
    /\ sizeReg' = Image
    /\ pc' = "read_size"
    /\ UNCHANGED <<dpram, crcReg, progVars, target, stale, ops, uo, page,
                   startVars, notUpdated, ret, firstErr, log, adrift, erred>>

(* "Verify Write": the value read back is printed and not compared.         *)
ReadSize ==
    /\ pc = "read_size"
    /\ pc' = "write_crc"
    /\ UNCHANGED <<fpgaVars, target, stale, ops, uo, page, startVars,
                   notUpdated, ret, firstErr, log, adrift, erred>>

WriteCrc ==
    /\ pc = "write_crc"
    /\ crcReg' = Image
    /\ pc' = "read_crc"
    /\ UNCHANGED <<dpram, sizeReg, progVars, target, stale, ops, uo, page,
                   startVars, notUpdated, ret, firstErr, log, adrift, erred>>

(* The copy is done; startRetimerFwUpdate() begins with the whole bitmap.   *)
ReadCrc ==
    /\ pc = "read_crc"
    /\ pc' = "trigger"
    /\ todo' = Apply
    /\ attempt' = 0
    /\ UNCHANGED <<fpgaVars, target, stale, ops, uo, page, timeout, rb,
                   notUpdated, ret, firstErr, log, adrift, erred>>

(* A transaction fails; a failed write may or may not have reached the FPGA.*)
FailedWrite ==
    \/ UNCHANGED memVars
    \/ /\ pc = "copy"
       /\ page < PageCount
       /\ \E c \in {Image, Foreign} : WriteDpram(page, c)
       /\ UNCHANGED <<sizeReg, crcReg>>
    \/ /\ pc = "copy"
       /\ page = PageCount
       /\ sizeReg' \in {Image, Foreign}
       /\ UNCHANGED <<dpram, crcReg>>
    \/ /\ pc = "write_crc"
       /\ crcReg' \in {Image, Foreign}
       /\ UNCHANGED <<dpram, sizeReg>>

(* Mutant: the operation goes on although its copy has failed.              *)
CopyFailsAnyway ==
    /\ pc \in {"copy", "read_size", "write_crc", "read_crc"}
    /\ FailedWrite
    /\ log' = log \cup Logged(uo, "TransferFailed", Apply)
    /\ ret' = "IOCTL_I2C"
    /\ firstErr' = "IOCTL_I2C"
    /\ todo' = Apply
    /\ page' = 0
    /\ pc' = "trigger"
    /\ UNCHANGED <<progVars, target, stale, ops, uo, attempt, timeout, rb,
                   notUpdated, adrift, erred>>

CopyFails ==
    /\ pc \in {"copy", "read_size", "write_crc", "read_crc"}
    /\ FailedWrite
    /\ log' = log \cup Logged(uo, "TransferFailed", Apply)
    /\ ret' = "IOCTL_I2C"
    /\ firstErr' = "IOCTL_I2C"
    /\ uo' = uo + 1
    /\ page' = 0
    /\ pc' = "next_op"
    /\ UNCHANGED <<progVars, target, stale, ops, startVars, notUpdated,
                   adrift, erred>>

-------------------------------------------------------------------------------
(* startRetimerFwUpdate(): trigger, poll, check, retry.                     *)

(* a ^ b of two bitmaps *)
Xor(a, b) == (a \ b) \cup (b \ a)

(* Mutant: the retimers that were updated although others failed are not    *)
(* mentioned.                                                               *)
ConcludeFailedOnly(code, notUpd) ==
    /\ ret' = code
    /\ IF code = "OK"
         THEN /\ log' = log \cup Logged(uo, "UpdateSuccessful", Apply)
              /\ UNCHANGED firstErr
         ELSE /\ log' = log \cup Logged(uo, "ApplyFailed", notUpd)
              /\ firstErr' = code
    /\ uo' = uo + 1
    /\ page' = 0
    /\ todo' = {}
    /\ attempt' = 0
    /\ timeout' = 0
    /\ rb' = ClearStatus
    /\ pc' = "next_op"
    /\ UNCHANGED <<target, stale, ops>>

(* What main() does with what startRetimerFwUpdate() returned: notUpd is    *)
(* retimerNotUpdated at that moment.                                        *)
Conclude(code, notUpd) ==
    /\ ret' = code
    /\ IF code = "OK"
         THEN /\ log' = log \cup Logged(uo, "UpdateSuccessful", Apply)
              /\ UNCHANGED firstErr
         ELSE /\ log' = log \cup Logged(uo, "ApplyFailed", notUpd)
                            \cup Logged(uo, "UpdateSuccessful",
                                        Xor(Apply, notUpd))
              /\ firstErr' = code
    /\ uo' = uo + 1
    /\ page' = 0
    /\ todo' = {}
    /\ attempt' = 0
    /\ timeout' = 0
    /\ rb' = ClearStatus
    /\ pc' = "next_op"
    /\ UNCHANGED <<target, stale, ops>>

Trigger ==
    /\ pc = "trigger"
    /\ TriggerUpdate(todo)
    /\ timeout' = 0
    /\ rb' = ClearStatus
    /\ pc' = "poll"
    /\ UNCHANGED <<memVars, target, stale, ops, uo, page, todo, attempt,
                   notUpdated, ret, firstErr, log, adrift, erred>>

(* The write fails: whether or not the FPGA took it, main() goes on.        *)
TriggerFails ==
    /\ pc = "trigger"
    /\ \/ UNCHANGED <<progVars, adrift>>
       \/ TriggerUpdate(todo) /\ adrift' = adrift \cup todo
    /\ Conclude("IOCTL_I2C", notUpdated)
    /\ erred' = erred \cup {uo}
    /\ UNCHANGED <<memVars, notUpdated>>

(* Mutant: the poll counter does not advance.                               *)
PollForever ==
    /\ pc = "poll"
    /\ timeout < MaxTimeoutSec
    /\ rb' = Status
    /\ ret' = "OK"
    /\ pc' = IF busy = {} THEN "check" ELSE "poll"
    /\ UNCHANGED <<fpgaVars, target, stale, ops, uo, page, todo, attempt,
                   timeout, notUpdated, firstErr, log, adrift, erred>>

(* One read of the status register; the loop ends when byte 0 is clear.     *)
Poll ==
    /\ pc = "poll"
    /\ timeout < MaxTimeoutSec
    /\ rb' = Status
    /\ timeout' = timeout + 1
    /\ ret' = "OK"
    /\ pc' = IF busy = {} THEN "check" ELSE "poll"
    /\ UNCHANGED <<fpgaVars, target, stale, ops, uo, page, todo, attempt,
                   notUpdated, firstErr, log, adrift, erred>>

PollFails ==
    /\ pc = "poll"
    /\ timeout < MaxTimeoutSec
    /\ Conclude("IOCTL_I2C", notUpdated)
    /\ adrift' = adrift \cup busy
    /\ erred' = erred \cup {uo}
    /\ UNCHANGED <<fpgaVars, notUpdated>>

(* "Timeout!!, update still not completed": the last answer is judged as it *)
(* is.                                                                      *)
PollTimesOut ==
    /\ pc = "poll"
    /\ timeout >= MaxTimeoutSec
    /\ adrift' = adrift \cup rb.busy
    /\ pc' = "check"
    /\ UNCHANGED <<fpgaVars, target, stale, ops, uo, page, startVars,
                   notUpdated, ret, firstErr, log, erred>>

(* Mutant: the checksum byte is not looked at.                              *)
RetrySetNoChecksum ==
    {r \in Retimers : rb.verdict[r] \in {"writeNack", "readNack"}}

(* retryUpdate4Retimer: the bits of the three error bytes.                  *)
RetrySet == {r \in Retimers : rb.verdict[r] # "ok"}

(* All four bytes are clear: the operation succeeded.                       *)
CheckClean ==
    /\ pc = "check"
    /\ rb = ClearStatus
    /\ Conclude("OK", notUpdated)
    /\ UNCHANGED <<fpgaVars, notUpdated, adrift, erred>>

(* The extended error register cannot be read.                              *)
CheckExtendedFails ==
    /\ pc = "check"
    /\ rb # ClearStatus
    /\ Conclude("OPEN_FIRMWARE", notUpdated)
    /\ erred' = erred \cup {uo}
    /\ UNCHANGED <<fpgaVars, notUpdated, adrift>>

(* Some byte is not clear.  The retimers with an error bit are tried again; *)
(* those still busy have none, and are not.                                 *)
StatusCode == IF RetrySet = {} THEN "OK" ELSE "RETIMER_STATUS"

(* Mutant: one attempt too many.                                            *)
CheckRetryOnceMore ==
    /\ pc = "check"
    /\ rb # ClearStatus
    /\ notUpdated' = RetrySet
    /\ IF attempt < MaxUpdateRetryCount
         THEN /\ todo' = RetrySet
              /\ attempt' = attempt + 1
              /\ ret' = StatusCode
              /\ pc' = "trigger"
              /\ UNCHANGED <<target, stale, ops, uo, page, timeout, rb,
                             firstErr, log>>
         ELSE Conclude(StatusCode, RetrySet)
    /\ UNCHANGED <<fpgaVars, adrift, erred>>

(* Mutant: the retry triggers every retimer of the operation again.         *)
CheckRetryAll ==
    /\ pc = "check"
    /\ rb # ClearStatus
    /\ notUpdated' = RetrySet
    /\ IF attempt + 1 < MaxUpdateRetryCount
         THEN /\ todo' = Apply
              /\ attempt' = attempt + 1
              /\ ret' = StatusCode
              /\ pc' = "trigger"
              /\ UNCHANGED <<target, stale, ops, uo, page, timeout, rb,
                             firstErr, log>>
         ELSE Conclude(StatusCode, RetrySet)
    /\ UNCHANGED <<fpgaVars, adrift, erred>>

CheckRetry ==
    /\ pc = "check"
    /\ rb # ClearStatus
    /\ notUpdated' = RetrySet
    /\ IF attempt + 1 < MaxUpdateRetryCount
         THEN /\ todo' = RetrySet
              /\ attempt' = attempt + 1
              /\ ret' = StatusCode
              /\ pc' = "trigger"
              /\ UNCHANGED <<target, stale, ops, uo, page, timeout, rb,
                             firstErr, log>>
         ELSE Conclude(StatusCode, RetrySet)
    /\ UNCHANGED <<fpgaVars, adrift, erred>>

-------------------------------------------------------------------------------

Setup == SetupFails \/ SetupDone \/ LoadFails \/ ParseFails \/ ParseDone
NextOp == SkipOp \/ RefuseImage \/ BeginTransfer \/ AllDone
Copy == CopyPage \/ WriteSize \/ ReadSize \/ WriteCrc \/ ReadCrc \/ CopyFails
Start == \/ Trigger \/ TriggerFails
         \/ Poll \/ PollFails \/ PollTimesOut
         \/ CheckClean \/ CheckExtendedFails \/ CheckRetry

(* The program's own steps, and the FPGA's, which go on after it has exited.*)
Main == Setup \/ NextOp \/ Copy \/ Start
Engine == EngineStep /\ UNCHANGED mainVars
Exited == pc = "exit" /\ UNCHANGED vars

Next == Main \/ Engine \/ Exited

(* The steps of a session in which nothing fails that need not fail.         *)
Progress ==
    \/ SetupDone \/ ParseDone
    \/ NextOp
    \/ CopyPage \/ WriteSize \/ ReadSize \/ WriteCrc \/ ReadCrc
    \/ Trigger \/ Poll \/ PollTimesOut \/ CheckClean \/ CheckRetry

(* The process is scheduled and every ioctl returns, but none has to fail;   *)
(* of the FPGA nothing is assumed: it may never finish.                     *)
Fairness == WF_vars(Progress)

Spec == Init /\ [][Next]_vars
FairSpec == Spec /\ Fairness

-------------------------------------------------------------------------------
(* Properties.                                                              *)

(* Types, and the bounds of the loops: no attempt polls more than           *)
(* MAX_TIMEOUT_SEC times, no operation is tried more than                   *)
(* MAX_UPDATE_RETRYCOUNT times, no page is written outside the DPRAM.       *)
TypeOK ==
    /\ FpgaTypeOK
    /\ pc \in {"setup", "load", "next_op", "copy", "read_size", "write_crc",
               "read_crc", "trigger", "poll", "check", "exit"}
    /\ target \in SUBSET Retimers
    /\ ops \in Seq(Op) /\ Len(ops) <= MaxOps
    /\ uo \in 1..(Len(ops) + 1)
    /\ page \in 0..MaxPages
    /\ todo \in SUBSET Retimers
    /\ attempt \in 0..(MaxUpdateRetryCount - 1)
    /\ timeout \in 0..MaxTimeoutSec
    /\ rb \in [busy : SUBSET Retimers, verdict : [Retimers -> Verdicts]]
    /\ notUpdated \in SUBSET Retimers
    /\ ret \in DOMAIN Code /\ firstErr \in DOMAIN Code
    /\ log \in SUBSET Event
    /\ adrift \in SUBSET Retimers
    /\ stale \in SUBSET Retimers
    /\ erred \in SUBSET OpIndex

(* As long as no retimer was left to the FPGA unwatched, what main() logs   *)
(* of an operation that had no transport error is true of the EEPROMs:      *)
(* UpdateSuccessful of a retimer that holds the operation's image, and      *)
(* ApplyFailed of one that does not.                                        *)
ReportsAreReal ==
    adrift = {} =>
        \A o \in DOMAIN ops \ erred : \A r \in Retimers :
            /\ Reported(o, "UpdateSuccessful", r) => eeprom[r] = ops[o].img
            /\ Reported(o, "ApplyFailed", r) => eeprom[r] # ops[o].img

(* Exit status 0 is to be believed together with the journal only: it is    *)
(* also that of a session whose image file could not be opened or mapped,   *)
(* and of one whose image has a corrupt header.  But whichever operations   *)
(* failed on the way, a session that left nothing to the FPGA unwatched and *)
(* exits with 0 has either reported the failure of the image for every      *)
(* retimer of the command line, or reported no such thing and programmed    *)
(* every retimer that is both in the image and on the command line.         *)
ImageFailureReported ==
    \A r \in target :
        Reported(0, "VerificationFailed", r) \/ Reported(0, "TransferFailed", r)

NoImageFailure == \A e \in log : e.op # 0

ExitZeroMeansUpdated ==
    pc = "exit" /\ adrift = {} /\ ExitStatus(ret) = 0 =>
        \/ ImageFailureReported
        \/ /\ NoImageFailure
           /\ \A o \in DOMAIN ops : \A r \in ops[o].apply :
                 eeprom[r] = ops[o].img

(* Whatever fails, main() gives each targeted retimer of each operation it  *)
(* is done with one conclusion and not two, and exits with none left open.  *)
Conclusions == {"UpdateSuccessful", "ApplyFailed", "TransferFailed"}

EveryTransferConcludes ==
    /\ pc = "exit" => uo > Len(ops)
    /\ \A o \in DOMAIN ops : o < uo =>
          \A r \in ops[o].apply :
              \E m \in Conclusions :
                  /\ Reported(o, m, r)
                  /\ \A n \in Conclusions \ {m} : ~Reported(o, n, r)

(* The retry touches failed retimers only: one that holds the image when    *)
(* the second attempt begins, or gets it in that attempt, is neither        *)
(* programmed again nor does it lose the image.                             *)
RetrySparesGood ==
    [][attempt > 0 /\ adrift = {} /\ pc \in {"trigger", "poll"} =>
          \A r \in Retimers :
              eeprom[r] = Image => eeprom'[r] = Image /\ r \notin busy']_vars

(* No step changes the EEPROM of a retimer that is neither on the command   *)
(* line nor being programmed with nobody watching, with one exception: if   *)
(* the FPGA is busy when the session starts, and the trigger dropped, the   *)
(* retry programs whichever retimers an earlier session left with an error  *)
(* bit.  The code does not cut its bitmap down to the command line's.       *)
UntargetedUntouched ==
    [][\A r \in Retimers \ (target \cup adrift \cup stale) :
           eeprom'[r] = eeprom[r]]_vars

(* From the trigger to the end of the last retry the DPRAM, the size and    *)
(* the checksum are those of the operation's image, also when an earlier    *)
(* operation's copy broke off half-way or left a longer image behind.       *)
ProgramsRightImage ==
    pc \in {"trigger", "poll", "check"} => DpramHolds(Image)

(* The program comes to an end even if the FPGA never does.                 *)
Termination == <>(pc = "exit")

(* startRetimerFwUpdate(), "RETURN: 0 if success": an operation reported as *)
(* successful for want of any error has programmed its retimers.            *)
StartReturnsZeroOnlyOnSuccess ==
    \A o \in DOMAIN ops \ erred : \A r \in ops[o].apply :
        Reported(o, "UpdateSuccessful", r) => eeprom[r] = ops[o].img

(* "retimer bitmap: bitmap for retimer indices 0-7, 255 to update all       *)
(* retimers": the messages of a session are about retimers of that bitmap.  *)
UntargetedNeverReported == \A e \in log : e.rt \in target

(* A session for which main() prints "Retimer UPDATE SUCCESSFUL", that is   *)
(* one with ret 0, did not log the failure of its image file.               *)
SuccessBannerHonest ==
    pc = "exit" /\ ret = "OK" => NoImageFailure

===============================================================================
