-------------------------------- MODULE ReadFw --------------------------------
(***************************************************************************)
(* Reading one retimer's firmware into a file, as the hash service and      *)
(* updateRetimerFw READ both do it: copyImageFromFileToFpga() with a blank  *)
(* file, readRetimerfw(), copyImageFromFpga().                              *)
(*                                                                          *)
(* The caller sets rpc to "open" and rt to the retimer, and goes on from    *)
(* "done" or "failed".  An I2C transaction is a step, which may fail.       *)
(***************************************************************************)
EXTENDS FpgaReader

CONSTANTS
    MaxTimeoutSec,        \* MAX_TIMEOUT_SEC: polls of one attempt (60)
    MaxUpdateRetryCount,  \* MAX_UPDATE_RETRYCOUNT: attempts (2)
    Blank,                \* a page of zeros
    NoFile                \* there is no such file

ASSUME ReadFwAssumption ==
    /\ MaxTimeoutSec \in Nat \ {0}
    /\ MaxUpdateRetryCount \in Nat \ {0}
    /\ Blank \in Contents
    /\ NoFile \notin Memory

VARIABLES
    rpc,      \* where the caller is in the sequence
    rt,       \* the retimer to read
    file,     \* the file the image is read into, or NoFile
    dummyfd,  \* its descriptor: "open", or "none" for -1
    buf,      \* fw_buf
    page,     \* the page loops, and the four registers behind the pages
    attempt,  \* update4retimerCount
    timeout,  \* timeout
    rsp,      \* read_buffer
    taken,    \* history: the retimer whose trigger of this sequence the FPGA
              \* took, or NoRetimer
    sound     \* history: the retimer read without NACK, timeout and short
              \* write, or NoRetimer

loopVars == <<attempt, timeout, rsp>>
readVars == <<rpc, rt, file, dummyfd, buf, page, loopVars, taken, sound>>

BlankMemory == [p \in Pages |-> Blank]

(* The size and the checksum register: two writes, each read back.          *)
Registers == 4

ReadFwInit ==
    /\ rpc = "idle"
    /\ rt \in Retimers
    /\ file = NoFile
    /\ dummyfd = "none"
    /\ buf = BlankMemory
    /\ page = 0
    /\ attempt = 0
    /\ timeout = 0
    /\ rsp = {}
    /\ taken = NoRetimer
    /\ sound = NoRetimer

(* Any error: the caller's exit path; the loops are left, the buffer freed. *)
Abort ==
    /\ rpc' = "failed"
    /\ buf' = BlankMemory
    /\ page' = 0
    /\ attempt' = 0
    /\ timeout' = 0
    /\ rsp' = {}
    /\ taken' = NoRetimer
    /\ sound' = NoRetimer
    /\ UNCHANGED rt

-------------------------------------------------------------------------------
(* The blank file.                                                          *)

(* Mutant: open() with O_TRUNC.                                             *)
OpenFileTruncates ==
    /\ rpc = "open"
    /\ file' = BlankMemory
    /\ dummyfd' = "open"
    /\ rpc' = "load"
    /\ UNCHANGED <<readerVars, rt, buf, page, loopVars, taken, sound>>

(* open(O_CREAT) without O_TRUNC, and ftruncate() to the full size: a file  *)
(* that is there already keeps its content.                                 *)
OpenFile ==
    /\ rpc = "open"
    /\ file' = IF file = NoFile THEN BlankMemory ELSE file
    /\ dummyfd' = "open"
    /\ rpc' = "load"
    /\ UNCHANGED <<readerVars, rt, buf, page, loopVars, taken, sound>>

(* The bus or the file cannot be opened, or the directory not be made.       *)
OpenFails ==
    /\ rpc = "open"
    /\ Abort
    /\ UNCHANGED <<readerVars, file, dummyfd>>

(* ftruncate() fails: the file is there, and empty if it is new.            *)
TruncateFails ==
    /\ rpc = "open"
    /\ file' = IF file = NoFile THEN BlankMemory ELSE file
    /\ dummyfd' = "open"
    /\ Abort
    /\ UNCHANGED readerVars

LoadFile ==
    /\ rpc = "load"
    /\ buf' = file
    /\ page' = 0
    /\ rpc' = "copy_in"
    /\ UNCHANGED <<readerVars, rt, file, dummyfd, loopVars, taken, sound>>

(* fstat(), malloc() or read() fails.                                       *)
LoadFails ==
    /\ rpc = "load"
    /\ Abort
    /\ UNCHANGED <<readerVars, file, dummyfd>>

(* copyImageFromMemToFpga() with the blank image.                           *)
CopyInPage ==
    /\ rpc = "copy_in"
    /\ page < MaxPages
    /\ WritePage(page, buf[page])
    /\ page' = page + 1
    /\ UNCHANGED <<eeprom, engineVars, rpc, rt, file, dummyfd, buf, loopVars,
                   taken, sound>>

CopyInRegister ==
    /\ rpc = "copy_in"
    /\ page >= MaxPages
    /\ IF page + 1 < MaxPages + Registers
         THEN page' = page + 1 /\ UNCHANGED <<rpc, buf>>
         ELSE page' = 0 /\ rpc' = "trigger" /\ buf' = BlankMemory
    /\ UNCHANGED <<readerVars, rt, file, dummyfd, loopVars, taken, sound>>

(* A failed write may or may not have reached the DPRAM.                    *)
CopyInFails ==
    /\ rpc = "copy_in"
    /\ \/ UNCHANGED dpram
       \/ page < MaxPages /\ \E c \in Contents : WritePage(page, c)
    /\ Abort
    /\ UNCHANGED <<eeprom, engineVars, file, dummyfd>>

-------------------------------------------------------------------------------
(* readRetimerfw()                                                          *)

TriggerRead ==
    /\ rpc = "trigger"
    /\ \/ AcceptRead(rt) /\ taken' = rt
       \/ IgnoreRead /\ taken' = taken
    /\ timeout' = 0
    /\ rsp' = {}
    /\ rpc' = "poll"
    /\ UNCHANGED <<dpram, eeprom, rt, file, dummyfd, buf, page, attempt, sound>>

TriggerReadFails ==
    /\ rpc = "trigger"
    /\ UNCHANGED engineVars \/ AcceptRead(rt)
    /\ Abort
    /\ UNCHANGED <<dpram, eeprom, file, dummyfd>>

(* Mutant: the poll counter does not advance.                               *)
PollReadForever ==
    /\ rpc = "poll"
    /\ timeout < MaxTimeoutSec
    /\ rsp' = ReadStatus
    /\ rpc' = IF reading = NoRetimer THEN "check" ELSE "poll"
    /\ UNCHANGED <<readerVars, rt, file, dummyfd, buf, page, attempt, timeout,
                   taken, sound>>

PollRead ==
    /\ rpc = "poll"
    /\ timeout < MaxTimeoutSec
    /\ rsp' = ReadStatus
    /\ timeout' = timeout + 1
    /\ rpc' = IF reading = NoRetimer THEN "check" ELSE "poll"
    /\ UNCHANGED <<readerVars, rt, file, dummyfd, buf, page, attempt, taken,
                   sound>>

PollReadFails ==
    /\ rpc = "poll"
    /\ timeout < MaxTimeoutSec
    /\ Abort
    /\ UNCHANGED <<readerVars, file, dummyfd>>

PollReadTimesOut ==
    /\ rpc = "poll"
    /\ timeout >= MaxTimeoutSec
    /\ rpc' = "check"
    /\ UNCHANGED <<readerVars, rt, file, dummyfd, buf, page, loopVars, taken,
                   sound>>

(* readRetimerfw() returns 0 and copyImageFromFpga() begins, with a buffer  *)
(* of zeros.                                                                *)
BeginCopyOut ==
    /\ rpc' = "copy_out"
    /\ page' = 0
    /\ attempt' = 0
    /\ timeout' = 0
    /\ UNCHANGED <<readerVars, rt, file, dummyfd, buf, rsp, taken>>

(* Mutant: the NACK bit is not looked at.                                   *)
ReadCompleteNoNack ==
    /\ rpc = "check"
    /\ "busy" \notin rsp
    /\ sound' = taken
    /\ BeginCopyOut

ReadComplete ==
    /\ rpc = "check"
    /\ rsp = {}
    /\ sound' = taken
    /\ BeginCopyOut

(* Mutant: one attempt too many.                                            *)
ReadAgainOnceMore ==
    /\ rpc = "check"
    /\ rsp # {}
    /\ attempt < MaxUpdateRetryCount
    /\ attempt' = attempt + 1
    /\ rpc' = "trigger"
    /\ UNCHANGED <<readerVars, rt, file, dummyfd, buf, page, timeout, rsp,
                   taken, sound>>

(* A NACK or a timeout: the next attempt.                                   *)
ReadAgain ==
    /\ rpc = "check"
    /\ rsp # {}
    /\ attempt + 1 < MaxUpdateRetryCount
    /\ attempt' = attempt + 1
    /\ rpc' = "trigger"
    /\ UNCHANGED <<readerVars, rt, file, dummyfd, buf, page, timeout, rsp,
                   taken, sound>>

(* A NACK or a timeout in the last attempt: ret is still 0.                 *)
ReadGivesUp ==
    /\ rpc = "check"
    /\ rsp # {}
    /\ attempt + 1 >= MaxUpdateRetryCount
    /\ sound' = NoRetimer
    /\ BeginCopyOut

-------------------------------------------------------------------------------
(* copyImageFromFpga()                                                      *)

CopyOutPage ==
    /\ rpc = "copy_out"
    /\ page < MaxPages
    /\ buf' = [buf EXCEPT ![page] = dpram[page]]
    /\ page' = page + 1
    /\ UNCHANGED <<readerVars, rpc, rt, file, dummyfd, loopVars, taken, sound>>

(* A transaction, or the write() at the end, fails.                         *)
CopyOutFails ==
    /\ rpc = "copy_out"
    /\ Abort
    /\ UNCHANGED <<readerVars, file, dummyfd>>

(* write() may write less than it was asked to; only -1 is an error.        *)
WriteFile ==
    /\ rpc = "copy_out"
    /\ page = MaxPages
    /\ \E written \in 0..MaxPages :
          /\ file' = [p \in Pages |-> IF p < written THEN buf[p] ELSE file[p]]
          /\ sound' = IF written = MaxPages THEN sound ELSE NoRetimer
    /\ page' = 0
    /\ buf' = BlankMemory
    /\ taken' = NoRetimer
    /\ rsp' = {}
    /\ rpc' = "done"
    /\ UNCHANGED <<readerVars, rt, dummyfd, attempt, timeout>>

-------------------------------------------------------------------------------

BlankFile == OpenFile \/ OpenFails \/ TruncateFails \/ LoadFile \/ LoadFails
CopyIn == CopyInPage \/ CopyInRegister \/ CopyInFails
ReadRetimer ==
    \/ TriggerRead \/ TriggerReadFails
    \/ PollRead \/ PollReadFails \/ PollReadTimesOut
    \/ ReadComplete \/ ReadAgain \/ ReadGivesUp
CopyOut == CopyOutPage \/ CopyOutFails \/ WriteFile

(* The steps that do not fail.                                               *)
ReadFwProgress ==
    \/ OpenFile \/ LoadFile
    \/ CopyInPage \/ CopyInRegister
    \/ TriggerRead \/ PollRead \/ PollReadTimesOut
    \/ ReadComplete \/ ReadAgain \/ ReadGivesUp
    \/ CopyOutPage \/ WriteFile

ReadFwStep == BlankFile \/ CopyIn \/ ReadRetimer \/ CopyOut

ReadFwTypeOK ==
    /\ rpc \in {"idle", "open", "load", "copy_in", "trigger", "poll", "check",
                "copy_out", "done", "failed", "hashed", "down"}
    /\ rt \in Retimers
    /\ file \in Memory \cup {NoFile}
    /\ dummyfd \in {"none", "open"}
    /\ buf \in Memory
    /\ page \in 0..(MaxPages + Registers)
    /\ attempt \in 0..(MaxUpdateRetryCount - 1)
    /\ timeout \in 0..MaxTimeoutSec
    /\ rsp \in SUBSET {"busy", "nack"}
    /\ taken \in Retimers \cup {NoRetimer}
    /\ sound \in Retimers \cup {NoRetimer}

===============================================================================
