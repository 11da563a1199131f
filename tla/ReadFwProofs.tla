----------------------------- MODULE ReadFwProofs -----------------------------
(***************************************************************************)
(* What the shared read sequence does for its callers, whoever they are:    *)
(* its types, and what a sound read rests on.                               *)
(***************************************************************************)
EXTENDS ReadFw, TLAPS

Firmware(r) == [p \in Pages |-> eeprom[r]]
Reading == {"trigger", "poll", "check"}

(* There is a file to load and to write to.                                 *)
FileThere == rpc \in {"load", "copy_out"} => file \in Memory

(* The course of a read: a taken trigger and a sound read are this         *)
(* sequence's own, the one rests on the other, and a clear status is an     *)
(* answer to a poll, not the cleared buffer of a timeout.                   *)
ReadCourse ==
    /\ taken # NoRetimer => taken = rt /\ rpc \in Reading \cup {"copy_out"}
    /\ sound # NoRetimer => sound = rt /\ rpc \in {"copy_out", "done"}
    /\ rpc = "copy_out" /\ sound = rt => taken = rt
    /\ rpc = "poll" /\ timeout > 0 => rsp # {}
    /\ rpc = "check" /\ rsp = {} => reading = NoRetimer /\ nack = {}

(* What a sound read rests on.  Once the FPGA has taken a trigger of this   *)
(* sequence nobody else writes the DPRAM: it holds a prefix of the          *)
(* retimer's firmware while it is being read and all of it at the end.      *)
ReadContent ==
    /\ rpc \in Reading /\ taken = rt =>
          /\ reading \in {rt, NoRetimer}
          /\ reading = rt =>
                \A p \in Pages : p < filled => dpram[p] = eeprom[rt]
          /\ reading = NoRetimer /\ nack = {} =>
                \A p \in Pages : dpram[p] = eeprom[rt]
    /\ rpc = "copy_out" /\ sound = rt =>
          /\ reading = NoRetimer
          /\ \A p \in Pages : dpram[p] = eeprom[rt]
          /\ \A p \in Pages : p < page => buf[p] = eeprom[rt]
    /\ rpc = "done" /\ sound = rt => file = Firmware(rt)

ReadInv == ReadCourse /\ ReadContent

-------------------------------------------------------------------------------
(* Types.                                                                   *)

(* No bit of a status is set.                                               *)
LEMMA ClearType == {} \in SUBSET {"nack"} /\ {} \in SUBSET {"busy", "nack"}
OBVIOUS

(* The FPGA's reading engine keeps to its types.                            *)
LEMMA ReaderStepType ==
    ASSUME ReaderTypeOK, ReaderStep
    PROVE  ReaderTypeOK'
<1>1. CASE FillPage
  BY <1>1, FpgaReaderAssumption
     DEF ReaderTypeOK, FillPage, WritePage, Memory, Pages
<1>2. CASE FillDone
  BY <1>2 DEF ReaderTypeOK, FillDone
<1>3. CASE FillNack
  BY <1>3 DEF ReaderTypeOK, FillNack
<1> QED
  BY <1>1, <1>2, <1>3 DEF ReaderStep

(* So does every transaction of the program with it.                        *)
LEMMA TransactionType ==
    ASSUME ReaderTypeOK, ReadFwTypeOK, ReadFwStep
    PROVE  ReaderTypeOK'
<1>1. CASE CopyInPage
  BY <1>1 DEF CopyInPage, WritePage, ReaderTypeOK, ReadFwTypeOK, Memory,
              engineVars
<1>2. CASE CopyInFails
  BY <1>2 DEF CopyInFails, WritePage, ReaderTypeOK, Memory, engineVars
<1>3. CASE TriggerRead \/ TriggerReadFails
  <2>1. /\ reading' \in Retimers \cup {NoRetimer}
        /\ filled' \in 0..MaxPages
        /\ nack' \in SUBSET {"nack"}
    <3>1. CASE AcceptRead(rt)
      BY <3>1, FpgaReaderAssumption DEF AcceptRead, ReadFwTypeOK
    <3>2. CASE UNCHANGED engineVars
      BY <3>2 DEF engineVars, ReaderTypeOK
    <3> QED
      BY <1>3, <3>1, <3>2 DEF TriggerRead, TriggerReadFails, IgnoreRead
  <2> QED
    BY <1>3, <2>1 DEF TriggerRead, TriggerReadFails, ReaderTypeOK
<1>4. ASSUME UNCHANGED readerVars
      PROVE  ReaderTypeOK'
  BY <1>4 DEF readerVars, engineVars, ReaderTypeOK
<1> QED
  BY <1>1, <1>2, <1>3, <1>4
     DEF ReadFwStep, BlankFile, CopyIn, ReadRetimer, CopyOut, OpenFile,
         OpenFails, TruncateFails, LoadFile, LoadFails, CopyInRegister,
         PollRead, PollReadFails, PollReadTimesOut, ReadComplete, ReadAgain,
         ReadGivesUp, BeginCopyOut, CopyOutPage, CopyOutFails, WriteFile

(* The blank file is a file.                                                *)
LEMMA BlankType == BlankMemory \in Memory
BY ReadFwAssumption DEF BlankMemory, Memory

(* The exit path leaves the variables of the sequence well typed.           *)
LEMMA AbortType ==
    ASSUME ReadFwTypeOK, Abort, file' \in Memory \cup {NoFile},
           dummyfd' \in {"none", "open"}
    PROVE  ReadFwTypeOK'
<1>1. page' \in 0..(MaxPages + Registers)
  BY FpgaReaderAssumption DEF Abort, Registers
<1>2. attempt' \in 0..(MaxUpdateRetryCount - 1) /\ timeout' \in 0..MaxTimeoutSec
  BY ReadFwAssumption DEF Abort
<1>3. buf' \in Memory /\ rsp' \in SUBSET {"busy", "nack"}
  BY BlankType DEF Abort
<1> QED
  BY <1>1, <1>2, <1>3 DEF Abort, ReadFwTypeOK

(* The steps of the shared sequence keep the types of its variables.        *)
LEMMA SequenceType ==
    ASSUME ReaderTypeOK, ReadFwTypeOK, FileThere, ReadFwStep
    PROVE  ReadFwTypeOK'
<1> USE FpgaReaderAssumption, ReadFwAssumption DEF Registers
<1>1. CASE OpenFile \/ LoadFile
  <2>1. CASE OpenFile
    BY <2>1, BlankType DEF OpenFile, loopVars, ReadFwTypeOK
  <2>2. CASE LoadFile
    <3>1. file \in Memory /\ page' \in 0..(MaxPages + Registers)
      BY <2>2 DEF LoadFile, FileThere
    <3> QED
      BY <2>2, <3>1 DEF LoadFile, loopVars, ReadFwTypeOK
  <2> QED
    BY <1>1, <2>1, <2>2
<1>2. CASE TruncateFails
  BY <1>2, BlankType, AbortType DEF TruncateFails, ReadFwTypeOK
<1>3. CASE OpenFails \/ LoadFails \/ CopyInFails \/ TriggerReadFails
           \/ PollReadFails \/ CopyOutFails
  BY <1>3, AbortType
     DEF OpenFails, LoadFails, CopyInFails, TriggerReadFails, PollReadFails,
         CopyOutFails, ReadFwTypeOK
<1>4. CASE CopyInPage
  BY <1>4 DEF CopyInPage, loopVars, ReadFwTypeOK
<1>5. CASE CopyInRegister
  BY <1>5, BlankType DEF CopyInRegister, loopVars, ReadFwTypeOK
<1>6. CASE TriggerRead
  BY <1>6, ClearType DEF TriggerRead, loopVars, ReadFwTypeOK
<1>7. CASE PollRead
  <2>1. rsp' \in SUBSET {"busy", "nack"}
    BY <1>7 DEF PollRead, ReadStatus, ReaderTypeOK
  <2>2. timeout' \in 0..MaxTimeoutSec
    BY <1>7 DEF PollRead, ReadFwTypeOK
  <2> QED
    BY <1>7, <2>1, <2>2 DEF PollRead, ReadFwTypeOK
<1>8. CASE PollReadTimesOut
  BY <1>8 DEF PollReadTimesOut, loopVars, ReadFwTypeOK
<1>9. CASE ReadComplete \/ ReadGivesUp
  <2>1. /\ page' \in 0..(MaxPages + Registers)
        /\ attempt' \in 0..(MaxUpdateRetryCount - 1)
        /\ timeout' \in 0..MaxTimeoutSec
    BY <1>9 DEF ReadComplete, ReadGivesUp, BeginCopyOut
  <2>2. sound' \in Retimers \cup {NoRetimer}
    BY <1>9 DEF ReadComplete, ReadGivesUp, ReadFwTypeOK
  <2> QED
    BY <1>9, <2>1, <2>2
       DEF ReadComplete, ReadGivesUp, BeginCopyOut, ReadFwTypeOK
<1>10. CASE ReadAgain
  BY <1>10 DEF ReadAgain, ReadFwTypeOK
<1>11. CASE CopyOutPage
  BY <1>11 DEF CopyOutPage, loopVars, ReadFwTypeOK, ReaderTypeOK, Memory, Pages
<1>12. CASE WriteFile
  <2>1. file \in Memory /\ buf \in Memory
    BY <1>12 DEF WriteFile, FileThere, ReadFwTypeOK
  <2>2. file' \in Memory
    BY <1>12, <2>1 DEF WriteFile, Memory, Pages
  <2> QED
    BY <1>12, <2>2, BlankType DEF WriteFile, ReadFwTypeOK
<1> QED
  BY <1>1, <1>2, <1>3, <1>4, <1>5, <1>6, <1>7, <1>8, <1>9, <1>10, <1>11, <1>12
     DEF ReadFwStep, BlankFile, CopyIn, ReadRetimer, CopyOut

-------------------------------------------------------------------------------
(* A sound read.                                                            *)

(* The engine of the FPGA does not disturb what a sound read rests on.      *)
LEMMA EngineReadInv ==
    ASSUME ReaderTypeOK, ReadFwTypeOK, ReadInv, ReaderStep, UNCHANGED readVars
    PROVE  ReadInv'
<1> USE DEF ReadInv, ReadCourse, ReadContent, Reading
<1>1. UNCHANGED <<readVars, eeprom>> /\ reading # NoRetimer
  BY DEF ReaderStep, FillPage, FillDone, FillNack
<1>2. CASE FillPage
  <2>1. /\ filled \in Pages /\ filled' = filled + 1
        /\ dpram' = [dpram EXCEPT ![filled] = eeprom[reading]]
        /\ reading' = reading /\ nack' = nack
    BY <1>2, FpgaReaderAssumption
       DEF FillPage, WritePage, ReaderTypeOK, Pages
  <2>2. \A p \in Pages : dpram'[p] = IF p = filled THEN eeprom[reading]
                                                   ELSE dpram[p]
    BY <2>1 DEF ReaderTypeOK, Memory
  <2>3. \A p \in Pages : p < filled' => p < filled \/ p = filled
    BY <2>1 DEF Pages
  <2> QED
    BY <1>1, <2>1, <2>2, <2>3 DEF readVars, loopVars, Firmware
<1>3. CASE FillDone
  <2>1. \A p \in Pages : p < filled
    BY <1>3, FpgaReaderAssumption DEF FillDone, Pages
  <2> QED
    BY <1>1, <1>3, <2>1 DEF FillDone, readVars, loopVars, Firmware
<1>4. CASE FillNack
  BY <1>1, <1>4 DEF FillNack, readVars, loopVars, Firmware
<1> QED
  BY <1>2, <1>3, <1>4 DEF ReaderStep

(* Nor does the sequence itself.                                            *)
LEMMA SequenceReadInv ==
    ASSUME ReaderTypeOK, ReadFwTypeOK, ReadInv, ReadFwStep
    PROVE  ReadInv'
<1> USE DEF ReadInv, ReadCourse, ReadContent, Reading
<1>0. rt \in Retimers /\ rt # NoRetimer
  BY FpgaReaderAssumption DEF ReadFwTypeOK
<1>1. CASE BlankFile
  BY <1>0, <1>1 DEF BlankFile, OpenFile, OpenFails, TruncateFails, LoadFile,
                    LoadFails, Abort
<1>2. CASE CopyIn
  BY <1>0, <1>2 DEF CopyIn, CopyInPage, CopyInRegister, CopyInFails, Abort
<1>3. CASE TriggerRead
  <2>1. /\ rpc = "trigger" /\ rpc' = "poll" /\ timeout' = 0
        /\ UNCHANGED <<dpram, eeprom, rt, sound>>
        /\ sound = NoRetimer
    BY <1>3 DEF TriggerRead
  <2>2. CASE AcceptRead(rt) /\ taken' = rt
    <3>1. \A p \in Pages : ~(p < filled')
      BY <2>2 DEF AcceptRead, Pages
    <3> QED
      BY <1>0, <2>1, <2>2, <3>1 DEF AcceptRead
  <2>3. CASE IgnoreRead /\ taken' = taken
    BY <1>0, <2>1, <2>3 DEF IgnoreRead, engineVars
  <2> QED
    BY <1>3, <2>2, <2>3 DEF TriggerRead
<1>4. CASE TriggerReadFails \/ PollReadFails \/ CopyOutFails
  BY <1>4 DEF TriggerReadFails, PollReadFails, CopyOutFails, Abort
<1>5. CASE PollRead
  <2>1. /\ reading # NoRetimer => rsp' # {} /\ rpc' = "poll"
        /\ reading = NoRetimer => rsp' = nack /\ rpc' = "check"
    BY <1>5 DEF PollRead, ReadStatus
  <2> QED
    BY <1>0, <1>5, <2>1 DEF PollRead, readerVars, engineVars
<1>6. CASE PollReadTimesOut
  <2>1. timeout > 0
    BY <1>6, ReadFwAssumption DEF PollReadTimesOut, ReadFwTypeOK
  <2> QED
    BY <1>0, <1>6, <2>1 DEF PollReadTimesOut, readerVars, engineVars, loopVars
<1>7. CASE ReadComplete
  <2>1. \A p \in Pages : ~(p < page')
    BY <1>7 DEF ReadComplete, BeginCopyOut, Pages
  <2> QED
    BY <1>0, <1>7, <2>1 DEF ReadComplete, BeginCopyOut, readerVars, engineVars
<1>8. CASE ReadAgain
  BY <1>0, <1>8 DEF ReadAgain, readerVars, engineVars
<1>9. CASE ReadGivesUp
  BY <1>0, <1>9 DEF ReadGivesUp, BeginCopyOut
<1>10. CASE CopyOutPage
  <2>1. page \in Pages /\ page' = page + 1
    BY <1>10, FpgaReaderAssumption
       DEF CopyOutPage, ReadFwTypeOK, Pages, Registers
  <2>2. \A p \in Pages : buf'[p] = IF p = page THEN dpram[page] ELSE buf[p]
    BY <1>10, <2>1 DEF CopyOutPage, ReadFwTypeOK, Memory
  <2>3. \A p \in Pages : p < page' => p < page \/ p = page
    BY <2>1 DEF Pages
  <2> QED
    BY <1>0, <1>10, <2>1, <2>2, <2>3
       DEF CopyOutPage, readerVars, engineVars, loopVars
<1>11. CASE WriteFile
  <2>1. PICK written \in 0..MaxPages :
          /\ file' = [p \in Pages |-> IF p < written THEN buf[p] ELSE file[p]]
          /\ sound' = IF written = MaxPages THEN sound ELSE NoRetimer
    BY <1>11 DEF WriteFile
  <2>2. ASSUME sound' = rt
        PROVE  file' = Firmware(rt)
    <3>1. written = MaxPages /\ sound = rt /\ page = MaxPages
      BY <1>0, <1>11, <2>1, <2>2 DEF WriteFile
    <3>2. \A p \in Pages : p < MaxPages
      BY FpgaReaderAssumption DEF Pages
    <3>3. \A p \in Pages : buf[p] = eeprom[rt]
      BY <1>11, <3>1, <3>2 DEF WriteFile
    <3> QED
      BY <2>1, <3>1, <3>2, <3>3 DEF Firmware
  <2>3. sound' # NoRetimer => sound' = rt
    BY <1>11, <2>1 DEF WriteFile
  <2> QED
    BY <1>11, <2>2, <2>3 DEF WriteFile, readerVars, Firmware
<1> QED
  BY <1>1, <1>2, <1>3, <1>4, <1>5, <1>6, <1>7, <1>8, <1>9, <1>10, <1>11
     DEF ReadFwStep, ReadRetimer, CopyOut

-------------------------------------------------------------------------------
(* The course of a read does not depend on what the DPRAM and the EEPROMs   *)
(* hold, and others may write them.                                         *)

LEMMA EngineCourse ==
    ASSUME ReadCourse, ReaderStep, UNCHANGED readVars
    PROVE  ReadCourse'
BY DEF ReadCourse, ReaderStep, FillPage, FillDone, FillNack, readVars, loopVars

LEMMA SequenceCourse ==
    ASSUME ReadFwTypeOK, ReadCourse, ReadFwStep
    PROVE  ReadCourse'
<1> USE DEF ReadCourse, Reading
<1>0. rt \in Retimers /\ rt # NoRetimer
  BY FpgaReaderAssumption DEF ReadFwTypeOK
<1>1. CASE BlankFile \/ CopyIn
  BY <1>0, <1>1 DEF BlankFile, OpenFile, OpenFails, TruncateFails, LoadFile,
                    LoadFails, CopyIn, CopyInPage, CopyInRegister, CopyInFails,
                    Abort
<1>2. CASE TriggerRead \/ TriggerReadFails
  BY <1>0, <1>2 DEF TriggerRead, TriggerReadFails, Abort
<1>3. CASE PollRead \/ PollReadFails
  <2>1. /\ reading # NoRetimer => ReadStatus # {}
        /\ reading = NoRetimer => ReadStatus = nack
    BY DEF ReadStatus
  <2> QED
    BY <1>0, <1>3, <2>1
       DEF PollRead, PollReadFails, Abort, readerVars, engineVars
<1>4. CASE PollReadTimesOut
  <2>1. timeout > 0
    BY <1>4, ReadFwAssumption DEF PollReadTimesOut, ReadFwTypeOK
  <2> QED
    BY <1>0, <1>4, <2>1 DEF PollReadTimesOut, loopVars
<1>5. CASE ReadComplete \/ ReadAgain \/ ReadGivesUp
  BY <1>0, <1>5 DEF ReadComplete, ReadAgain, ReadGivesUp, BeginCopyOut
<1>6. CASE CopyOut
  BY <1>0, <1>6 DEF CopyOut, CopyOutPage, CopyOutFails, WriteFile, Abort
<1> QED
  BY <1>1, <1>2, <1>3, <1>4, <1>5, <1>6 DEF ReadFwStep, ReadRetimer

===============================================================================
