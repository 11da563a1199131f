----------------------------- MODULE ReadCliProofs -----------------------------
(***************************************************************************)
(* What an exit status of updateRetimerFw READ and its file are worth, for  *)
(* every number of retimers, DPRAM pages, polls and attempts.               *)
(***************************************************************************)
EXTENDS ReadCli, ReadFwProofs

(* From open() on the file is there.                                        *)
FileInv == rpc \in {"load", "copy_in", "copy_out", "done"} \cup Reading => file \in Memory

(* What a run that is under way, or has come to its end, would have to      *)
(* excuse itself for if its exit status were 0.                             *)
ExcuseInv ==
    /\ rpc # "idle" =>
          /\ rt = Named(asked)
          /\ asked \in Retimers \/ excuse # {}
          /\ ret # "KILLED"
    /\ rpc \in {"copy_out", "done"} => sound = rt \/ excuse # {}
    /\ rpc = "failed" => ret = "FAILED" \/ excuse # {}

CliInv == FileInv /\ ExcuseInv /\ FileGenuine /\ ExitZeroMeansRead

(* The argument of a retimer is its own nibble.                             *)
LEMMA NamedType ==
    /\ \A arg \in ReadArgs : Named(arg) \in Retimers
    /\ \A r \in Retimers : Named(r) = r
BY ReadCliAssumption DEF Named

(* What the program does: a step of the sequence, and what main() makes of  *)
(* it.                                                                      *)
LEMMA SequenceOrNot ==
    ASSUME Next
    PROVE  \/ ReadFwStep /\ (NoDummyFile \/ StepFails \/ StepDone)
           \/ StartRun \/ StartFails \/ Exit \/ Kill \/ Engine
BY DEF Next, NoDummyFile, StepFails, StepDone, ReadFwStep, BlankFile, CopyIn,
       ReadRetimer, CopyOut

-------------------------------------------------------------------------------
(* Types.                                                                   *)

(* Every step keeps the types.                                              *)
LEMMA StepType ==
    ASSUME TypeOK, FileInv, [Next]_vars
    PROVE  TypeOK'
<1> USE FpgaReaderAssumption, ReadFwAssumption DEF TypeOK
<1>1. CASE ReadFwStep /\ (NoDummyFile \/ StepFails \/ StepDone)
  <2>1. FileThere
    BY DEF FileThere, FileInv
  <2>2. ReaderTypeOK' /\ ReadFwTypeOK'
    BY <1>1, <2>1, TransactionType, SequenceType
  <2>3. ret' \in {"OK", "FAILED", "KILLED"} /\ asked' = asked
    BY <1>1 DEF NoDummyFile, StepFails, StepDone, cliVars
  <2>4. excuse' \in SUBSET Excuses
    BY <1>1 DEF NoDummyFile, StepFails, StepDone, cliVars, Excuses
  <2>5. genuine' \in Retimers \cup {NoRetimer}
    BY <1>1, <2>2 DEF NoDummyFile, StepFails, StepDone, cliVars, ReadFwTypeOK
  <2> QED
    BY <2>2, <2>3, <2>4, <2>5
<1>2. CASE StartRun \/ StartFails
  <2>1. asked' \in ReadArgs /\ rt' \in Retimers
    BY <1>2, NamedType DEF StartRun, StartFails
  <2>2. excuse' \in SUBSET Excuses
    BY <1>2 DEF StartRun, StartFails, Excuses
  <2>3. /\ rpc' \in {"idle", "open"} /\ ret' \in {"OK", "FAILED", "KILLED"}
        /\ UNCHANGED <<readerVars, file, dummyfd, buf, page, loopVars, taken,
                       sound, genuine>>
    BY <1>2 DEF StartRun, StartFails
  <2> QED
    BY <2>1, <2>2, <2>3
       DEF readerVars, engineVars, loopVars, ReaderTypeOK, ReadFwTypeOK
<1>3. CASE Exit
  BY <1>3 DEF Exit, readerVars, engineVars, loopVars, cliVars, ReaderTypeOK,
              ReadFwTypeOK
<1>4. CASE Kill
  <2>1. /\ page' \in 0..(MaxPages + Registers)
        /\ attempt' \in 0..(MaxUpdateRetryCount - 1)
        /\ timeout' \in 0..MaxTimeoutSec
    BY <1>4 DEF Kill, Registers
  <2>2. ReaderTypeOK'
    BY <1>4 DEF Kill, readerVars, engineVars, ReaderTypeOK
  <2>3. ReadFwTypeOK'
    BY <1>4, <2>1, BlankType DEF Kill, ReadFwTypeOK
  <2> QED
    BY <1>4, <2>2, <2>3 DEF Kill
<1>5. CASE Engine
  BY <1>5, ReaderStepType DEF Engine, readVars, loopVars, cliVars, ReadFwTypeOK
<1>6. CASE UNCHANGED vars
  BY <1>6 DEF vars, readerVars, engineVars, readVars, loopVars, cliVars,
              ReaderTypeOK, ReadFwTypeOK
<1> QED
  BY <1>1, <1>2, <1>3, <1>4, <1>5, <1>6, SequenceOrNot

-------------------------------------------------------------------------------
(* The read and the file.                                                   *)

(* What a sound read rests on holds from run to run.                        *)
LEMMA ReadInvStep ==
    ASSUME TypeOK, ReadInv, [Next]_vars
    PROVE  ReadInv'
<1>1. CASE ReadFwStep
  BY <1>1, SequenceReadInv DEF TypeOK
<1>2. CASE Engine
  BY <1>2, EngineReadInv DEF Engine, TypeOK
<1>3. CASE StartRun \/ StartFails \/ Exit \/ Kill
  BY <1>3 DEF StartRun, StartFails, Exit, Kill, ReadInv, ReadCourse,
              ReadContent, Reading
<1>4. CASE UNCHANGED vars
  BY <1>4 DEF vars, readerVars, engineVars, readVars, loopVars, ReadInv,
              ReadCourse, ReadContent,
              Firmware
<1> QED
  BY <1>1, <1>2, <1>3, <1>4, SequenceOrNot

(* A step of the sequence changes the file by its opening and at its end.   *)
LEMMA FileChanges ==
    ASSUME TypeOK, FileInv, ReadFwStep
    PROVE  /\ FileInv' /\ rpc' # "idle"
           /\ file = NoFile \/ file' = file \/ WriteFile
<1>1. CASE BlankFile
  BY <1>1, BlankType DEF BlankFile, OpenFile, OpenFails, TruncateFails,
     LoadFile, LoadFails, Abort, FileInv, Reading, TypeOK, ReadFwTypeOK
<1>2. CASE CopyIn \/ CopyOutPage \/ CopyOutFails
  BY <1>2 DEF CopyIn, CopyInPage, CopyInRegister, CopyInFails, CopyOutPage,
              CopyOutFails, Abort, FileInv, Reading
<1>3. CASE ReadRetimer
  BY <1>3 DEF ReadRetimer, TriggerRead, TriggerReadFails, PollRead,
     PollReadFails, PollReadTimesOut, ReadComplete, ReadAgain, ReadGivesUp,
     BeginCopyOut, Abort, FileInv, Reading
<1>4. CASE WriteFile
  <2>1. file \in Memory /\ buf \in Memory
    BY <1>4 DEF WriteFile, FileInv, TypeOK, ReadFwTypeOK
  <2>2. file' \in Memory
    BY <1>4, <2>1 DEF WriteFile, Memory, Pages
  <2> QED
    BY <1>4, <2>2 DEF WriteFile, FileInv
<1> QED
  BY <1>1, <1>2, <1>3, <1>4 DEF ReadFwStep, CopyOut

(* The excuses, the file and the exit status.                               *)
LEMMA CliStep ==
    ASSUME TypeOK, ReadInv, CliInv, [Next]_vars
    PROVE  CliInv'
<1> USE DEF CliInv
<1>0. /\ rt \in Retimers /\ rt # NoRetimer
      /\ NoFile \notin Memory
      /\ eeprom' = eeprom
      /\ \A r \in Retimers : Firmware(r) \in Memory
  <2>1. eeprom' = eeprom
    BY DEF Next, NoDummyFile, StepFails, StepDone, StartRun, StartFails, Exit,
       Kill, Engine, ReaderStep, FillPage, FillDone, FillNack, OpenFile,
       OpenFails, TruncateFails, LoadFile, LoadFails, CopyInPage,
       CopyInRegister, CopyInFails, TriggerRead, TriggerReadFails, PollRead,
       PollReadFails, PollReadTimesOut, ReadComplete, ReadAgain, ReadGivesUp,
       BeginCopyOut, CopyOutPage, CopyOutFails, WriteFile, readerVars, vars
  <2> QED
    BY <2>1, FpgaReaderAssumption, ReadFwAssumption
       DEF TypeOK, ReaderTypeOK, ReadFwTypeOK, Firmware, Memory
<1>1. CASE ReadFwStep /\ (NoDummyFile \/ StepFails \/ StepDone)
  <2>1. /\ FileInv' /\ rpc' # "idle"
        /\ file = NoFile \/ file' = file \/ WriteFile
    BY <1>1, FileChanges
  <2>2. rpc # "idle" /\ rt' = rt /\ asked' = asked
    BY <1>1 DEF NoDummyFile, StepFails, StepDone, cliVars, OpenFile,
       OpenFails, TruncateFails, LoadFile, LoadFails, CopyInPage,
       CopyInRegister, CopyInFails, TriggerRead, TriggerReadFails, PollRead,
       PollReadFails, PollReadTimesOut, ReadComplete, ReadAgain, ReadGivesUp,
       BeginCopyOut, CopyOutPage, CopyOutFails, WriteFile, Abort
  <2>3. ExitZeroMeansRead'
    BY <2>1 DEF ExitZeroMeansRead
  <2>4. FileGenuine'
    <3>1. CASE WriteFile
      <4>1. genuine' = sound' /\ (sound' = rt \/ sound' = NoRetimer) /\ rpc' = "done"
        BY <1>1, <3>1 DEF WriteFile, NoDummyFile, StepFails, StepDone,
                          ReadInv, ReadCourse, ReadContent,
           OpenFails, TruncateFails, LoadFails, CopyInFails, TriggerReadFails,
           PollReadFails, CopyOutFails, Abort, OpenFile, LoadFile, CopyInPage,
           CopyInRegister, TriggerRead, PollRead, PollReadTimesOut, ReadAgain,
           CopyOutPage, ReadComplete, ReadGivesUp, BeginCopyOut
      <4>2. sound' = rt => file' = Firmware(rt)
        <5>1. ReadInv'
          BY <1>1, SequenceReadInv DEF TypeOK
        <5> QED
          BY <1>0, <2>2, <4>1, <5>1 DEF ReadInv, ReadCourse, ReadContent,
                                        Firmware
      <4> QED
        BY <1>0, <4>1, <4>2 DEF FileGenuine, Firmware
    <3>2. CASE ~WriteFile
      <4>1. genuine' = genuine
        BY <1>1, <3>2 DEF NoDummyFile, StepFails, StepDone, cliVars
      <4>2. genuine # NoRetimer => file = Firmware(genuine) /\ file # NoFile
        BY <1>0 DEF FileGenuine, Firmware, TypeOK
      <4> QED
        BY <1>0, <2>1, <3>2, <4>1, <4>2 DEF FileGenuine, Firmware
    <3> QED
      BY <3>1, <3>2
  <2>5. ExcuseInv'
    <3> USE DEF ExcuseInv
    <3>1. CASE NoDummyFile
      BY <2>2, <3>1 DEF NoDummyFile, OpenFails, TruncateFails, Abort
    <3>2. CASE StepFails
      BY <2>2, <3>2 DEF StepFails, LoadFails, CopyInFails, TriggerReadFails,
                        PollReadFails, CopyOutFails, Abort
    <3>3. CASE StepDone
      <4>1. CASE UNCHANGED cliVars /\
                 (OpenFile \/ LoadFile \/ CopyInPage \/ CopyInRegister
                  \/ TriggerRead \/ PollRead \/ PollReadTimesOut \/ ReadAgain
                  \/ CopyOutPage)
        BY <2>2, <4>1
           DEF cliVars, OpenFile, LoadFile, CopyInPage, CopyInRegister,
               TriggerRead, PollRead, PollReadTimesOut, ReadAgain, CopyOutPage
      <4>2. CASE ReadComplete /\ excuse' =
                       (IF taken = rt THEN excuse ELSE excuse \cup {"dropped"})
                 /\ UNCHANGED <<ret, asked, genuine>>
        BY <2>2, <4>2 DEF ReadComplete, BeginCopyOut
      <4>3. CASE ReadGivesUp /\ excuse' = excuse \cup {"gave up"}
                 /\ UNCHANGED <<ret, asked, genuine>>
        BY <2>2, <4>3 DEF ReadGivesUp, BeginCopyOut
      <4>4. CASE WriteFile
                 /\ excuse' = (IF sound' = sound THEN excuse
                                 ELSE excuse \cup {"short write"})
                 /\ UNCHANGED <<ret, asked>>
        BY <2>2, <4>4 DEF WriteFile
      <4> QED
        BY <3>3, <4>1, <4>2, <4>3, <4>4 DEF StepDone
    <3> QED
      BY <1>1, <3>1, <3>2, <3>3
  <2> QED
    BY <2>1, <2>3, <2>4, <2>5
<1>2. CASE StartRun \/ StartFails
  <2>1. UNCHANGED <<eeprom, file, genuine>>
    BY <1>0, <1>2 DEF StartRun, StartFails
  <2>2. FileGenuine'
    BY <2>1 DEF FileGenuine
  <2>3. FileInv' /\ ExitZeroMeansRead'
    BY <1>2 DEF StartRun, StartFails, FileInv, Reading, ExitZeroMeansRead
  <2>4. ExcuseInv'
    BY <1>2 DEF StartRun, StartFails, ExcuseInv
  <2> QED
    BY <2>2, <2>3, <2>4
<1>3. CASE Exit
  <2>1. UNCHANGED <<eeprom, file,
                    cliVars>> /\ rpc' = "idle" /\ rpc \in {"done", "failed"}
    BY <1>0, <1>3 DEF Exit
  <2>2. FileGenuine' /\ FileInv' /\ ExcuseInv'
    BY <2>1 DEF cliVars, FileGenuine, FileInv, Reading, ExcuseInv
  <2>3. ASSUME ret' = "OK", excuse' = {}
        PROVE  file' = [p \in Pages |-> eeprom'[asked']]
    <3>1. rpc = "done" /\ sound = rt /\ asked \in Retimers /\ rt = Named(asked)
      BY <2>1, <2>3 DEF cliVars, ExcuseInv
    <3>2. rt = asked
      BY <3>1, NamedType
    <3> QED
      BY <2>1, <3>1, <3>2 DEF ReadInv, ReadCourse, ReadContent, Firmware,
                              cliVars
  <2> QED
    BY <2>2, <2>3 DEF ExitZeroMeansRead
<1>4. CASE Kill
  BY <1>0, <1>4 DEF Kill, FileInv, Reading, ExcuseInv, FileGenuine,
                    ExitZeroMeansRead
<1>5. CASE Engine \/ UNCHANGED vars
  <2>1. UNCHANGED <<eeprom, readVars, cliVars>>
    BY <1>0, <1>5 DEF Engine, vars
  <2> QED
    BY <2>1 DEF readVars, cliVars, FileInv, Reading, ExcuseInv, FileGenuine,
                ExitZeroMeansRead
<1> QED
  BY <1>1, <1>2, <1>3, <1>4, <1>5, SequenceOrNot

-------------------------------------------------------------------------------

ReadCliInv == TypeOK /\ ReadInv /\ CliInv

(* The invariant of the runs.                                               *)
THEOREM ReadCliInvariance == Spec => []ReadCliInv
<1>1. Init => ReadCliInv
  <2> SUFFICES ASSUME Init PROVE ReadCliInv
    OBVIOUS
  <2> USE DEF Init, ReaderInit, ReadFwInit
  <2>1. ReadFwTypeOK
    <3>1. /\ page \in 0..(MaxPages + Registers)
          /\ attempt \in 0..(MaxUpdateRetryCount - 1)
          /\ timeout \in 0..MaxTimeoutSec
      BY FpgaReaderAssumption, ReadFwAssumption DEF Registers
    <3> QED
      BY <3>1, BlankType DEF ReadFwTypeOK
  <2>2. TypeOK
    BY <2>1 DEF TypeOK
  <2>3. ReadInv
    BY FpgaReaderAssumption DEF ReadInv, ReadCourse, ReadContent, Reading
  <2>4. CliInv
    BY DEF CliInv, FileInv, Reading, ExcuseInv, FileGenuine, ExitZeroMeansRead
  <2> QED
    BY <2>2, <2>3, <2>4 DEF ReadCliInv
<1>2. ReadCliInv /\ [Next]_vars => ReadCliInv'
  BY StepType, ReadInvStep, CliStep DEF ReadCliInv, CliInv
<1> QED
  BY <1>1, <1>2, PTL DEF Spec

(* The types of READ, and the bounds of its loops.                          *)
THEOREM ReadCliTypes == Spec => []TypeOK
<1>1. ReadCliInv => TypeOK
  BY DEF ReadCliInv
<1> QED
  BY <1>1, ReadCliInvariance, PTL

(* A file once read without excuse stays what it is until the next write(). *)
THEOREM FileStaysGenuine == Spec => []FileGenuine
<1>1. ReadCliInv => FileGenuine
  BY DEF ReadCliInv, CliInv
<1> QED
  BY <1>1, ReadCliInvariance, PTL

(* Exit status 0 means that the file is the retimer's, but for Excuses.     *)
THEOREM ExitZeroRead == Spec => []ExitZeroMeansRead
<1>1. ReadCliInv => ExitZeroMeansRead
  BY DEF ReadCliInv, CliInv
<1> QED
  BY <1>1, ReadCliInvariance, PTL

===============================================================================
