--------------------------- MODULE ComputeHashProofs ---------------------------
(***************************************************************************)
(* The safety properties of ComputeHash, for every number of retimers, DPRAM *)
(* pages, polls and attempts.                                               *)
(***************************************************************************)
EXTENDS ComputeHash, ReadFwProofs

Computing == {"open", "load", "copy_in", "copy_out", "done", "failed"}
                \cup Reading

(* The temporary file exists between open() and the removal at the end.     *)
FileInv ==
    /\ rpc \in {"idle", "open", "down"} => dummyfd = "none"
    /\ leftover = NoFile /\ dummyfd = "none" /\ rpc # "down" => file = NoFile
    /\ leftover = NoFile /\ rpc \in {"load", "copy_in"} => file = BlankMemory
    /\ leftover = NoFile /\ rpc = "copy_in" => buf = BlankMemory
    /\ rpc \in (Computing \cup {"hashed"}) \ {"open", "failed"} =>
          file \in Memory

(* The digest of a computation under way is empty, and not yet genuine.     *)
DigestInv ==
    /\ rpc \in Computing => rt \notin genuine /\ digest[rt] = NoDigest
    /\ rpc = "down" => signal = NoSignal
    /\ DigestGenuine
    /\ FailureSignalledEmpty

-------------------------------------------------------------------------------
(* Types.                                                                   *)

(* Every step keeps the types.                                              *)
LEMMA StepType ==
    ASSUME TypeOK, FileInv, [Next]_vars
    PROVE  TypeOK'
<1> USE FpgaReaderAssumption, ReadFwAssumption DEF TypeOK
<1>1. CASE GetHash
  <2>1. rt' \in Retimers /\ NoDigest \in Digest
    BY <1>1 DEF GetHash, Digest
  <2>2. digest' \in [Retimers -> Digest]
    BY <1>1, <2>1 DEF GetHash
  <2>3. genuine' \in SUBSET Retimers
    BY <1>1 DEF GetHash
  <2> QED
    BY <1>1, <2>1, <2>2, <2>3
       DEF GetHash, readerVars, engineVars, loopVars, ReaderTypeOK,
           ReadFwTypeOK
<1>2. CASE Read
  <2>1. FileThere
    BY DEF FileThere, FileInv, Computing
  <2> QED
    BY <1>2, <2>1, TransactionType, SequenceType DEF Read, serviceVars
<1>3. CASE HashFile
  <2>1. file \in Digest /\ rt \in Retimers
    BY <1>3 DEF HashFile, FileInv, Computing, Digest, ReadFwTypeOK
  <2>2. digest' \in [Retimers -> Digest] /\ genuine' \in SUBSET Retimers
    BY <1>3, <2>1 DEF HashFile
  <2> QED
    BY <1>3, <2>2 DEF HashFile, readerVars, engineVars, loopVars,
                      ReaderTypeOK, ReadFwTypeOK
<1>4. CASE HashFails
  BY <1>4 DEF HashFails, readerVars, engineVars, loopVars, serviceVars,
              ReaderTypeOK, ReadFwTypeOK
<1>5. CASE Finish \/ FinishUnlinkFails
  <2>1. signal' \in Signal
    BY <1>5 DEF Finish, FinishUnlinkFails, Announce, Signal, ReadFwTypeOK
  <2>2. /\ file' \in Memory \cup {NoFile}
        /\ leftover' \in Memory \cup {NoFile}
        /\ dummyfd' \in {"none", "open"}
        /\ rpc' = "idle"
    BY <1>5 DEF Finish, FinishUnlinkFails, Announce, ReadFwTypeOK
  <2>3. UNCHANGED <<readerVars, rt, buf, page, loopVars, taken, sound, digest,
                    genuine>>
    BY <1>5 DEF Finish, FinishUnlinkFails, Announce
  <2> QED
    BY <2>1, <2>2, <2>3 DEF readerVars, engineVars, loopVars, ReaderTypeOK,
                            ReadFwTypeOK
<1>6. CASE Stop
  <2>1. digest' \in [Retimers -> Digest]
    BY <1>6 DEF Stop, Digest
  <2>2. /\ page' \in 0..(MaxPages + Registers)
        /\ attempt' \in 0..(MaxUpdateRetryCount - 1)
        /\ timeout' \in 0..MaxTimeoutSec
    BY <1>6 DEF Stop, Registers
  <2>3. ReaderTypeOK'
    BY <1>6 DEF Stop, readerVars, engineVars, ReaderTypeOK
  <2>4. ReadFwTypeOK'
    BY <1>6, <2>2, BlankType DEF Stop, ReadFwTypeOK
  <2> QED
    BY <1>6, <2>1, <2>3, <2>4 DEF Stop
<1>7. CASE Restart
  <2>1. file' \in Memory \cup {NoFile} /\ leftover' \in Memory \cup {NoFile}
    BY <1>7 DEF Restart, ReadFwTypeOK
  <2> QED
    BY <1>7, <2>1 DEF Restart, readerVars, engineVars, loopVars, ReaderTypeOK,
                      ReadFwTypeOK
<1>8. CASE Engine
  BY <1>8, ReaderStepType DEF Engine, readVars, loopVars, serviceVars,
                              ReadFwTypeOK
<1>9. CASE UNCHANGED vars
  BY <1>9 DEF vars, readerVars, engineVars, readVars, loopVars, serviceVars,
              ReaderTypeOK, ReadFwTypeOK
<1> QED
  BY <1>1, <1>2, <1>3, <1>4, <1>5, <1>6, <1>7, <1>8, <1>9 DEF Next, Service

-------------------------------------------------------------------------------
(* The temporary file.                                                      *)

(* The file is there when it is needed, and blank unless one was left over. *)
LEMMA FileStep ==
    ASSUME TypeOK, FileInv, [Next]_vars
    PROVE  FileInv'
<1> USE DEF FileInv, Computing, Reading
<1>1. CASE Read
  <2>1. CASE BlankFile
    <3>1. CASE OpenFile
      BY <1>1, <3>1, BlankType
         DEF OpenFile, Read, serviceVars, TypeOK, ReadFwTypeOK
    <3>2. CASE LoadFile
      BY <1>1, <3>2 DEF LoadFile, Read, serviceVars
    <3>3. CASE OpenFails \/ TruncateFails \/ LoadFails
      BY <1>1, <3>3 DEF OpenFails, TruncateFails, LoadFails, Abort, Read,
                        serviceVars
    <3> QED
      BY <2>1, <3>1, <3>2, <3>3 DEF BlankFile
  <2>2. CASE CopyIn
    BY <1>1, <2>2 DEF CopyIn, CopyInPage, CopyInRegister, CopyInFails, Abort,
                      Read, serviceVars
  <2>3. CASE ReadRetimer
    BY <1>1, <2>3
       DEF ReadRetimer, TriggerRead, TriggerReadFails, PollRead, PollReadFails,
           PollReadTimesOut, ReadComplete, ReadAgain, ReadGivesUp,
           BeginCopyOut, Abort, Read, serviceVars
  <2>4. CASE CopyOutPage \/ CopyOutFails
    BY <1>1, <2>4 DEF CopyOutPage, CopyOutFails, Abort, Read, serviceVars
  <2>5. CASE WriteFile
    <3>1. file \in Memory /\ buf \in Memory
      BY <2>5 DEF WriteFile, TypeOK, ReadFwTypeOK
    <3>2. file' \in Memory
      BY <2>5, <3>1 DEF WriteFile, Memory, Pages
    <3> QED
      BY <1>1, <2>5, <3>1, <3>2, ReadFwAssumption DEF WriteFile, Read,
                                                      serviceVars
  <2> QED
    BY <1>1, <2>1, <2>2, <2>3, <2>4, <2>5 DEF Read, ReadFwStep, CopyOut
<1>2. CASE GetHash \/ HashFile \/ HashFails
  <2>1. CASE GetHash
    BY <2>1 DEF GetHash
  <2>2. CASE HashFile
    BY <2>2 DEF HashFile
  <2>3. CASE HashFails
    BY <2>3 DEF HashFails, serviceVars
  <2> QED
    BY <1>2, <2>1, <2>2, <2>3
<1>3. CASE Finish
  BY <1>3 DEF Finish, Announce, TypeOK, ReadFwTypeOK
<1>4. CASE FinishUnlinkFails
  BY <1>4 DEF FinishUnlinkFails, Announce
<1>5. CASE Stop \/ Restart
  BY <1>5 DEF Stop, Restart
<1>6. CASE Engine
  BY <1>6 DEF Engine, readVars, serviceVars
<1>7. CASE UNCHANGED vars
  BY <1>7 DEF vars, readVars, serviceVars
<1> QED
  BY <1>1, <1>2, <1>3, <1>4, <1>5, <1>6, <1>7 DEF Next, Service

-------------------------------------------------------------------------------
(* The course of a read, whatever the DPRAM holds.                          *)
LEMMA CourseStep ==
    ASSUME TypeOK, ReadCourse, [Next]_vars
    PROVE  ReadCourse'
<1>1. CASE Read
  BY <1>1, SequenceCourse DEF Read, TypeOK
<1>2. CASE Engine
  BY <1>2, EngineCourse DEF Engine
<1>3. CASE GetHash \/ HashFile \/ HashFails \/ Finish \/ FinishUnlinkFails
           \/ Stop \/ Restart
  BY <1>3 DEF GetHash, HashFile, HashFails, Finish, FinishUnlinkFails,
              Announce, Stop, Restart, ReadCourse, Reading
<1>4. CASE UNCHANGED vars
  BY <1>4 DEF vars, readerVars, engineVars, readVars, loopVars, ReadCourse
<1> QED
  BY <1>1, <1>2, <1>3, <1>4 DEF Next, Service

(* What a sound read rests on holds in every step of the service.           *)
LEMMA ReadInvStep ==
    ASSUME TypeOK, ReadInv, [Next]_vars
    PROVE  ReadInv'
<1>1. CASE Read
  BY <1>1, SequenceReadInv DEF Read, TypeOK
<1>2. CASE Engine
  BY <1>2, EngineReadInv DEF Engine, TypeOK
<1>3. CASE GetHash \/ HashFile \/ HashFails \/ Finish \/ FinishUnlinkFails
           \/ Stop \/ Restart
  BY <1>3 DEF GetHash, HashFile, HashFails, Finish, FinishUnlinkFails,
              Announce, Stop, Restart, ReadInv, ReadCourse, ReadContent, Reading
<1>4. CASE UNCHANGED vars
  BY <1>4 DEF vars, readerVars, engineVars, readVars, loopVars, ReadInv,
              ReadCourse, ReadContent, Firmware
<1> QED
  BY <1>1, <1>2, <1>3, <1>4 DEF Next, Service

-------------------------------------------------------------------------------
(* The digests.                                                             *)

(* A step that changes neither digests nor signals nor EEPROMs, and is not  *)
(* the beginning of a computation or of a stop.                             *)
LEMMA QuietDigestInv ==
    ASSUME DigestInv, UNCHANGED <<eeprom, rt, digest, signal, genuine>>,
           leftover' = leftover,
           rpc' \in Computing => rpc \in Computing,
           rpc' = "down" => rpc = "down"
    PROVE  DigestInv'
BY DEF DigestInv, DigestGenuine, FailureSignalledEmpty

(* The sequence belongs to a computation, and reads the EEPROMs only.       *)
LEMMA SequenceQuiet ==
    ASSUME ReadFwStep
    PROVE  rpc \in Computing /\ rpc' # "down" /\ UNCHANGED <<eeprom, rt>>
BY DEF Computing, Reading, ReadFwStep, BlankFile, CopyIn, ReadRetimer,
       CopyOut, OpenFile, OpenFails, TruncateFails, LoadFile, LoadFails,
       CopyInPage, CopyInRegister, CopyInFails, TriggerRead, TriggerReadFails,
       PollRead, PollReadFails, PollReadTimesOut, ReadComplete, ReadAgain,
       ReadGivesUp, BeginCopyOut, CopyOutPage, CopyOutFails, WriteFile, Abort,
       readerVars

(* A signal tells of a failure with an empty Digest, but for unlink().      *)
LEMMA DigestStep ==
    ASSUME TypeOK, FileInv, ReadInv, DigestInv, [Next]_vars
    PROVE  DigestInv'
<1>0. rt \in Retimers /\ rt # NoRetimer /\ digest \in [Retimers -> Digest]
  BY FpgaReaderAssumption DEF TypeOK, ReadFwTypeOK
<1>1. CASE Read
  <2>1. UNCHANGED <<eeprom, rt, digest, signal, genuine, leftover>>
    BY <1>1, SequenceQuiet DEF Read, serviceVars
  <2>2. rpc \in Computing /\ rpc' # "down"
    BY <1>1, SequenceQuiet DEF Read
  <2> QED
    BY <2>1, <2>2, QuietDigestInv
<1>2. CASE Engine
  <2>1. UNCHANGED <<eeprom, readVars, serviceVars>>
    BY <1>2 DEF Engine, ReaderStep, FillPage, FillDone, FillNack
  <2> QED
    BY <2>1, QuietDigestInv DEF readVars, serviceVars
<1>3. CASE GetHash
  <2>1. /\ rt' \in Retimers /\ rpc' = "open"
        /\ digest' = [digest EXCEPT ![rt'] = NoDigest]
        /\ genuine' = genuine \ {rt'}
        /\ UNCHANGED <<eeprom, signal, leftover>>
    BY <1>3 DEF GetHash, readerVars
  <2>2. digest'[rt'] = NoDigest /\ rt' \notin genuine'
    BY <1>0, <2>1
  <2>3. \A r \in genuine' : r \in genuine /\ digest'[r] = digest[r]
    BY <1>0, <2>1
  <2>4. DigestGenuine'
    BY <2>1, <2>3 DEF DigestInv, DigestGenuine
  <2>5. FailureSignalledEmpty'
    BY <2>1 DEF DigestInv, FailureSignalledEmpty
  <2> QED
    BY <2>1, <2>2, <2>4, <2>5 DEF DigestInv
<1>4. CASE HashFile
  <2>1. /\ rpc = "done" /\ rpc' = "hashed"
        /\ digest' = [digest EXCEPT ![rt] = file]
        /\ genuine' = IF sound = rt THEN genuine \cup {rt} ELSE genuine
        /\ UNCHANGED <<eeprom, rt, signal, leftover>>
    BY <1>4 DEF HashFile, readerVars
  <2>2. rt \notin genuine
    BY <2>1 DEF DigestInv, Computing
  <2>3. sound = rt => digest'[rt] = Firmware(rt)
    BY <1>0, <2>1 DEF ReadInv, ReadCourse, ReadContent
  <2>4. \A r \in Retimers \ {rt} : digest'[r] = digest[r]
    BY <1>0, <2>1
  <2>5. DigestGenuine'
    <3> SUFFICES ASSUME NEW r \in genuine', digest'[r] # NoDigest
                 PROVE  digest'[r] = [p \in Pages |-> eeprom'[r]]
      BY DEF DigestGenuine
    <3>1. eeprom' = eeprom
      BY <2>1
    <3>2. CASE r = rt
      BY <2>1, <2>2, <2>3, <3>1, <3>2 DEF Firmware
    <3>3. CASE r # rt
      <4>1. r \in genuine /\ r \in Retimers
        BY <2>1, <3>3 DEF TypeOK
      <4> QED
        BY <2>1, <2>4, <3>3, <4>1 DEF DigestInv, DigestGenuine
    <3> QED
      BY <3>2, <3>3
  <2>6. FailureSignalledEmpty'
    BY <2>1 DEF DigestInv, FailureSignalledEmpty
  <2>7. rpc' \notin Computing
    BY <2>1 DEF Computing, Reading
  <2> QED
    BY <2>1, <2>5, <2>6, <2>7 DEF DigestInv
<1>5. CASE HashFails
  BY <1>5, QuietDigestInv DEF HashFails, serviceVars, readerVars, Computing
<1>6. CASE Finish \/ FinishUnlinkFails
  <2>1. UNCHANGED <<eeprom, rt, digest, genuine>> /\ rpc' = "idle"
    BY <1>6 DEF Finish, FinishUnlinkFails, Announce, readerVars
  <2>2. DigestGenuine'
    BY <2>1 DEF DigestInv, DigestGenuine
  <2>3. FailureSignalledEmpty'
    <3>1. CASE Finish
      <4>1. signal'.result = "failed" => rpc = "failed"
        BY <3>1 DEF Finish, Announce
      <4>2. signal'.digest = digest[rt]
        BY <3>1 DEF Finish, Announce
      <4> QED
        BY <4>1, <4>2 DEF DigestInv, Computing, FailureSignalledEmpty
    <3>2. CASE FinishUnlinkFails
      <4>1. leftover' = file /\ (rpc = "failed" => digest[rt] = NoDigest)
        BY <3>2 DEF FinishUnlinkFails, DigestInv, Computing
      <4>2. file = NoFile => rpc = "failed"
        BY <3>2, ReadFwAssumption DEF FinishUnlinkFails, FileInv
      <4> QED
        BY <3>2, <4>1, <4>2 DEF FinishUnlinkFails, Announce,
                                FailureSignalledEmpty
    <3> QED
      BY <1>6, <3>1, <3>2
  <2>4. rpc' \notin Computing
    BY <2>1 DEF Computing, Reading
  <2> QED
    BY <2>1, <2>2, <2>3, <2>4 DEF DigestInv
<1>7. CASE Stop
  BY <1>7 DEF Stop, DigestInv, DigestGenuine, FailureSignalledEmpty, Computing,
              Reading
<1>8. CASE Restart
  <2>1. UNCHANGED <<eeprom, digest, signal, genuine>> /\ rpc' = "idle"
        /\ signal = NoSignal
    BY <1>8 DEF Restart, readerVars, DigestInv
  <2> QED
    BY <2>1 DEF DigestInv, DigestGenuine, FailureSignalledEmpty, Computing,
                Reading
<1>9. CASE UNCHANGED vars
  BY <1>9, QuietDigestInv DEF vars, readerVars, readVars, serviceVars
<1> QED
  BY <1>1, <1>2, <1>3, <1>4, <1>5, <1>6, <1>7, <1>8, <1>9 DEF Next, Service

-------------------------------------------------------------------------------

HashInv == TypeOK /\ FileInv /\ ReadInv /\ DigestInv

(* The service begins in it, on any FPGA.                                   *)
LEMMA HashInit ==
    ASSUME Init
    PROVE  HashInv
<1> USE DEF Init, ReaderInit, ReadFwInit
<1>1. ReadFwTypeOK
  <2>1. /\ page \in 0..(MaxPages + Registers)
        /\ attempt \in 0..(MaxUpdateRetryCount - 1)
        /\ timeout \in 0..MaxTimeoutSec
    BY FpgaReaderAssumption, ReadFwAssumption DEF Registers
  <2> QED
    BY <2>1, BlankType DEF ReadFwTypeOK
<1>2. TypeOK
  BY <1>1 DEF TypeOK, Digest
<1>3. FileInv
  BY DEF FileInv, Computing, Reading
<1>4. ReadInv
  BY FpgaReaderAssumption DEF ReadInv, ReadCourse, ReadContent, Reading
<1>5. DigestInv
  BY DEF DigestInv, DigestGenuine, FailureSignalledEmpty, Computing, Reading
<1> QED
  BY <1>2, <1>3, <1>4, <1>5 DEF HashInv

(* The invariant of the service.                                            *)
THEOREM HashInvariance == Spec => []HashInv
<1>1. Init => HashInv
  BY HashInit
<1>2. HashInv /\ [Next]_vars => HashInv'
  BY StepType, FileStep, ReadInvStep, DigestStep DEF HashInv
<1> QED
  BY <1>1, <1>2, PTL DEF Spec

(* The types of the hash service, and the bounds of its loops.              *)
THEOREM HashTypes == Spec => []TypeOK
<1>1. HashInv => TypeOK
  BY DEF HashInv
<1> QED
  BY <1>1, HashInvariance, PTL

(* A digest computed from a sound read is the digest of that retimer.       *)
THEOREM Genuine == Spec => []DigestGenuine
<1>1. HashInv => DigestGenuine
  BY DEF HashInv, DigestInv
<1> QED
  BY <1>1, HashInvariance, PTL

(* The DPRAM is cleared with a blank file, also after a kill.               *)
THEOREM BlankRead == Spec => []BlankBeforeRead
<1>1. HashInv => BlankBeforeRead
  BY DEF HashInv, FileInv, BlankBeforeRead
<1> QED
  BY <1>1, HashInvariance, PTL

(* A failed computation is announced with an empty digest.                  *)
THEOREM FailureEmpty == Spec => []FailureSignalledEmpty
<1>1. HashInv => FailureSignalledEmpty
  BY DEF HashInv, DigestInv
<1> QED
  BY <1>1, HashInvariance, PTL

===============================================================================
