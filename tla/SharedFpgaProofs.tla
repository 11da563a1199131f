--------------------------- MODULE SharedFpgaProofs ---------------------------
(***************************************************************************)
(* What an update session and the hash service may still promise when they  *)
(* share the FPGA, proved for every baseboard, every set of images and      *)
(* every bound.  What is proved of each of them alone is used, not repeated.*)
(***************************************************************************)
EXTENDS SharedFpga, UpdateFwProofs

H == INSTANCE ComputeHashProofs WITH
    page <- hpage,
    attempt <- hattempt,
    timeout <- htimeout

(* What the service on its own assumes of its constants holds here.         *)
LEMMA HashConstants ==
    /\ MaxPages \in Nat /\ NoRetimer \notin Retimers
    /\ MaxTimeoutSec \in Nat \ {0} /\ MaxUpdateRetryCount \in Nat \ {0}
    /\ Blank \in Contents
    /\ NoFile \notin H!Memory /\ NoDigest \notin H!Memory
BY FpgaAssumption, UpdateFwAssumption, SharedFpgaAssumption
   DEF H!Memory, H!Pages, Pages, Contents

(* A step of the service or of the reading engine.                          *)
ServiceStep == GetHash \/ HashStep \/ FinishHash

(* A step of the update or of the programming engine, or none.              *)
UpdateOrNone == [Next]_vars /\ Spoil /\ UNCHANGED <<hashVars, disturbed>>

(* The session is not interrupted by a step of the service, the EEPROMs are *)
(* not written.                                                             *)
LEMMA ServiceKeepsSession ==
    ASSUME ServiceStep
    PROVE  UNCHANGED <<busy, verdict, eeprom, mainVars>>
<1>1. CASE GetHash
  BY <1>1 DEF GetHash, Hash!GetHash, Hash!readerVars
<1>2. CASE HashStep
  BY <1>2 DEF HashStep, CopyInRegister, CopyInFails,
     Hash!CopyInRegister, Hash!CopyInFails, Hash!BlankFile, Hash!OpenFile,
     Hash!OpenFails, Hash!TruncateFails, Hash!LoadFile, Hash!LoadFails,
     Hash!CopyInPage, Hash!ReadRetimer, Hash!TriggerRead,
     Hash!TriggerReadFails, Hash!PollRead, Hash!PollReadFails,
     Hash!PollReadTimesOut, Hash!ReadComplete, Hash!ReadAgain,
     Hash!ReadGivesUp, Hash!BeginCopyOut, Hash!CopyOut, Hash!CopyOutPage,
     Hash!CopyOutFails, Hash!WriteFile, Hash!ReaderStep, Hash!FillPage,
     Hash!FillDone, Hash!FillNack, Hash!readerVars
<1>3. CASE FinishHash
  BY <1>3 DEF FinishHash, Hash!HashFile, Hash!HashFails, Hash!Finish,
              Hash!Announce, Hash!readerVars
<1> QED
  BY <1>1, <1>2, <1>3 DEF ServiceStep

-------------------------------------------------------------------------------
(* To the service, a step of its own is one it could also do alone.         *)

USE DEF Hash!readerVars, H!readerVars, Hash!engineVars, H!engineVars,
        Hash!loopVars, H!loopVars, Hash!BlankMemory, H!BlankMemory,
        Hash!Pages, H!Pages

LEMMA SameAbort == Hash!Abort => H!Abort
BY DEF Hash!Abort, H!Abort

LEMMA SameBlankFile == Hash!BlankFile => H!BlankFile
BY SameAbort
   DEF Hash!BlankFile, Hash!OpenFile, Hash!OpenFails, Hash!TruncateFails,
       Hash!LoadFile, Hash!LoadFails,
       H!BlankFile, H!OpenFile, H!OpenFails, H!TruncateFails, H!LoadFile,
       H!LoadFails

LEMMA SameCopyIn ==
    Hash!CopyInPage \/ Hash!CopyInRegister \/ Hash!CopyInFails => H!CopyIn
BY SameAbort
   DEF Hash!CopyInPage, Hash!CopyInRegister, Hash!CopyInFails, Hash!WritePage,
       Hash!Registers,
       H!CopyIn, H!CopyInPage, H!CopyInRegister, H!CopyInFails, H!WritePage,
       H!Registers

LEMMA SameReadRetimer == Hash!ReadRetimer => H!ReadRetimer
BY SameAbort
   DEF Hash!ReadRetimer, Hash!TriggerRead, Hash!TriggerReadFails,
       Hash!PollRead, Hash!PollReadFails, Hash!PollReadTimesOut,
       Hash!ReadComplete, Hash!ReadAgain, Hash!ReadGivesUp, Hash!BeginCopyOut,
       Hash!AcceptRead, Hash!IgnoreRead, Hash!ReadStatus,
       H!ReadRetimer, H!TriggerRead, H!TriggerReadFails, H!PollRead,
       H!PollReadFails, H!PollReadTimesOut, H!ReadComplete, H!ReadAgain,
       H!ReadGivesUp, H!BeginCopyOut, H!AcceptRead, H!IgnoreRead, H!ReadStatus

LEMMA SameCopyOut == Hash!CopyOut => H!CopyOut
BY SameAbort
   DEF Hash!CopyOut, Hash!CopyOutPage, Hash!CopyOutFails, Hash!WriteFile,
       H!CopyOut, H!CopyOutPage, H!CopyOutFails, H!WriteFile

LEMMA SameReader == Hash!ReaderStep => H!ReaderStep
BY DEF Hash!ReaderStep, Hash!FillPage, Hash!FillDone, Hash!FillNack,
       Hash!WritePage,
       H!ReaderStep, H!FillPage, H!FillDone, H!FillNack, H!WritePage

LEMMA GetHashIs == GetHash => H!GetHash
BY DEF GetHash, Hash!GetHash, H!GetHash

LEMMA HashStepIs == HashStep => H!Read \/ H!Engine
<1> SUFFICES ASSUME HashStep PROVE H!Read \/ H!Engine
  OBVIOUS
<1>1. CASE Hash!ReaderStep /\ UNCHANGED readVars
  BY <1>1, SameReader
     DEF HashStep, readVars, serviceVars, H!Engine, H!readVars, H!serviceVars
<1>2. CASE ~(Hash!ReaderStep /\ UNCHANGED readVars)
  <2>1. H!ReadFwStep
    BY <1>2, SameBlankFile, SameCopyIn, SameReadRetimer, SameCopyOut
       DEF HashStep, CopyInRegister, CopyInFails, H!ReadFwStep, H!CopyIn
  <2>2. UNCHANGED H!serviceVars
    BY DEF HashStep, serviceVars, H!serviceVars
  <2> QED
    BY <2>1, <2>2 DEF H!Read
<1> QED
  BY <1>1, <1>2

LEMMA FinishHashIs == FinishHash => H!HashFile \/ H!HashFails \/ H!Finish
BY DEF FinishHash, Hash!HashFile, Hash!HashFails, Hash!Finish, Hash!Announce,
       Hash!serviceVars, H!HashFile, H!HashFails, H!Finish, H!Announce,
       H!serviceVars

LEMMA ServiceIsHash == ServiceStep => H!Next
BY GetHashIs, HashStepIs, FinishHashIs DEF ServiceStep, H!Next, H!Service

HIDE DEF Hash!readerVars, H!readerVars, Hash!engineVars, H!engineVars,
         Hash!loopVars, H!loopVars, Hash!BlankMemory, H!BlankMemory,
         Hash!Pages, H!Pages

-------------------------------------------------------------------------------
(* What the service can still rely on.                                      *)

(* What a sound read rests on, unless the retimer is spoilt; and the digest *)
(* of a computation under way is empty.                                     *)
ServiceInv ==
    /\ H!TypeOK
    /\ H!FileInv
    /\ H!ReadCourse
    /\ rt \notin spoilt => H!ReadContent
    /\ rpc \in H!Computing => rt \notin genuine /\ digest[rt] = NoDigest
    /\ DigestUnlessSpoilt

(* A step of the service.                                                   *)
LEMMA ServiceKeepsItself ==
    ASSUME ServiceInv, ServiceStep
    PROVE  ServiceInv'
<1>1. H!TypeOK /\ H!FileInv /\ H!ReadCourse /\ H!Next
  BY ServiceIsHash DEF ServiceInv
<1>2. H!TypeOK'
  BY <1>1, HashConstants, H!StepType
<1>3. H!FileInv'
  BY <1>1, HashConstants, H!FileStep
<1>4. H!ReadCourse'
  BY <1>1, HashConstants, H!CourseStep
<1>5. rt \notin spoilt => H!ReadContent'
  BY <1>1, HashConstants, H!ReadInvStep DEF ServiceInv, H!ReadInv
<1>6. /\ rt \in Retimers /\ digest \in [Retimers -> H!Digest]
      /\ genuine \in SUBSET Retimers /\ eeprom' = eeprom
  BY <1>1, ServiceKeepsSession DEF H!TypeOK, H!ReadFwTypeOK
<1>7. CASE GetHash
  <2>1. /\ rpc' = "open" /\ rt' \in Retimers /\ spoilt' = spoilt \ {rt'}
        /\ genuine' = genuine \ {rt'}
        /\ digest' = [digest EXCEPT ![rt'] = NoDigest]
    BY <1>7, GetHashIs DEF GetHash, H!GetHash
  <2>2. H!ReadContent'
    BY <2>1 DEF H!ReadContent, H!Reading
  <2>3. DigestUnlessSpoilt'
    BY <1>6, <2>1 DEF ServiceInv, DigestUnlessSpoilt
  <2> QED
    BY <1>2, <1>3, <1>4, <1>6, <2>1, <2>2, <2>3 DEF ServiceInv
<1>8. CASE HashStep
  <2>1. UNCHANGED <<digest, genuine, spoilt>>
    BY <1>8 DEF HashStep, serviceVars
  <2>2. /\ rt' = rt
        /\ rpc' \in H!Computing => rpc \in H!Computing
    <3>1. CASE H!Read
      BY <3>1, H!SequenceQuiet, HashConstants DEF H!Read
    <3>2. CASE H!Engine
      BY <3>2 DEF H!Engine, H!readVars
    <3> QED
      BY <1>8, <3>1, <3>2, HashStepIs
  <2>3. DigestUnlessSpoilt'
    BY <1>6, <2>1 DEF ServiceInv, DigestUnlessSpoilt
  <2> QED
    BY <1>2, <1>3, <1>4, <1>5, <2>1, <2>2, <2>3 DEF ServiceInv
<1>9. CASE FinishHash
  <2>1. rt' = rt /\ spoilt' = spoilt
    BY <1>9, FinishHashIs DEF FinishHash, H!HashFile, H!HashFails, H!Finish,
                              H!Announce
  <2>2. CASE H!HashFile
    <3>1. /\ rpc = "done" /\ rpc' = "hashed"
          /\ digest' = [digest EXCEPT ![rt] = file]
          /\ genuine' = IF sound = rt THEN genuine \cup {rt} ELSE genuine
      BY <2>2 DEF H!HashFile
    <3>2. rt \notin genuine
      BY <3>1 DEF ServiceInv, H!Computing
    <3>3. sound = rt /\ rt \notin spoilt => file = H!Firmware(rt)
      BY <3>1 DEF ServiceInv, H!ReadContent
    <3>4. H!Firmware(rt) = [p \in Pages |-> eeprom[rt]]
      BY DEF H!Firmware, H!Pages, Pages
    <3>5. ASSUME NEW r \in genuine' \ spoilt'
          PROVE  digest'[r] # NoDigest => digest'[r] = [p \in Pages |-> eeprom[r]]
      <4>1. CASE r = rt
        <5>1. r \in genuine' /\ r \notin spoilt
          BY <2>1, <3>5
        <5>2. sound = rt
          BY <3>1, <3>2, <4>1, <5>1
        <5>3. digest'[r] = file
          BY <1>6, <3>1, <4>1
        <5> QED
          BY <3>3, <3>4, <4>1, <5>1, <5>2, <5>3
      <4>2. CASE r # rt
        <5>1. r \in genuine \ spoilt /\ digest'[r] = digest[r]
          BY <1>6, <2>1, <3>1, <3>5, <4>2
        <5> QED
          BY <5>1 DEF ServiceInv, DigestUnlessSpoilt
      <4> QED
        BY <4>1, <4>2
    <3>6. DigestUnlessSpoilt'
      BY <1>6, <3>5 DEF DigestUnlessSpoilt
    <3> QED
      BY <1>2, <1>3, <1>4, <1>5, <2>1, <3>1, <3>6
         DEF ServiceInv, H!Computing, H!Reading
  <2>3. CASE H!HashFails \/ H!Finish
    <3>1. /\ UNCHANGED <<digest, genuine>>
          /\ rpc' \in H!Computing => rpc \in H!Computing
      BY <2>3 DEF H!HashFails, H!Finish, H!Announce, H!serviceVars,
                  H!Computing, H!Reading
    <3>2. DigestUnlessSpoilt'
      BY <1>6, <2>1, <3>1 DEF ServiceInv, DigestUnlessSpoilt
    <3> QED
      BY <1>2, <1>3, <1>4, <1>5, <2>1, <3>1, <3>2 DEF ServiceInv
  <2> QED
    BY <1>9, <2>2, <2>3, FinishHashIs
<1> QED
  BY <1>7, <1>8, <1>9 DEF ServiceStep

(* A step of the update: it spoils what it changes under the service.       *)
LEMMA UpdateKeepsService ==
    ASSUME ServiceInv, TypeOK', UpdateOrNone
    PROVE  ServiceInv'
<1>1. /\ UNCHANGED <<reading, filled, nack, rpc, rt, file, dummyfd, buf, hpage,
                     hattempt, htimeout, rsp, taken, sound>>
      /\ UNCHANGED <<digest, signal, genuine, leftover>>
  BY DEF UpdateOrNone, hashVars, readVars, serviceVars
<1>2. /\ spoilt \in SUBSET spoilt'
      /\ \A r \in Retimers : r \notin spoilt' => eeprom'[r] = eeprom[r]
      /\ taken = rt /\ rt \notin spoilt' => dpram' = dpram
  BY DEF UpdateOrNone, Spoil, InRead
<1>3. rt \in Retimers /\ genuine \in SUBSET Retimers
  BY DEF ServiceInv, H!TypeOK, H!ReadFwTypeOK
<1>4. H!TypeOK'
  <2>1. H!ReaderTypeOK'
    BY <1>1 DEF ServiceInv, H!TypeOK, H!ReaderTypeOK, TypeOK, FpgaTypeOK,
                H!Memory, H!Pages, Pages
  <2>2. H!ReadFwTypeOK'
    BY <1>1 DEF ServiceInv, H!TypeOK, H!ReadFwTypeOK
  <2> QED
    BY <1>1, <2>1, <2>2 DEF ServiceInv, H!TypeOK
<1>5. H!FileInv' /\ H!ReadCourse'
  BY <1>1 DEF ServiceInv, H!FileInv, H!ReadCourse
<1>6. rt \notin spoilt' => H!ReadContent'
  <2> SUFFICES ASSUME rt \notin spoilt' PROVE H!ReadContent'
    OBVIOUS
  <2>1. H!ReadContent /\ eeprom'[rt] = eeprom[rt]
    BY <1>2, <1>3 DEF ServiceInv
  <2>2. taken = rt => dpram' = dpram
    BY <1>2
  <2>3. rpc = "copy_out" /\ sound = rt => taken = rt
    BY DEF ServiceInv, H!ReadCourse
  <2> QED
    BY <1>1, <2>1, <2>2, <2>3 DEF H!ReadContent, H!Firmware
<1>7. DigestUnlessSpoilt'
  <2> SUFFICES ASSUME NEW r \in genuine \ spoilt', digest[r] # NoDigest
               PROVE  digest[r] = [p \in Pages |-> eeprom'[r]]
    BY <1>1 DEF DigestUnlessSpoilt
  <2>1. r \in genuine \ spoilt /\ eeprom'[r] = eeprom[r]
    BY <1>2, <1>3
  <2>2. digest[r] = [p \in Pages |-> eeprom[r]]
    BY <2>1 DEF ServiceInv, DigestUnlessSpoilt
  <2> QED
    BY <2>1, <2>2
<1> QED
  BY <1>1, <1>4, <1>5, <1>6, <1>7 DEF ServiceInv

-------------------------------------------------------------------------------
(* What the session can still rely on.                                      *)

(* What an EEPROM may hold after an operation: what the service has put     *)
(* into the DPRAM may be what the FPGA has programmed.                      *)
Fine ==
    [o \in 1..Len(ops) |->
        {ops[o].img} \cup (IF o \in disturbed THEN {Blank} ELSE {})]

(* Whose image the size register tells the size of.                         *)
RegisterInv ==
    pc \in {"read_size", "write_crc", "read_crc", "trigger", "poll", "check"} =>
        sizeReg \in {Image, Blank, Foreign}

SessionInv ==
    /\ TypeInv /\ LogInv /\ Disjoint /\ CodeInv
    /\ uo \notin disturbed => CopyInv
    /\ RegisterInv
    /\ adrift = {} => StartInv(Fine) /\ OutcomeInv(Fine)
    /\ disturbed \in SUBSET OpIndex

(* The image the FPGA may be programming.                                   *)
LEMMA FineImage ==
    ASSUME SessionInv, pc = "poll"
    PROVE  \A img \in Images : DpramHolds(img) => img \in Fine[uo]
<1>1. TypeInv /\ uo \in 1..Len(ops) /\ Image = ops[uo].img
  BY WorkType DEF SessionInv, Working, Image
<1>2. CASE uo \in disturbed
  <2>1. Fine[uo] = {Image, Blank}
    BY <1>1, <1>2 DEF Fine
  <2>2. sizeReg \in {Image, Blank, Foreign}
    BY DEF SessionInv, RegisterInv
  <2> QED
    BY <2>1, <2>2, FpgaAssumption DEF DpramHolds
<1>3. CASE uo \notin disturbed
  <2>1. Fine[uo] = {Image}
    BY <1>1, <1>3 DEF Fine
  <2>2. DpramHolds(Image)
    BY <1>3 DEF SessionInv, CopyInv
  <2> QED
    BY <2>1, <2>2 DEF DpramHolds
<1> QED
  BY <1>2, <1>3

LEMMA UpdateKeepsRegisters ==
    ASSUME RegisterInv, [Next]_vars
    PROVE  RegisterInv'
<1>1. CASE Setup \/ NextOp
  BY <1>1 DEF Setup, SetupFails, SetupDone, LoadFails, ParseFails, ParseDone,
     NextOp, SkipOp, RefuseImage, BeginTransfer, AllDone, RegisterInv
<1>2. CASE Copy
  BY <1>2 DEF Copy, CopyPage, WriteSize, ReadSize, WriteCrc, ReadCrc, CopyFails,
     RegisterInv, Image, fpgaVars
<1>3. CASE Start
  <2>1. pc' = "next_op" \/ /\ pc \in {"trigger", "poll", "check"}
                           /\ UNCHANGED <<sizeReg, ops, uo>>
    BY <1>3 DEF Start, Trigger, TriggerFails, Poll, PollFails, PollTimesOut,
                CheckClean, CheckExtendedFails, CheckRetry, Conclude,
                fpgaVars, memVars
  <2> QED
    BY <2>1 DEF RegisterInv, Image
<1>4. CASE Engine \/ UNCHANGED vars
  BY <1>4 DEF Engine, EngineStep, vars, fpgaVars, mainVars, memVars,
              RegisterInv, Image
<1> QED
  BY <1>1, <1>2, <1>3, <1>4 DEF Next, Main, Exited

(* A step of the update.                                                    *)
LEMMA UpdateKeepsItself ==
    ASSUME SessionInv, UpdateOrNone
    PROVE  SessionInv'
<1>1. /\ TypeInv /\ LogInv /\ Disjoint /\ CodeInv /\ RegisterInv
      /\ [Next]_vars /\ disturbed' = disturbed
  BY DEF SessionInv, UpdateOrNone
<1>2. TypeInv' /\ LogInv' /\ Disjoint' /\ CodeInv' /\ RegisterInv'
  BY <1>1, TypeStep, LogStep, CodeStep, UpdateKeepsRegisters
<1>3. uo' \notin disturbed' => CopyInv'
  <2>1. CASE uo \notin disturbed
    BY <1>1, <2>1, CopyStep DEF SessionInv
  <2>2. CASE uo' # uo
    <3>1. pc' = "next_op"
      BY <1>1, <2>2 DEF Next, Main, Setup, SetupFails, SetupDone, LoadFails,
         ParseFails, ParseDone, NextOp, SkipOp, RefuseImage, BeginTransfer,
         AllDone, Copy, CopyPage, WriteSize, ReadSize, WriteCrc, ReadCrc,
         CopyFails, Start, Trigger, TriggerFails, Poll, PollFails,
         PollTimesOut, CheckClean, CheckExtendedFails, CheckRetry, Conclude,
         Engine, Exited, vars, mainVars
    <3> QED
      BY <3>1 DEF CopyInv
  <2> QED
    BY <1>1, <2>1, <2>2
<1>4. ASSUME adrift' = {}
      PROVE  (StartInv(Fine) /\ OutcomeInv(Fine))'
  <2>1. adrift = {} /\ StartInv(Fine) /\ OutcomeInv(Fine)
    BY <1>1, <1>4, AdriftGrows DEF SessionInv
  <2>2. CASE Setup
    <3>1. busy = {}
      BY <2>1, <2>2 DEF StartInv, Setup, SetupFails, SetupDone, LoadFails,
                        ParseFails, ParseDone
    <3>2. \A G : (StartInv(G) /\ OutcomeInv(G))'
      BY <1>1, <2>2, <3>1, SetupReports
    <3> QED
      BY <3>2
  <2>3. CASE ~Setup
    <3>1. PICK G : G = Fine
      OBVIOUS
    <3>2. Fine' = G
      BY <1>1, <2>3, <3>1, OpsFixed DEF Fine
    <3>3. pc = "poll" => \A img \in Images : DpramHolds(img) => img \in G[uo]
      BY <3>1, FineImage
    <3>4. (StartInv(G) /\ OutcomeInv(G))'
      BY <1>1, <1>4, <2>1, <2>3, <3>1, <3>3, ReportStep
    <3> QED
      BY <3>2, <3>4
  <2> QED
    BY <2>2, <2>3
<1> QED
  BY <1>1, <1>2, <1>3, <1>4 DEF SessionInv

(* What a step of the service does to the registers, and what of it counts  *)
(* as disturbing the operation under way.                                   *)
LEMMA ServiceDisturbs ==
    ASSUME ServiceStep
    PROVE  /\ sizeReg' \in {sizeReg, Blank, Foreign}
           /\ crcReg' \in {crcReg, Blank, Foreign}
           /\ \/ disturbed' = disturbed
              \/ InOperation /\ disturbed' = disturbed \cup {uo}
           /\ InOperation /\ uo \notin disturbed' => UNCHANGED memVars
<1>1. CASE GetHash
  BY <1>1 DEF GetHash, Hash!GetHash, Hash!readerVars, memVars
<1>2. CASE HashStep
  <2>1. /\ sizeReg' \in {sizeReg, Blank, Foreign}
        /\ crcReg' \in {crcReg, Blank, Foreign}
    BY <1>2 DEF HashStep, CopyInRegister, CopyInFails
  <2> QED
    BY <1>2, <2>1 DEF HashStep, Disturb
<1>3. CASE FinishHash
  BY <1>3 DEF FinishHash, Hash!HashFile, Hash!HashFails, Hash!Finish,
              Hash!Announce, Hash!readerVars, memVars
<1> QED
  BY <1>1, <1>2, <1>3 DEF ServiceStep

(* A step of the service.                                                   *)
LEMMA ServiceKeepsUpdate ==
    ASSUME SessionInv, ServiceStep, H!TypeOK'
    PROVE  SessionInv'
<1>0. TypeInv
  BY DEF SessionInv
<1>1. UNCHANGED <<busy, verdict, eeprom, mainVars>>
  BY ServiceKeepsSession
<1>2. UNCHANGED <<pc, target, stale, ops, uo, page, todo, attempt, timeout, rb,
                  notUpdated, ret, firstErr, log, adrift, erred>>
  BY <1>1 DEF mainVars, startVars
<1>3. TypeInv'
  <2>1. dpram' \in [Pages -> Contents]
    BY DEF H!TypeOK, H!ReaderTypeOK, H!Memory, H!Pages, Pages
  <2>2. FpgaTypeOK'
    BY <1>0, <1>1, <2>1, ServiceDisturbs, SharedFpgaAssumption
       DEF TypeInv, TypeOK, FpgaTypeOK
  <2> QED
    BY <1>0, <1>2, <2>2 DEF TypeInv, TypeOK, WorkInv, SetupInv, Apply, Image
<1>4. LogInv' /\ Disjoint' /\ CodeInv'
  BY <1>2 DEF SessionInv, LogInv, ConcludedOp, Reported, Disjoint, CodeInv
<1>5. pc \in Working => InOperation /\ uo \in 1..Len(ops) /\ uo \in OpIndex
  BY <1>0, WorkType DEF Working, InOperation
<1>6. InOperation => pc \in Working
  BY DEF Working, InOperation
<1>7. uo' \notin disturbed' => CopyInv'
  <2> SUFFICES ASSUME uo' \notin disturbed' PROVE CopyInv'
    OBVIOUS
  <2>1. CASE InOperation
    <3>1. UNCHANGED memVars /\ CopyInv
      BY <1>2, <2>1, ServiceDisturbs DEF SessionInv
    <3> QED
      BY <1>2, <3>1 DEF CopyInv, memVars, DpramHolds, PageCount, Image
  <2>2. CASE ~InOperation
    BY <1>2, <2>2 DEF InOperation, CopyInv
  <2> QED
    BY <2>1, <2>2
<1>8. RegisterInv'
  BY <1>2, ServiceDisturbs DEF SessionInv, RegisterInv, Image
<1>9. disturbed' \in SUBSET OpIndex
  BY <1>5, <1>6, ServiceDisturbs DEF SessionInv
<1>10. ASSUME adrift' = {}
       PROVE  (StartInv(Fine) /\ OutcomeInv(Fine))'
  <2>1. StartInv(Fine) /\ OutcomeInv(Fine)
    BY <1>2, <1>10 DEF SessionInv
  <2>2. \A o \in 1..Len(ops) : \A c \in Fine[o] : c \in Fine'[o]
    BY <1>2, ServiceDisturbs DEF Fine
  <2>3. /\ Apply' = Apply /\ Status' = Status
        /\ \A o, m, r : Reported(o, m, r)' <=> Reported(o, m, r)
    BY <1>1, <1>2 DEF Apply, Status, Reported
  <2>4. pc \in {"trigger", "poll", "check"} => uo \in 1..Len(ops)
    BY <1>5 DEF Working
  <2>5. StartInv(Fine)'
    BY <1>1, <1>2, <2>1, <2>2, <2>3, <2>4 DEF StartInv, Holds
  <2>6. OutcomeInv(Fine)'
    BY <1>1, <1>2, <2>1, <2>2, <2>3 DEF OutcomeInv, TrueReport, Holds
  <2> QED
    BY <2>5, <2>6
<1> QED
  BY <1>3, <1>4, <1>7, <1>8, <1>9, <1>10 DEF SessionInv

-------------------------------------------------------------------------------
(* Both together.                                                           *)

SharedInv ==
    /\ SessionInv
    /\ ServiceInv
    /\ spoilt \in SUBSET Retimers

LEMMA SharedStart ==
    ASSUME SharedInit
    PROVE  SharedInv
<1>1. TypeInv /\ Len(ops) = 0 /\ ops = <<>>
  BY TypeInit, EmptySeq DEF SharedInit, Init, UpdateFwInit
<1>2. SessionInv
  <2>1. adrift = {} => busy = {}
    BY DEF SharedInit, Init, UpdateFwInit
  <2>2. LogInv /\ Disjoint /\ CodeInv
    BY <1>1 DEF SharedInit, Init, UpdateFwInit, LogInv, Reported, Disjoint,
                CodeInv, LoopCodes
  <2> QED
    BY <1>1, <2>1, <2>2 DEF SharedInit, Init, UpdateFwInit, SessionInv, CopyInv,
                            RegisterInv, StartInv, OutcomeInv
<1>3. H!Init
  BY DEF SharedInit, Hash!Init, Hash!ReaderInit, Hash!ReaderTypeOK,
     Hash!Memory, Hash!Pages, Hash!ReadFwInit, Hash!BlankMemory,
     H!Init, H!ReaderInit, H!ReaderTypeOK, H!Memory, H!Pages, H!ReadFwInit,
     H!BlankMemory
<1>4. H!HashInv
  BY <1>3, HashConstants, H!HashInit
<1>5. ServiceInv
  BY <1>3, <1>4 DEF H!HashInv, H!ReadInv, H!DigestInv, H!Init, ServiceInv,
                    DigestUnlessSpoilt
<1> QED
  BY <1>2, <1>5 DEF SharedInit, SharedInv

LEMMA SharedStep ==
    ASSUME SharedInv, [SharedNext]_sharedVars
    PROVE  SharedInv'
<1>1. CASE UpdateOrNone
  <2>1. SessionInv'
    BY <1>1, UpdateKeepsItself DEF SharedInv
  <2>2. ServiceInv'
    BY <1>1, <2>1, UpdateKeepsService DEF SharedInv, SessionInv, TypeInv
  <2>3. rt \in Retimers
    BY DEF SharedInv, ServiceInv, H!TypeOK, H!ReadFwTypeOK
  <2>4. spoilt' \in SUBSET Retimers
    BY <1>1, <2>3 DEF UpdateOrNone, Spoil, SharedInv
  <2> QED
    BY <2>1, <2>2, <2>4 DEF SharedInv
<1>2. CASE ServiceStep
  <2>1. ServiceInv'
    BY <1>2, ServiceKeepsItself DEF SharedInv
  <2>2. SessionInv'
    BY <1>2, <2>1, ServiceKeepsUpdate DEF SharedInv, ServiceInv
  <2>3. spoilt' \in SUBSET spoilt
    BY <1>2 DEF ServiceStep, GetHash, HashStep, FinishHash
  <2> QED
    BY <2>1, <2>2, <2>3 DEF SharedInv
<1>3. UpdateStep \/ UNCHANGED sharedVars => UpdateOrNone
  BY DEF UpdateStep, UpdateOrNone, Spoil, sharedVars, vars, fpgaVars
<1> QED
  BY <1>1, <1>2, <1>3 DEF SharedNext, ServiceStep

THEOREM SharedInvariance == SharedSpec => []SharedInv
<1>1. SharedInit => SharedInv
  BY SharedStart
<1>2. SharedInv /\ [SharedNext]_sharedVars => SharedInv'
  BY SharedStep
<1> QED
  BY <1>1, <1>2, PTL DEF SharedSpec

(* Neither program drives the other out of its types, the loops' bounds     *)
(* among them.                                                              *)
THEOREM SharedTypes == SharedSpec => []SharedTypeOK
<1>1. SharedInv => SharedTypeOK
  <2> SUFFICES ASSUME SharedInv PROVE SharedTypeOK
    OBVIOUS
  <2>1. Hash!TypeOK
    <3>1. H!TypeOK
      BY DEF SharedInv, ServiceInv
    <3> QED
      BY <3>1 DEF Hash!TypeOK, Hash!ReaderTypeOK, Hash!ReadFwTypeOK,
         Hash!Memory, Hash!Pages, Hash!Registers, Hash!Digest, Hash!Signal,
         H!TypeOK, H!ReaderTypeOK, H!ReadFwTypeOK, H!Memory, H!Pages,
         H!Registers, H!Digest, H!Signal
  <2> QED
    BY <2>1 DEF SharedInv, SessionInv, TypeInv, SharedTypeOK
<1> QED
  BY <1>1, SharedInvariance, PTL

(* Nothing adrift and no transport error: a success is one whole image.     *)
THEOREM SuccessWhole == SharedSpec => []SuccessIsWhole
<1>1. SharedInv => SuccessIsWhole
  <2> SUFFICES ASSUME SharedInv, adrift = {},
                      NEW o \in DOMAIN ops \ erred, NEW r \in Retimers,
                      Reported(o, "UpdateSuccessful", r)
               PROVE  eeprom[r] \in {ops[o].img, Blank}
    BY DEF SuccessIsWhole
  <2>1. /\ o \in 1..Len(ops) /\ uo \in Nat /\ o \in Nat
        /\ LogInv /\ OutcomeInv(Fine)
    BY OpType DEF SharedInv, SessionInv, TypeInv, TypeOK
  <2>2. o < uo
    BY <2>1 DEF LogInv
  <2>3. eeprom[r] \in Fine[o]
    BY <2>1, <2>2 DEF OutcomeInv, TrueReport
  <2> QED
    BY <2>1, <2>3 DEF Fine
<1> QED
  BY <1>1, SharedInvariance, PTL

(* ... and of an operation that was left in peace every report is true.     *)
THEOREM UndisturbedReal == SharedSpec => []UndisturbedIsReal
<1>1. SharedInv => UndisturbedIsReal
  <2> SUFFICES ASSUME SharedInv, adrift = {},
                      NEW o \in DOMAIN ops \ (erred \cup disturbed),
                      NEW r \in Retimers
               PROVE  /\ Reported(o, "UpdateSuccessful", r) =>
                            eeprom[r] = ops[o].img
                      /\ Reported(o, "ApplyFailed", r) =>
                            eeprom[r] # ops[o].img
    BY DEF UndisturbedIsReal
  <2>1. /\ o \in 1..Len(ops) /\ uo \in Nat /\ o \in Nat
        /\ ops[o].img # Corrupt /\ LogInv /\ OutcomeInv(Fine)
    BY OpType, FpgaAssumption DEF SharedInv, SessionInv, TypeInv, TypeOK
  <2>2. Fine[o] = {ops[o].img}
    BY <2>1 DEF Fine
  <2>3. CASE o < uo
    <3>1. TrueReport(Fine, o)
      BY <2>1, <2>3 DEF OutcomeInv
    <3> QED
      BY <2>1, <2>2, <3>1 DEF TrueReport
  <2>4. CASE ~(o < uo)
    BY <2>1, <2>4 DEF LogInv
  <2> QED
    BY <2>3, <2>4
<1> QED
  BY <1>1, SharedInvariance, PTL

(* A digest of a sound read is the EEPROM's, unless the update spoilt it.   *)
THEOREM DigestSpoilt == SharedSpec => []DigestUnlessSpoilt
<1>1. SharedInv => DigestUnlessSpoilt
  BY DEF SharedInv, ServiceInv
<1> QED
  BY <1>1, SharedInvariance, PTL

===============================================================================
