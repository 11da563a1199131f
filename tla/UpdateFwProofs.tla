---------------------------- MODULE UpdateFwProofs ----------------------------
(***************************************************************************)
(* What UpdateFw promises for every baseboard, every set of images and      *)
(* every bound, proved with TLAPS.                                          *)
(***************************************************************************)
EXTENDS UpdateFwRefinement, TLAPS, SequenceTheorems

(* The operations of a session after the intersection with target: still   *)
(* one for each component, still disjoint, now within target.               *)
LEMMA TargetedOps ==
    ASSUME NEW T \in SUBSET Retimers, NEW parsed \in ParsedOps
    PROVE  /\ Targeted(parsed, T) \in Seq(Op)
           /\ Len(Targeted(parsed, T)) \in 0..MaxOps
           /\ \A i \in 1..Len(Targeted(parsed, T)) :
                 Targeted(parsed, T)[i].apply \in SUBSET T
           /\ \A i, j \in 1..Len(Targeted(parsed, T)) :
                 i # j => Targeted(parsed, T)[i].apply
                             \cap Targeted(parsed, T)[j].apply = {}
  <1> DEFINE f == Targeted(parsed, T)
  <1>1. PICK n \in 0..MaxOps :
            /\ parsed \in [1..n -> Op]
            /\ \A i, j \in 1..n : i # j => parsed[i].apply \cap parsed[j].apply = {}
    BY DEF ParsedOps
  <1>2. n \in Nat
    BY <1>1, UpdateFwAssumption
  <1>3. DOMAIN f = 1..n
    BY <1>1 DEF Targeted
  <1>4. \A i \in 1..n : /\ f[i] \in Op
                        /\ f[i].apply = parsed[i].apply \cap T
    BY <1>1 DEF Op, Targeted
  <1>5. f \in [1..n -> Op]
    <2>1. f = [i \in 1..n |-> f[i]]
      BY <1>1 DEF Targeted
    <2> QED
      BY <2>1, <1>4
  <1>6. f \in Seq(Op)
    BY <1>2, <1>5, SeqDef
  <1>7. Len(f) = n
    BY <1>2, <1>3, <1>6, LenProperties
  <1>8. \A i \in 1..n : f[i].apply \in SUBSET T
    BY <1>4
  <1>9. \A i, j \in 1..n : i # j => f[i].apply \cap f[j].apply = {}
    BY <1>1, <1>4
  <1> HIDE DEF f
  <1>10. /\ f \in Seq(Op)
         /\ Len(f) \in 0..MaxOps
         /\ \A i \in 1..Len(f) : f[i].apply \in SUBSET T
         /\ \A i, j \in 1..Len(f) : i # j => f[i].apply \cap f[j].apply = {}
    BY <1>1, <1>6, <1>7, <1>8, <1>9
  <1> QED
    BY <1>10 DEF f

-------------------------------------------------------------------------------
(* Type correctness.                                                        *)


LEMMA OpType ==
    ASSUME TypeOK
    PROVE  /\ Len(ops) \in 0..MaxOps
           /\ DOMAIN ops = 1..Len(ops)
           /\ \A o \in 1..Len(ops) :
                 /\ o \in 1..MaxOps
                 /\ ops[o].apply \in SUBSET Retimers
                 /\ ops[o].img \in Images
                 /\ NumPages[ops[o].img] \in Nat
  <1>1. /\ Len(ops) \in 0..MaxOps
        /\ ops \in [1..Len(ops) -> Op]
    BY UpdateFwAssumption, LenProperties DEF TypeOK
  <1>2. ASSUME NEW o \in 1..Len(ops)
        PROVE  ops[o] \in Op /\ o \in 1..MaxOps
    BY <1>1, UpdateFwAssumption
  <1> QED
    BY <1>1, <1>2, FpgaAssumption DEF Op

LEMMA LoggedType ==
    ASSUME NEW o \in 0..MaxOps, NEW m \in Messages, NEW S \in SUBSET Retimers
    PROVE  Logged(o, m, S) \in SUBSET Event
  BY DEF Logged, Event

LEMMA ConcludeType ==
    ASSUME TypeOK, uo <= Len(ops),
           NEW code \in DOMAIN Code, NEW N \in SUBSET Retimers,
           Conclude(code, N)
    PROVE  /\ pc' = "next_op" /\ UNCHANGED <<target, stale, ops>>
           /\ uo' \in 1..(Len(ops') + 1)
           /\ page' = 0 /\ todo' = {} /\ attempt' = 0 /\ timeout' = 0
           /\ rb' = ClearStatus
           /\ ret' \in DOMAIN Code /\ firstErr' \in DOMAIN Code
           /\ log' \in SUBSET Event
  <1>1. uo \in 1..Len(ops) /\ uo \in 0..MaxOps /\ Len(ops) \in Nat
    BY OpType, UpdateFwAssumption DEF TypeOK
  <1>2. Apply \in SUBSET Retimers
    BY <1>1, OpType DEF Apply
  <1>3. Logged(uo, "UpdateSuccessful", Apply) \in SUBSET Event
    BY <1>1, <1>2, LoggedType DEF Messages
  <1>4. Logged(uo, "ApplyFailed", N) \in SUBSET Event
    BY <1>1, LoggedType DEF Messages
  <1>5. Xor(Apply, N) \in SUBSET Retimers
    BY <1>2 DEF Xor
  <1>6. Logged(uo, "UpdateSuccessful", Xor(Apply, N)) \in SUBSET Event
    BY <1>1, <1>5, LoggedType DEF Messages
  <1>7. log' \in SUBSET Event
    BY <1>3, <1>4, <1>6 DEF Conclude, TypeOK
  <1> QED
    BY <1>1, <1>7 DEF Conclude, TypeOK

(* The control states in which an operation is under way. *)
Working == {"copy", "read_size", "write_crc", "read_crc", "trigger", "poll",
            "check"}

(* An operation that is under way exists, has retimers and an image that    *)
(* fits.                                                                    *)
WorkInv ==
    pc \in Working =>
        /\ uo <= Len(ops)
        /\ Apply # {}
        /\ NumPages[Image] <= MaxPages

(* Before the operations are known nothing has happened. *)
SetupInv ==
    pc \in {"setup", "load"} =>
        /\ ops = <<>>
        /\ uo = 1
        /\ log = {}
        /\ erred = {}
        /\ ret = "OK"
        /\ firstErr = "OK"

TypeInv == TypeOK /\ WorkInv /\ SetupInv

LEMMA EngineType ==
    ASSUME TypeOK, EngineStep
    PROVE  FpgaTypeOK'
  <1>1. PICK r \in Retimers : EngineProgrammed(r) \/ EngineFailed(r)
    BY DEF EngineStep
  <1>2. CASE EngineProgrammed(r)
    BY <1>2 DEF EngineStep, EngineProgrammed, memVars, TypeOK, FpgaTypeOK,
                Contents
  <1>3. CASE EngineFailed(r)
    BY <1>3 DEF EngineStep, EngineFailed, memVars, TypeOK, FpgaTypeOK, Contents
  <1> QED
    BY <1>1, <1>2, <1>3

LEMMA TriggerType ==
    ASSUME TypeOK, TriggerUpdate(todo), UNCHANGED memVars
    PROVE  FpgaTypeOK'
  BY DEF TriggerUpdate, AcceptTrigger, IgnoreTrigger, memVars, progVars,
         TypeOK, FpgaTypeOK, Contents, Verdicts

(* Every step of the program and the FPGA keeps the types.                  *)
LEMMA TypeStep ==
    ASSUME TypeInv, [Next]_vars
    PROVE  TypeInv'
<1> USE DEF TypeInv
<1>a. /\ Len(ops) \in 0..MaxOps
      /\ uo \in 1..(Len(ops) + 1)
      /\ MaxOps \in Nat /\ MaxPages \in Nat
  BY OpType, UpdateFwAssumption, FpgaAssumption DEF TypeOK
<1>b. ASSUME uo <= Len(ops)
      PROVE  /\ uo \in 0..MaxOps /\ uo \in OpIndex
             /\ uo + 1 \in 1..(Len(ops) + 1)
             /\ Apply \in SUBSET Retimers
             /\ Image \in Images
             /\ PageCount \in Nat
             /\ \A m \in Messages : Logged(uo, m, Apply) \in SUBSET Event
  <2>1. uo \in 1..Len(ops) /\ uo \in 0..MaxOps /\ uo + 1 \in 1..(Len(ops) + 1)
    BY <1>a, <1>b
  <2>2. uo \in OpIndex /\ Apply \in SUBSET Retimers
        /\ Image \in Images /\ PageCount \in Nat
    BY <2>1, OpType DEF Apply, Image, PageCount, OpIndex
  <2> QED
    BY <2>1, <2>2, LoggedType
<1>c. pc \in Working => uo <= Len(ops)
  BY DEF WorkInv
<1>1. ASSUME Setup PROVE TypeInv'
  <2>1. CASE SetupFails
    BY <2>1 DEF SetupFails, TypeOK, fpgaVars, startVars, FpgaTypeOK,
                SetupErrors, Code, WorkInv, Working, SetupInv
  <2>2. CASE SetupDone
    BY <2>2 DEF SetupDone, TypeOK, fpgaVars, startVars, FpgaTypeOK,
                WorkInv, Working, SetupInv
  <2>3. CASE LoadFails
    <3>1. log' \in SUBSET Event
      BY <2>3, <1>a, LoggedType DEF LoadFails, TypeOK, Messages
    <3> QED
      BY <2>3, <3>1 DEF LoadFails, TypeOK, fpgaVars, startVars, FpgaTypeOK,
                        WorkInv, Working, SetupInv
  <2>4. CASE ParseFails
    <3>1. log' \in SUBSET Event
      BY <2>4, <1>a, LoggedType DEF ParseFails, TypeOK, Messages
    <3> QED
      BY <2>4, <3>1 DEF ParseFails, TypeOK, fpgaVars, startVars, FpgaTypeOK,
                        ParseErrors, Code, WorkInv, Working, SetupInv
  <2>5. CASE ParseDone
    <3>1. ops' \in Seq(Op) /\ Len(ops') \in 0..MaxOps
      <4>1. PICK parsed \in ParsedOps : ops' = Targeted(parsed, target)
        BY <2>5 DEF ParseDone
      <4>2. target \in SUBSET Retimers
        BY DEF TypeOK
      <4>3. /\ Targeted(parsed, target) \in Seq(Op)
            /\ Len(Targeted(parsed, target)) \in 0..MaxOps
        BY <4>2, TargetedOps
      <4> QED
        BY <4>1, <4>3
    <3>2. uo' \in 1..(Len(ops') + 1)
      BY <2>5, <3>1, <1>a DEF ParseDone, SetupInv
    <3> QED
      BY <2>5, <3>1, <3>2 DEF ParseDone, TypeOK, fpgaVars, startVars,
                              FpgaTypeOK, WorkInv, Working, SetupInv
  <2> QED
    BY <1>1, <2>1, <2>2, <2>3, <2>4, <2>5 DEF Setup
<1>2. ASSUME NextOp PROVE TypeInv'
  <2>1. CASE SkipOp
    BY <2>1, <1>b DEF SkipOp, TypeOK, fpgaVars, startVars, FpgaTypeOK,
                      WorkInv, Working, SetupInv
  <2>2. CASE RefuseImage
    <3>1. log' \in SUBSET Event
      BY <2>2, <1>b DEF RefuseImage, TypeOK, Messages
    <3> QED
      BY <2>2, <1>b, <3>1 DEF RefuseImage, TypeOK, fpgaVars, startVars,
                              FpgaTypeOK, Code, WorkInv, Working, SetupInv
  <2>3. CASE BeginTransfer
    <3>1. log' \in SUBSET Event
      BY <2>3, <1>b DEF BeginTransfer, TypeOK, Messages
    <3>2. WorkInv'
      BY <2>3 DEF BeginTransfer, WorkInv, Apply, Image
    <3> QED
      BY <2>3, <1>a, <3>1, <3>2 DEF BeginTransfer, TypeOK, fpgaVars,
                                    startVars, FpgaTypeOK, SetupInv
  <2>4. CASE AllDone
    BY <2>4 DEF AllDone, TypeOK, fpgaVars, startVars, FpgaTypeOK,
                WorkInv, Working, SetupInv
  <2> QED
    BY <1>2, <2>1, <2>2, <2>3, <2>4 DEF NextOp
<1>3. ASSUME Copy PROVE TypeInv'
  <2>1. CASE CopyPage
    <3>1. /\ PageCount \in Nat /\ PageCount <= MaxPages
          /\ Image \in Images
      BY <2>1, <1>b, <1>c DEF CopyPage, WorkInv, Working, PageCount
    <3>2. page' \in 0..MaxPages
      BY <2>1, <3>1, <1>a DEF CopyPage, TypeOK
    <3>3. dpram' \in [Pages -> Contents]
      BY <2>1, <3>1 DEF CopyPage, WriteDpram, TypeOK, FpgaTypeOK, Contents
    <3>4. WorkInv'
      BY <2>1 DEF CopyPage, WorkInv, Apply, Image
    <3> QED
      BY <2>1, <3>2, <3>3, <3>4 DEF CopyPage, TypeOK, FpgaTypeOK, progVars,
                                    startVars, SetupInv
  <2>2. CASE WriteSize
    <3>1. Image \in Images
      BY <2>2, <1>b, <1>c DEF WriteSize, Working
    <3> QED
      BY <2>2, <3>1 DEF WriteSize, TypeOK, FpgaTypeOK, progVars, startVars,
                        WorkInv, Working, Apply, Image,
                      SetupInv
  <2>3. CASE ReadSize
    BY <2>3 DEF ReadSize, TypeOK, FpgaTypeOK, fpgaVars, startVars,
                WorkInv, Working, Apply, Image,
                      SetupInv
  <2>4. CASE WriteCrc
    <3>1. Image \in Images
      BY <2>4, <1>b, <1>c DEF WriteCrc, Working
    <3> QED
      BY <2>4, <3>1 DEF WriteCrc, TypeOK, FpgaTypeOK, progVars, startVars,
                        WorkInv, Working, Apply, Image,
                      SetupInv
  <2>5. CASE ReadCrc
    <3>1. Apply \in SUBSET Retimers
      BY <2>5, <1>b, <1>c DEF ReadCrc, Working
    <3>2. 0 \in 0..(MaxUpdateRetryCount - 1)
      BY UpdateFwAssumption
    <3> QED
      BY <2>5, <3>1, <3>2 DEF ReadCrc, TypeOK, FpgaTypeOK, fpgaVars,
                              WorkInv, Working, Apply, Image,
                      SetupInv
  <2>6. CASE CopyFails
    <3>1. /\ log' \in SUBSET Event
          /\ Image \in Images
          /\ uo + 1 \in 1..(Len(ops) + 1)
      BY <2>6, <1>b, <1>c DEF CopyFails, TypeOK, Messages, Working
    <3>2. /\ dpram' \in [Pages -> Contents]
          /\ sizeReg' \in Images \cup {Foreign}
          /\ crcReg' \in Images \cup {Foreign}
      BY <2>6, <3>1 DEF CopyFails, FailedWrite, WriteDpram, memVars, TypeOK,
                        FpgaTypeOK, Contents
    <3> QED
      BY <2>6, <3>1, <3>2, <1>a DEF CopyFails, TypeOK, FpgaTypeOK, progVars,
                                    startVars, Code, WorkInv, Working, SetupInv
  <2> QED
    BY <1>3, <2>1, <2>2, <2>3, <2>4, <2>5, <2>6 DEF Copy
<1>4. ASSUME Start PROVE TypeInv'
  <2>0. /\ pc \in {"trigger", "poll", "check"} => uo \in OpIndex
        /\ pc \in {"trigger", "poll", "check"} => uo <= Len(ops)
    BY <1>b, <1>c DEF Working
  <2>c. /\ ClearStatus \in [busy : SUBSET Retimers,
                            verdict : [Retimers -> Verdicts]]
        /\ 0 \in 0..MaxPages /\ 0 \in 0..MaxTimeoutSec
        /\ 0 \in 0..(MaxUpdateRetryCount - 1)
    BY <1>a, UpdateFwAssumption DEF ClearStatus, Verdicts
  <2>1. CASE Trigger
    <3>1. FpgaTypeOK'
      BY <2>1, TriggerType DEF Trigger
    <3> QED
      BY <2>1, <3>1, <2>c DEF Trigger, TypeOK, WorkInv, Working, Apply, Image,
                      SetupInv
  <2>2. CASE TriggerFails
    <3>1. FpgaTypeOK'
      BY <2>2, TriggerType DEF TriggerFails, TypeOK, FpgaTypeOK, memVars,
                               progVars
    <3>2. adrift' \in SUBSET Retimers
      BY <2>2 DEF TriggerFails, TypeOK
    <3>3. "IOCTL_I2C" \in DOMAIN Code
      BY DEF Code
    <3> QED
      BY <2>2, <3>1, <3>2, <3>3, <2>0, <2>c, ConcludeType
      DEF TriggerFails, TypeOK, WorkInv, Working, SetupInv
  <2>3. CASE Poll
    <3>1. Status \in [busy : SUBSET Retimers,
                      verdict : [Retimers -> Verdicts]]
      BY DEF Status, TypeOK, FpgaTypeOK
    <3>2. timeout + 1 \in 0..MaxTimeoutSec
      BY <2>3, UpdateFwAssumption DEF Poll, TypeOK
    <3>3. "OK" \in DOMAIN Code
      BY DEF Code
    <3> QED
      BY <2>3, <3>1, <3>2, <3>3
      DEF Poll, TypeOK, FpgaTypeOK, fpgaVars, WorkInv, Working, Apply, Image,
                      SetupInv
  <2>4. CASE PollFails
    <3>1. "IOCTL_I2C" \in DOMAIN Code
      BY DEF Code
    <3>2. FpgaTypeOK' /\ adrift' \in SUBSET Retimers
      BY <2>4 DEF PollFails, TypeOK, FpgaTypeOK, fpgaVars
    <3> QED
      BY <2>4, <3>1, <3>2, <2>0, <2>c, ConcludeType
      DEF PollFails, TypeOK, WorkInv, Working, SetupInv
  <2>5. CASE PollTimesOut
    BY <2>5 DEF PollTimesOut, TypeOK, FpgaTypeOK, fpgaVars, startVars,
                WorkInv, Working, Apply, Image,
                      SetupInv
  <2>6. CASE CheckClean
    <3>1. "OK" \in DOMAIN Code
      BY DEF Code
    <3>2. FpgaTypeOK'
      BY <2>6 DEF CheckClean, TypeOK, FpgaTypeOK, fpgaVars
    <3> QED
      BY <2>6, <3>1, <3>2, <2>0, <2>c, ConcludeType
      DEF CheckClean, TypeOK, WorkInv, Working, SetupInv
  <2>7. CASE CheckExtendedFails
    <3>1. "OPEN_FIRMWARE" \in DOMAIN Code
      BY DEF Code
    <3>2. FpgaTypeOK'
      BY <2>7 DEF CheckExtendedFails, TypeOK, FpgaTypeOK, fpgaVars
    <3> QED
      BY <2>7, <3>1, <3>2, <2>0, <2>c, ConcludeType
      DEF CheckExtendedFails, TypeOK, WorkInv, Working, SetupInv
  <2>8. CASE CheckRetry
    <3>1. StatusCode \in DOMAIN Code /\ RetrySet \in SUBSET Retimers
      BY DEF StatusCode, Code, RetrySet
    <3>2. FpgaTypeOK' /\ notUpdated' \in SUBSET Retimers
      BY <2>8, <3>1 DEF CheckRetry, TypeOK, FpgaTypeOK, fpgaVars
    <3>3. CASE attempt + 1 < MaxUpdateRetryCount
      <4>1. attempt + 1 \in 0..(MaxUpdateRetryCount - 1)
        BY <3>3, UpdateFwAssumption DEF TypeOK
      <4> QED
        BY <2>8, <3>1, <3>2, <3>3, <4>1
        DEF CheckRetry, TypeOK, WorkInv, Working, Apply, Image,
                      SetupInv
    <3>4. CASE ~(attempt + 1 < MaxUpdateRetryCount)
      <4>1. Conclude(StatusCode, RetrySet)
        BY <2>8, <3>4 DEF CheckRetry
      <4> QED
        BY <2>8, <3>1, <3>2, <4>1, <2>0, <2>c, ConcludeType
        DEF CheckRetry, TypeOK, WorkInv, Working, SetupInv
    <3> QED
      BY <3>3, <3>4
  <2> QED
    BY <1>4, <2>1, <2>2, <2>3, <2>4, <2>5, <2>6, <2>7, <2>8 DEF Start
<1>5. ASSUME Engine PROVE TypeInv'
  <2>1. FpgaTypeOK'
    BY <1>5, EngineType DEF Engine
  <2> QED
    BY <1>5, <2>1 DEF Engine, mainVars, startVars, TypeOK, WorkInv, Apply,
                      Image, SetupInv
<1>6. ASSUME UNCHANGED vars PROVE TypeInv'
  BY <1>6 DEF vars, fpgaVars, mainVars, startVars, TypeOK, FpgaTypeOK,
              WorkInv, Apply, Image, SetupInv
<1> QED
  BY <1>1, <1>2, <1>3, <1>4, <1>5, <1>6 DEF Next, Main, Exited

LEMMA TypeInit ==
    ASSUME Init
    PROVE  TypeInv
<1>1. ops \in Seq(Op) /\ Len(ops) = 0
  BY EmptySeq DEF Init, UpdateFwInit
<1>2. busy \in SUBSET Retimers /\ StaleBits \in SUBSET Retimers
  BY DEF Init, FpgaInit, FpgaTypeOK, StaleBits
<1>3. TypeOK
  BY <1>1, <1>2, UpdateFwAssumption, FpgaAssumption
  DEF Init, FpgaInit, UpdateFwInit, TypeOK, ClearStatus, Verdicts, Code
<1> QED
  BY <1>3 DEF Init, UpdateFwInit, TypeInv, WorkInv, Working, SetupInv

THEOREM TypeInvariance == Spec => []TypeInv
<1>1. Init => TypeInv
  BY TypeInit
<1>2. TypeInv /\ [Next]_vars => TypeInv'
  BY TypeStep
<1> QED
  BY <1>1, <1>2, PTL DEF Spec

(* Every step of the program and the FPGA is well typed: the loops stay     *)
(* within MAX_TIMEOUT_SEC, MAX_UPDATE_RETRYCOUNT and the DPRAM.             *)
THEOREM TypeCorrect == Spec => []TypeOK
<1>1. TypeInv => TypeOK
  BY DEF TypeInv
<1> QED
  BY <1>1, TypeInvariance, PTL

-------------------------------------------------------------------------------
(* The FPGA programs the image of the operation under way.                  *)

CopyInv ==
    /\ pc = "copy" =>
          /\ page <= PageCount
          /\ \A p \in 0..(page - 1) : dpram[p] = Image
    /\ pc \in {"read_size", "write_crc"} =>
          /\ sizeReg = Image
          /\ \A p \in 0..(PageCount - 1) : dpram[p] = Image
    /\ pc \in {"read_crc", "trigger", "poll", "check"} => DpramHolds(Image)

(* What an operation under way can be relied on for. *)
LEMMA WorkType ==
    ASSUME TypeInv, pc \in Working
    PROVE  /\ uo \in 1..Len(ops) /\ uo \in OpIndex /\ uo \in 0..MaxOps
           /\ Apply \in SUBSET Retimers /\ Apply # {}
           /\ Image \in Images
           /\ PageCount \in Nat /\ PageCount = NumPages[Image]
           /\ PageCount <= MaxPages
  <1>1. uo \in 1..Len(ops)
    BY OpType DEF TypeInv, WorkInv, TypeOK
  <1> QED
    BY <1>1, OpType DEF TypeInv, WorkInv, Apply, Image, PageCount, OpIndex

(* Only the steps of the operation under way change what it copies.         *)
LEMMA CopyStep ==
    ASSUME TypeInv, CopyInv, [Next]_vars
    PROVE  CopyInv'
<1>1. ASSUME Setup PROVE CopyInv'
  BY <1>1 DEF Setup, SetupFails, SetupDone, LoadFails, ParseFails, ParseDone,
              CopyInv
<1>2. ASSUME NextOp PROVE CopyInv'
  <2>1. CASE BeginTransfer
    <3>1. pc' = "copy" /\ page' = 0 /\ uo' = uo /\ ops' = ops
      BY <2>1 DEF BeginTransfer
    <3>2. uo \in 1..Len(ops)
      BY <2>1, OpType DEF BeginTransfer, TypeInv, TypeOK
    <3>3. PageCount' \in Nat
      BY <3>1, <3>2, OpType DEF TypeInv, PageCount, Image
    <3> QED
      BY <3>1, <3>3 DEF CopyInv
  <2>2. CASE SkipOp \/ RefuseImage \/ AllDone
    BY <2>2 DEF SkipOp, RefuseImage, AllDone, CopyInv
  <2> QED
    BY <1>2, <2>1, <2>2 DEF NextOp
<1>3. ASSUME Copy PROVE CopyInv'
  <2>0. /\ Image \in Images /\ PageCount \in Nat /\ PageCount <= MaxPages
        /\ PageCount = NumPages[Image]
    BY <1>3, WorkType
    DEF Copy, CopyPage, WriteSize, ReadSize, WriteCrc, ReadCrc, CopyFails,
        Working
  <2>1. CASE CopyPage
    <3>1. /\ pc = "copy" /\ pc' = "copy" /\ page' = page + 1
          /\ page \in Nat /\ page < PageCount
          /\ PageCount' = PageCount /\ Image' = Image
      BY <2>1 DEF CopyPage, TypeInv, TypeOK, PageCount, Image
    <3>2. page \in Pages
      BY <2>0, <3>1, FpgaAssumption DEF Pages
    <3>3. dpram' = [dpram EXCEPT ![page] = Image]
          /\ dpram \in [Pages -> Contents]
      BY <2>1 DEF CopyPage, WriteDpram, TypeInv, TypeOK, FpgaTypeOK
    <3>4. \A p \in 0..page : dpram'[p] = Image
      BY <2>0, <3>1, <3>2, <3>3, FpgaAssumption DEF CopyInv, Pages
    <3> QED
      BY <2>0, <3>1, <3>4 DEF CopyInv
  <2>2. CASE WriteSize
    <3>1. /\ pc = "copy" /\ pc' = "read_size" /\ page = PageCount
          /\ PageCount' = PageCount /\ Image' = Image /\ dpram' = dpram
          /\ sizeReg' = Image
      BY <2>2 DEF WriteSize, PageCount, Image
    <3> QED
      BY <3>1 DEF CopyInv
  <2>3. CASE ReadSize
    BY <2>3 DEF ReadSize, CopyInv, fpgaVars, PageCount, Image
  <2>4. CASE WriteCrc
    <3>1. /\ pc = "write_crc" /\ pc' = "read_crc"
          /\ Image' = Image /\ dpram' = dpram
          /\ sizeReg' = sizeReg /\ crcReg' = Image
      BY <2>4 DEF WriteCrc, Image
    <3> QED
      BY <3>1, <2>0 DEF CopyInv, DpramHolds
  <2>5. CASE ReadCrc
    BY <2>5 DEF ReadCrc, CopyInv, fpgaVars, DpramHolds, Image
  <2>6. CASE CopyFails
    BY <2>6 DEF CopyFails, CopyInv
  <2> QED
    BY <1>3, <2>1, <2>2, <2>3, <2>4, <2>5, <2>6 DEF Copy
<1>4. ASSUME Start PROVE CopyInv'
  <2>1. pc' = "next_op" \/ /\ pc \in {"trigger", "poll", "check"}
                           /\ pc' \in {"trigger", "poll", "check"}
                           /\ UNCHANGED <<memVars, ops, uo>>
    BY <1>4 DEF Start, Trigger, TriggerFails, Poll, PollFails, PollTimesOut,
                CheckClean, CheckExtendedFails, CheckRetry, Conclude,
                fpgaVars, memVars
  <2> QED
    BY <2>1 DEF CopyInv, DpramHolds, Image, memVars
<1>5. ASSUME Engine PROVE CopyInv'
  BY <1>5 DEF Engine, EngineStep, mainVars, memVars, CopyInv, DpramHolds,
              PageCount, Image
<1>6. ASSUME UNCHANGED vars PROVE CopyInv'
  BY <1>6 DEF vars, fpgaVars, mainVars, CopyInv, DpramHolds, PageCount, Image
<1> QED
  BY <1>1, <1>2, <1>3, <1>4, <1>5, <1>6 DEF Next, Main, Exited

(* ... and during the transfer and the update only the writes of this       *)
(* operation change the DPRAM and its registers.                            *)
THEOREM CopyInvariance == Spec => []CopyInv
<1>1. Init => CopyInv
  BY DEF Init, UpdateFwInit, CopyInv
<1>2. TypeInv /\ CopyInv /\ [Next]_vars => CopyInv'
  BY CopyStep
<1> QED
  BY <1>1, <1>2, TypeInvariance, PTL DEF Spec

(* Whenever the engine may be programming for an operation, what the DPRAM  *)
(* and the registers describe is that operation's image.                    *)
THEOREM RightImage == Spec => []ProgramsRightImage
<1>1. CopyInv => ProgramsRightImage
  BY DEF CopyInv, ProgramsRightImage
<1> QED
  BY <1>1, CopyInvariance, PTL

-------------------------------------------------------------------------------
(* Retimers that are not on the command line.                               *)

(* The retimers a set of verdicts calls failed.                             *)
Flagged(v) == {r \in Retimers : v[r] # "ok"}

(* Neither the engine nor the program has its hands on a retimer that is    *)
(* not on the command line, those of an unfinished session excepted.        *)
Reach == target \cup adrift \cup stale

TargetInv ==
    /\ \A o \in 1..Len(ops) : ops[o].apply \in SUBSET target
    /\ busy \in SUBSET Reach
    /\ (busy # {} \/ pc \in {"poll", "check"}) =>
          Flagged(verdict) \in SUBSET Reach
    /\ Flagged(rb.verdict) \in SUBSET Reach
    /\ todo \in SUBSET Reach

(* A trigger puts no retimer in the engine's hands but those of its bitmap, *)
(* and wipes the verdicts of the others unless the FPGA ignored it.         *)
LEMMA TriggerReach ==
    ASSUME TypeOK, TargetInv, TriggerUpdate(todo)
    PROVE  /\ busy' \in SUBSET Reach
           /\ Flagged(verdict') \in SUBSET Reach
           /\ \A r \in Retimers \ Reach : eeprom'[r] = eeprom[r]
  <1>1. CASE AcceptTrigger(todo)
    <2>1. Flagged(verdict') = {}
      BY <1>1 DEF AcceptTrigger, Flagged
    <2>2. busy' = todo
      BY <1>1 DEF AcceptTrigger
    <2>3. \A r \in Retimers \ busy : eeprom'[r] = eeprom[r]
      BY <1>1 DEF AcceptTrigger
    <2> QED
      BY <2>1, <2>2, <2>3 DEF TargetInv
  <1>2. CASE IgnoreTrigger
    BY <1>2 DEF IgnoreTrigger, progVars, TargetInv
  <1> QED
    BY <1>1, <1>2 DEF TriggerUpdate

LEMMA EngineReach ==
    ASSUME TypeOK, TargetInv, EngineStep
    PROVE  /\ busy' \in SUBSET Reach
           /\ Flagged(verdict') \in SUBSET Reach
           /\ \A r \in Retimers \ Reach : eeprom'[r] = eeprom[r]
  <1>1. PICK r \in Retimers : EngineProgrammed(r) \/ EngineFailed(r)
    BY DEF EngineStep
  <1>2. /\ r \in busy /\ busy' = busy \ {r}
        /\ \A q \in Retimers \ {r} : eeprom'[q] = eeprom[q]
        /\ \A q \in Retimers \ {r} : verdict'[q] = verdict[q]
    BY <1>1 DEF EngineProgrammed, EngineFailed, TypeOK, FpgaTypeOK
  <1> QED
    BY <1>2 DEF TargetInv, Flagged

LEMMA ClearFlags == Flagged(ClearStatus.verdict) = {}
  BY DEF Flagged, ClearStatus

THEOREM TargetInvariance == Spec => []TargetInv
<1>1. Init => TargetInv
  <2> SUFFICES ASSUME Init PROVE TargetInv
    OBVIOUS
  <2>1. Len(ops) = 0
    BY EmptySeq DEF Init, UpdateFwInit
  <2>2. /\ busy \in SUBSET Reach
        /\ busy # {} => Flagged(verdict) \in SUBSET Reach
    BY DEF Init, UpdateFwInit, StaleBits, Flagged, Reach
  <2> QED
    BY <2>1, <2>2, ClearFlags DEF Init, UpdateFwInit, TargetInv
<1>2. TypeInv /\ TargetInv /\ [Next]_vars => TargetInv'
  <2> SUFFICES ASSUME TypeInv, TargetInv, [Next]_vars PROVE TargetInv'
    OBVIOUS
  <2>0. TypeOK
    BY DEF TypeInv
  <2>1. ASSUME Setup PROVE TargetInv'
    <3>1. CASE ParseDone
      <4>1. PICK parsed \in ParsedOps : ops' = Targeted(parsed, target)
        BY <3>1 DEF ParseDone
      <4>2. \A o \in 1..Len(ops') : ops'[o].apply \in SUBSET target
        <5>1. target \in SUBSET Retimers
          BY <2>0 DEF TypeOK
        <5>2. \A o \in 1..Len(Targeted(parsed, target)) :
                 Targeted(parsed, target)[o].apply \in SUBSET target
          BY <5>1, TargetedOps
        <5> QED
          BY <4>1, <5>2
      <4> QED
        BY <3>1, <4>2 DEF ParseDone, TargetInv, Reach, fpgaVars, startVars
    <3>2. CASE SetupFails \/ SetupDone \/ LoadFails \/ ParseFails
      BY <3>2 DEF SetupFails, SetupDone, LoadFails, ParseFails, TargetInv,
                  Reach, fpgaVars, startVars
    <3> QED
      BY <2>1, <3>1, <3>2 DEF Setup
  <2>2. ASSUME NextOp PROVE TargetInv'
    BY <2>2 DEF NextOp, SkipOp, RefuseImage, BeginTransfer, AllDone, TargetInv,
                Reach, fpgaVars, startVars
  <2>3. ASSUME Copy PROVE TargetInv'
    <3>1. CASE ReadCrc
      <4>1. Apply \in SUBSET target
        BY <3>1, WorkType DEF ReadCrc, Working, TargetInv, Apply
      <4> QED
        BY <3>1, <4>1 DEF ReadCrc, TargetInv, Reach, fpgaVars
    <3>2. CASE ~ReadCrc
      BY <2>3, <3>2 DEF Copy, CopyPage, WriteSize, ReadSize, WriteCrc,
                        CopyFails, TargetInv, Reach, fpgaVars, progVars,
                        startVars
    <3> QED
      BY <3>1, <3>2
  <2>4. ASSUME Start PROVE TargetInv'
    <3>1. CASE Trigger
      <4>1. /\ busy' \in SUBSET Reach
            /\ Flagged(verdict') \in SUBSET Reach
        BY <3>1, <2>0, TriggerReach DEF Trigger
      <4> QED
        BY <3>1, <4>1, ClearFlags DEF Trigger, TargetInv, Reach
    <3>2. CASE TriggerFails
      <4>1. /\ ops' = ops /\ target' = target /\ stale' = stale /\ todo' = {}
            /\ rb' = ClearStatus /\ pc' = "next_op"
        BY <3>2 DEF TriggerFails, Conclude
      <4>2. CASE UNCHANGED <<progVars, adrift>>
        BY <4>1, <4>2, ClearFlags DEF TargetInv, Reach, progVars
      <4>3. CASE TriggerUpdate(todo) /\ adrift' = adrift \cup todo
        <5>1. /\ busy' \in SUBSET Reach
              /\ Flagged(verdict') \in SUBSET Reach
          BY <4>3, <2>0, TriggerReach
        <5> QED
          BY <4>1, <4>3, <5>1, ClearFlags DEF TargetInv, Reach
      <4> QED
        BY <3>2, <4>2, <4>3 DEF TriggerFails
    <3>3. CASE Poll
      <4>1. Flagged(rb'.verdict) = Flagged(verdict)
        BY <3>3 DEF Poll, Status, Flagged
      <4> QED
        BY <3>3, <4>1 DEF Poll, TargetInv, Reach, fpgaVars
    <3>4. CASE PollFails \/ CheckClean \/ CheckExtendedFails
      <4>1. /\ ops' = ops /\ target' = target /\ stale' = stale /\ todo' = {}
            /\ rb' = ClearStatus /\ pc' = "next_op"
            /\ adrift \in SUBSET adrift'
            /\ UNCHANGED fpgaVars
        BY <3>4 DEF PollFails, CheckClean, CheckExtendedFails, Conclude
      <4> QED
        BY <4>1, ClearFlags DEF TargetInv, Reach, fpgaVars
    <3>5. CASE PollTimesOut
      BY <3>5 DEF PollTimesOut, TargetInv, Reach, fpgaVars, startVars
    <3>6. CASE CheckRetry
      <4>1. RetrySet = Flagged(rb.verdict)
        BY DEF RetrySet, Flagged
      <4>2. /\ ops' = ops /\ UNCHANGED <<target, adrift, stale>>
            /\ UNCHANGED fpgaVars
            /\ \/ todo' = RetrySet /\ rb' = rb /\ pc' = "trigger"
               \/ todo' = {} /\ rb' = ClearStatus /\ pc' = "next_op"
        BY <3>6 DEF CheckRetry, Conclude
      <4> QED
        BY <4>1, <4>2, ClearFlags DEF TargetInv, Reach, fpgaVars
    <3> QED
      BY <2>4, <3>1, <3>2, <3>3, <3>4, <3>5, <3>6 DEF Start
  <2>5. ASSUME Engine PROVE TargetInv'
    <3>1. /\ busy' \in SUBSET Reach
          /\ Flagged(verdict') \in SUBSET Reach
      BY <2>5, <2>0, EngineReach DEF Engine
    <3> QED
      BY <2>5, <3>1 DEF Engine, mainVars, startVars, TargetInv, Reach
  <2>6. ASSUME UNCHANGED vars PROVE TargetInv'
    BY <2>6 DEF vars, fpgaVars, mainVars, startVars, TargetInv, Reach
  <2> QED
    BY <2>1, <2>2, <2>3, <2>4, <2>5, <2>6 DEF Next, Main, Exited
<1> QED
  BY <1>1, <1>2, TypeInvariance, PTL DEF Spec

(* No session, whatever fails in it, writes the EEPROM of a retimer that is *)
(* neither on its command line nor programmed unwatched, the ones that an   *)
(* earlier session left with an error bit on a busy FPGA excepted.          *)
THEOREM Untargeted == Spec => UntargetedUntouched
<1>1. TypeInv /\ TargetInv /\ [Next]_vars =>
         [\A r \in Retimers \ (target \cup adrift \cup stale) :
             eeprom'[r] = eeprom[r]]_vars
  <2> SUFFICES ASSUME TypeInv, TargetInv, Next
               PROVE  \A r \in Retimers \ (target \cup adrift \cup stale) :
                         eeprom'[r] = eeprom[r]
    OBVIOUS
  <2>0. TypeOK
    BY DEF TypeInv
  <2>1. CASE Setup \/ NextOp \/ Copy
    BY <2>1 DEF Setup, SetupFails, SetupDone, LoadFails, ParseFails, ParseDone,
                NextOp, SkipOp, RefuseImage, BeginTransfer, AllDone,
                Copy, CopyPage, WriteSize, ReadSize, WriteCrc, ReadCrc,
                CopyFails, fpgaVars, progVars
  <2>2. CASE Start
    <3>1. CASE Trigger
      BY <3>1, <2>0, TriggerReach DEF Trigger, Reach
    <3>2. CASE TriggerFails
      BY <3>2, <2>0, TriggerReach DEF TriggerFails, Reach, progVars
    <3>3. CASE ~Trigger /\ ~TriggerFails
      BY <2>2, <3>3 DEF Start, Poll, PollFails, PollTimesOut, CheckClean,
                        CheckExtendedFails, CheckRetry, fpgaVars
    <3> QED
      BY <3>1, <3>2, <3>3
  <2>3. CASE Engine
    BY <2>3, <2>0, EngineReach DEF Engine, Reach
  <2>4. CASE Exited
    BY <2>4 DEF Exited, vars, fpgaVars
  <2> QED
    BY <2>1, <2>2, <2>3, <2>4 DEF Next, Main
<1> QED
  BY <1>1, TypeInvariance, TargetInvariance, PTL DEF Spec, UntargetedUntouched

-------------------------------------------------------------------------------
(* What the messages and the exit status of a session are worth.            *)

(* Membership in what prepareMessageRegistry() logs, seen from one event.   *)
LEMMA LoggedHas ==
    ASSUME NEW o, NEW m, NEW r, NEW o2, NEW m2, NEW S
    PROVE  [op |-> o, msg |-> m, rt |-> r] \in Logged(o2, m2, S)
              <=> o = o2 /\ m = m2 /\ r \in S
  BY DEF Logged

(* What Conclude adds to the log.                                           *)
ConcludedAs(code, N, m, r) ==
    \/ code = "OK" /\ m = "UpdateSuccessful" /\ r \in Apply
    \/ code # "OK" /\ m = "ApplyFailed" /\ r \in N
    \/ code # "OK" /\ m = "UpdateSuccessful" /\ r \in Xor(Apply, N)

LEMMA ConcludeLogs ==
    ASSUME NEW code, NEW N, Conclude(code, N), NEW o, NEW m, NEW r
    PROVE  Reported(o, m, r)' <=>
              Reported(o, m, r) \/ (o = uo /\ ConcludedAs(code, N, m, r))
  BY LoggedHas DEF Conclude, Reported, ConcludedAs

(* Every retimer of the operation gets one of the two conclusions, even if  *)
(* the bitmap of the failed ones has nothing to do with the operation's.    *)
LEMMA ConcludedOnce ==
    ASSUME NEW code, NEW N, NEW r \in Apply
    PROVE  \E m \in Conclusions :
              /\ ConcludedAs(code, N, m, r)
              /\ \A n \in Conclusions \ {m} : ~ConcludedAs(code, N, n, r)
  <1>1. CASE code # "OK" /\ r \in N
    <2>1. ConcludedAs(code, N, "ApplyFailed", r)
      BY <1>1 DEF ConcludedAs
    <2>2. \A n \in Conclusions \ {"ApplyFailed"} : ~ConcludedAs(code, N, n, r)
      BY <1>1 DEF ConcludedAs, Conclusions, Xor
    <2> QED
      BY <2>1, <2>2 DEF Conclusions
  <1>2. CASE ~(code # "OK" /\ r \in N)
    <2>1. ConcludedAs(code, N, "UpdateSuccessful", r)
      BY <1>2 DEF ConcludedAs, Xor
    <2>2. \A n \in Conclusions \ {"UpdateSuccessful"} :
             ~ConcludedAs(code, N, n, r)
      BY <1>2 DEF ConcludedAs, Conclusions
    <2> QED
      BY <2>1, <2>2 DEF Conclusions
  <1> QED
    BY <1>1, <1>2

-------------------------------------------------------------------------------
(* One conclusion for every targeted retimer.                               *)

ConcludedOp(o) ==
    \A r \in ops[o].apply :
        \E m \in Conclusions :
            /\ Reported(o, m, r)
            /\ \A n \in Conclusions \ {m} : ~Reported(o, n, r)

(* Nothing has been logged of operations to come, and of the one under way  *)
(* only its beginning.                                                      *)
LogInv ==
    /\ pc = "exit" => uo > Len(ops)
    /\ \A o, m, r : Reported(o, m, r) =>
          /\ o \in 0..uo
          /\ o = uo => m = "TransferringToComponent"
    /\ \A o \in 1..Len(ops) : o < uo => ConcludedOp(o)

(* The steps that end an operation by Conclude leave LogInv true.           *)
LEMMA ConcludeLogInv ==
    ASSUME TypeInv, LogInv, uo <= Len(ops),
           NEW code, NEW N, Conclude(code, N)
    PROVE  LogInv'
  <1>1. /\ uo' = uo + 1 /\ pc' = "next_op" /\ ops' = ops /\ uo \in Nat \ {0}
        /\ Len(ops) \in Nat
    BY OpType DEF Conclude, TypeInv, TypeOK
  <1>2. ASSUME NEW o, NEW m, NEW r, Reported(o, m, r)'
        PROVE  o \in 0..uo' /\ o # uo'
    <2>1. Reported(o, m, r) \/ o = uo
      BY <1>2, ConcludeLogs
    <2> QED
      BY <1>1, <2>1 DEF LogInv
  <1>3. ASSUME NEW o \in 1..Len(ops), o < uo'
        PROVE  ConcludedOp(o)'
    <2>1. CASE o = uo
      <3>1. \A m \in Conclusions : \A r : ~Reported(o, m, r)
        BY <2>1 DEF LogInv, Conclusions
      <3>2. \A m \in Conclusions : \A r :
               Reported(o, m, r)' <=> ConcludedAs(code, N, m, r)
        BY <2>1, <3>1, ConcludeLogs
      <3>3. ASSUME NEW r \in Apply
            PROVE  \E m \in Conclusions :
                      /\ Reported(o, m, r)'
                      /\ \A n \in Conclusions \ {m} : ~Reported(o, n, r)'
        BY <3>2, ConcludedOnce
      <3>4. ops'[o].apply = Apply
        BY <1>1, <2>1 DEF Apply
      <3> QED
        BY <3>3, <3>4 DEF ConcludedOp
    <2>2. CASE o # uo
      <3>1. ConcludedOp(o)
        BY <1>1, <1>3, <2>2 DEF LogInv
      <3>2. \A m, r : Reported(o, m, r)' <=> Reported(o, m, r)
        BY <2>2, ConcludeLogs
      <3> QED
        BY <1>1, <3>1, <3>2 DEF ConcludedOp
    <2> QED
      BY <2>1, <2>2
  <1> QED
    BY <1>1, <1>2, <1>3 DEF LogInv

(* A failed transfer concludes the operation for every retimer of it.       *)
LEMMA TransferFailedLogInv ==
    ASSUME TypeInv, LogInv, uo <= Len(ops), ops' = ops, uo' = uo + 1,
           pc' = "next_op",
           NEW M, "TransferFailed" \in M,
           M \cap Conclusions \in SUBSET {"TransferFailed"},
           \A o, m, r : Reported(o, m, r)' <=>
              Reported(o, m, r) \/ (o = uo /\ m \in M /\ r \in Apply)
    PROVE  LogInv'
  <1>1. uo \in Nat \ {0} /\ Len(ops) \in Nat
    BY OpType DEF TypeInv, TypeOK
  <1>2. ASSUME NEW o, NEW m, NEW r, Reported(o, m, r)'
        PROVE  o \in 0..uo' /\ o # uo'
    BY <1>1, <1>2 DEF LogInv
  <1>3. ASSUME NEW o \in 1..Len(ops), o < uo'
        PROVE  ConcludedOp(o)'
    <2>1. CASE o = uo
      <3>1. \A n \in Conclusions : \A r : ~Reported(o, n, r)
        BY <2>1 DEF LogInv, Conclusions
      <3>2. ASSUME NEW r \in ops[o].apply
            PROVE  /\ Reported(o, "TransferFailed", r)'
                   /\ \A n \in Conclusions \ {"TransferFailed"} :
                         ~Reported(o, n, r)'
        BY <2>1, <3>1 DEF Apply
      <3> QED
        BY <3>2 DEF ConcludedOp, Conclusions
    <2>2. CASE o # uo
      <3>1. ConcludedOp(o)
        BY <1>1, <1>3, <2>2 DEF LogInv
      <3>2. \A m, r : Reported(o, m, r)' <=> Reported(o, m, r)
        BY <2>2
      <3> QED
        BY <3>1, <3>2 DEF ConcludedOp
    <2> QED
      BY <2>1, <2>2
  <1> QED
    BY <1>1, <1>2, <1>3 DEF LogInv

(* The log, the operations and the index unchanged. *)
LEMMA QuietLogInv ==
    ASSUME LogInv, UNCHANGED <<ops, uo, log>>, pc' = "exit" => uo > Len(ops)
    PROVE  LogInv'
  BY DEF LogInv, ConcludedOp, Reported

(* Every step leaves the operations behind it concluded.                    *)
LEMMA LogStep ==
    ASSUME TypeInv, LogInv, [Next]_vars
    PROVE  LogInv'
<1>0. uo \in Nat \ {0} /\ Len(ops) \in Nat
  BY OpType DEF TypeInv, TypeOK
<1>1. ASSUME Setup PROVE LogInv'
  <2>0. uo = 1 /\ ops = <<>> /\ log = {} /\ Len(ops) = 0
    BY <1>1, EmptySeq DEF Setup, SetupFails, SetupDone, LoadFails, ParseFails,
                          ParseDone, TypeInv, SetupInv
  <2>1. CASE SetupFails
    BY <2>0, <2>1, QuietLogInv DEF SetupFails
  <2>2. CASE SetupDone
    BY <2>2, QuietLogInv DEF SetupDone
  <2>3. CASE LoadFails \/ ParseFails
    <3>1. PICK msg : log' = log \cup Logged(0, msg, target)
      BY <2>3 DEF LoadFails, ParseFails
    <3>2. \A o, m, r : Reported(o, m, r)' => o = 0
      BY <2>0, <3>1, LoggedHas DEF Reported
    <3>3. uo' = 1 /\ ops' = <<>> /\ Len(ops') = 0
      BY <2>0, <2>3 DEF LoadFails, ParseFails
    <3> QED
      BY <3>2, <3>3 DEF LogInv
  <2>4. CASE ParseDone
    <3>1. uo' = 1 /\ log' = {} /\ pc' # "exit"
      BY <2>0, <2>4 DEF ParseDone
    <3> QED
      BY <3>1 DEF LogInv, Reported
  <2> QED
    BY <1>1, <2>1, <2>2, <2>3, <2>4 DEF Setup
<1>2. ASSUME NextOp PROVE LogInv'
  <2>1. CASE SkipOp
    <3>1. /\ uo' = uo + 1 /\ ops' = ops /\ log' = log /\ pc' # "exit"
          /\ ops[uo].apply = {}
      BY <2>1 DEF SkipOp, Apply
    <3>2. \A o \in 1..Len(ops) : o < uo + 1 => ConcludedOp(o)
      BY <1>0, <3>1 DEF LogInv, ConcludedOp
    <3>3. \A o : ConcludedOp(o)' <=> ConcludedOp(o)
      BY <3>1 DEF ConcludedOp, Reported
    <3> QED
      BY <1>0, <3>1, <3>2, <3>3 DEF LogInv, Reported
  <2>2. CASE RefuseImage
    <3> DEFINE M == {"TransferringToComponent", "TransferFailed"}
    <3>1. \A o, m, r : Reported(o, m, r)' <=>
             Reported(o, m, r) \/ (o = uo /\ m \in M /\ r \in Apply)
      BY <2>2, LoggedHas DEF RefuseImage, Reported
    <3>2. "TransferFailed" \in M /\ M \cap Conclusions \in SUBSET {"TransferFailed"}
      BY DEF Conclusions
    <3> HIDE DEF M
    <3> QED
      BY <2>2, <3>1, <3>2, TransferFailedLogInv DEF RefuseImage
  <2>3. CASE BeginTransfer
    <3>1. \A o, m, r : Reported(o, m, r)' <=>
             \/ Reported(o, m, r)
             \/ o = uo /\ m = "TransferringToComponent" /\ r \in Apply
      BY <2>3, LoggedHas DEF BeginTransfer, Reported
    <3>2. uo' = uo /\ ops' = ops /\ pc' # "exit"
      BY <2>3 DEF BeginTransfer
    <3>3. \A o \in 1..Len(ops) : o < uo => ConcludedOp(o)'
      <4> SUFFICES ASSUME NEW o \in 1..Len(ops), o < uo
                   PROVE  ConcludedOp(o)'
        OBVIOUS
      <4>1. ConcludedOp(o) /\ o # uo
        BY <1>0 DEF LogInv
      <4>2. \A m, r : Reported(o, m, r)' <=> Reported(o, m, r)
        BY <3>1, <4>1
      <4> QED
        BY <3>2, <4>1, <4>2 DEF ConcludedOp
    <3> QED
      BY <1>0, <3>1, <3>2, <3>3 DEF LogInv
  <2>4. CASE AllDone
    BY <2>4, QuietLogInv DEF AllDone
  <2> QED
    BY <1>2, <2>1, <2>2, <2>3, <2>4 DEF NextOp
<1>3. ASSUME Copy PROVE LogInv'
  <2>1. CASE CopyFails
    <3>1. uo <= Len(ops)
      BY <2>1, WorkType DEF CopyFails, Working
    <3> DEFINE M == {"TransferFailed"}
    <3>2. \A o, m, r : Reported(o, m, r)' <=>
             Reported(o, m, r) \/ (o = uo /\ m \in M /\ r \in Apply)
      BY <2>1, LoggedHas DEF CopyFails, Reported
    <3>3. "TransferFailed" \in M /\ M \cap Conclusions \in SUBSET {"TransferFailed"}
      BY DEF Conclusions
    <3> HIDE DEF M
    <3> QED
      BY <2>1, <3>1, <3>2, <3>3, TransferFailedLogInv DEF CopyFails
  <2>2. CASE ~CopyFails
    <3>1. pc' # "exit" /\ UNCHANGED <<ops, uo, log>>
      BY <1>3, <2>2 DEF Copy, CopyPage, WriteSize, ReadSize, WriteCrc, ReadCrc
    <3> QED
      BY <3>1, QuietLogInv
  <2> QED
    BY <2>1, <2>2
<1>4. ASSUME Start PROVE LogInv'
  <2>1. CASE \E code, N : Conclude(code, N)
    <3>1. uo <= Len(ops)
      BY <1>4, WorkType DEF Working, Start, Trigger, TriggerFails, Poll,
         PollFails, PollTimesOut, CheckClean, CheckExtendedFails, CheckRetry
    <3> QED
      BY <2>1, <3>1, ConcludeLogInv
  <2>2. CASE ~\E code, N : Conclude(code, N)
    <3>1. pc' # "exit" /\ UNCHANGED <<ops, uo, log>>
      BY <1>4, <2>2 DEF Start, Trigger, TriggerFails, Poll, PollFails,
         PollTimesOut, CheckClean, CheckExtendedFails, CheckRetry
    <3> QED
      BY <3>1, QuietLogInv
  <2> QED
    BY <2>1, <2>2
<1>5. ASSUME Engine \/ UNCHANGED vars PROVE LogInv'
  <2>1. UNCHANGED <<pc, ops, uo, log>>
    BY <1>5 DEF Engine, mainVars, vars
  <2>2. pc' = "exit" => uo > Len(ops)
    BY <2>1 DEF LogInv
  <2> QED
    BY <2>1, <2>2, QuietLogInv
<1> QED
  BY <1>1, <1>2, <1>3, <1>4, <1>5 DEF Next, Main, Exited

THEOREM LogInvariance == Spec => []LogInv
<1>1. Init => LogInv
  <2> SUFFICES ASSUME Init PROVE LogInv
    OBVIOUS
  <2>1. Len(ops) = 0 /\ log = {} /\ pc # "exit"
    BY EmptySeq DEF Init, UpdateFwInit
  <2> QED
    BY <2>1 DEF LogInv, Reported
<1>2. TypeInv /\ LogInv /\ [Next]_vars => LogInv'
  BY LogStep
<1> QED
  BY <1>1, <1>2, TypeInvariance, PTL DEF Spec

(* Whatever transaction fails, every targeted retimer of an operation that  *)
(* is over has exactly one conclusion in the journal, and at the end of the *)
(* session no operation is left open.                                       *)
THEOREM Concludes == Spec => []EveryTransferConcludes
<1>1. TypeInv /\ LogInv => EveryTransferConcludes
  <2> SUFFICES ASSUME TypeInv, LogInv PROVE EveryTransferConcludes
    OBVIOUS
  <2>1. DOMAIN ops = 1..Len(ops)
    BY OpType DEF TypeInv
  <2> QED
    BY <2>1 DEF LogInv, ConcludedOp, EveryTransferConcludes
<1> QED
  BY <1>1, TypeInvariance, LogInvariance, PTL

-------------------------------------------------------------------------------
(* The truth of the reports.                                                *)

(* G[o]: what an EEPROM that operation o has programmed may hold.  It is o's *)
(* image, as long as nobody but the session writes to the FPGA.             *)
Own == [o \in 1..Len(ops) |-> {ops[o].img}]

Holds(G, o, S) == \A r \in S : eeprom[r] \in G[o]

(* Two operations of a session have no retimer in common. *)
Disjoint ==
    \A i, j \in 1..Len(ops) : i # j => ops[i].apply \cap ops[j].apply = {}

(* The codes the loop over the operations can leave in ret: none of them    *)
(* has a low byte of 0 but OK.                                              *)
LoopCodes == {"OK", "WRONG_FIRMWARE", "IOCTL_I2C", "OPEN_FIRMWARE",
              "RETIMER_STATUS"}

CodeInv ==
    /\ firstErr \in LoopCodes
    /\ ops # <<>> => ret \in LoopCodes

(* The course of startRetimerFwUpdate() as long as nothing is adrift: what  *)
(* is left to do is part of the operation, the rest of it is programmed,    *)
(* and the status register tells truly which is which.                      *)
StartInv(G) ==
    /\ pc # "poll" => busy = {}
    /\ pc \in {"trigger", "poll", "check"} =>
          /\ todo \in SUBSET Apply
          /\ Holds(G, uo, Apply \ todo)
    /\ pc = "trigger" /\ attempt > 0 => \A r \in todo : eeprom[r] = Corrupt
    /\ pc = "poll" =>
          /\ busy \in SUBSET todo
          /\ timeout > 0 => rb.busy # {}
          /\ attempt > 0 => \A r \in busy : eeprom[r] = Corrupt
    /\ pc \in {"poll", "check"} =>
          \A r \in Retimers :
              /\ verdict[r] # "ok" => r \in todo \ busy /\ eeprom[r] = Corrupt
              /\ r \in todo \ busy /\ verdict[r] = "ok" => eeprom[r] \in G[uo]
    /\ pc = "check" => rb = Status

(* What has been logged and returned of the operations that are over.       *)
TrueReport(G, o) ==
    \A r \in Retimers :
        /\ Reported(o, "UpdateSuccessful", r) =>
              r \in ops[o].apply /\ eeprom[r] \in G[o]
        /\ Reported(o, "ApplyFailed", r) =>
              r \in ops[o].apply /\ eeprom[r] = Corrupt

OutcomeInv(G) ==
    /\ \A o \in 1..Len(ops) : o \notin erred /\ o < uo => TrueReport(G, o)
    /\ firstErr = "OK" =>
          \A o \in 1..Len(ops) : o < uo => Holds(G, o, ops[o].apply)
    /\ pc = "exit" /\ ret = "OK" => firstErr = "OK"

(* The history variable only grows: what holds while nothing is adrift      *)
(* needs to be shown of steps that leave nothing adrift.                    *)
LEMMA AdriftGrows ==
    ASSUME [Next]_vars
    PROVE  adrift \in SUBSET adrift'
  BY DEF Next, Main, Setup, SetupFails, SetupDone, LoadFails, ParseFails,
         ParseDone, NextOp, SkipOp, RefuseImage, BeginTransfer, AllDone,
         Copy, CopyPage, WriteSize, ReadSize, WriteCrc, ReadCrc, CopyFails,
         Start, Trigger, TriggerFails, Poll, PollFails, PollTimesOut,
         CheckClean, CheckExtendedFails, CheckRetry, Engine, Exited,
         vars, mainVars

LEMMA StaleFixed ==
    ASSUME [Next]_vars
    PROVE  stale' = stale
  BY DEF Next, Main, Setup, SetupFails, SetupDone, LoadFails, ParseFails,
         ParseDone, NextOp, SkipOp, RefuseImage, BeginTransfer, AllDone,
         Copy, CopyPage, WriteSize, ReadSize, WriteCrc, ReadCrc, CopyFails,
         Start, Trigger, TriggerFails, Poll, PollFails, PollTimesOut,
         CheckClean, CheckExtendedFails, CheckRetry, Conclude, Engine, Exited,
         vars, mainVars

(* Every step leaves the operations apart and the codes those of the loop.  *)
LEMMA CodeStep ==
    ASSUME TypeInv, Disjoint, CodeInv, [Next]_vars
    PROVE  (Disjoint /\ CodeInv)'
<1>1. ASSUME Setup PROVE (Disjoint /\ CodeInv)'
  <2>1. CASE ParseDone
    <3>1. PICK parsed \in ParsedOps : ops' = Targeted(parsed, target)
      BY <2>1 DEF ParseDone
    <3>2. target \in SUBSET Retimers
      BY DEF TypeInv, TypeOK
    <3>3. \A i, j \in 1..Len(Targeted(parsed, target)) :
             i # j => Targeted(parsed, target)[i].apply
                         \cap Targeted(parsed, target)[j].apply = {}
      BY <3>2, TargetedOps
    <3>4. Disjoint'
      BY <3>1, <3>3 DEF Disjoint
    <3> QED
      BY <2>1, <3>4 DEF ParseDone, CodeInv, LoopCodes, TypeInv, SetupInv
  <2>2. CASE SetupFails \/ SetupDone \/ LoadFails \/ ParseFails
    BY <2>2 DEF SetupFails, SetupDone, LoadFails, ParseFails, CodeInv,
                LoopCodes, TypeInv, SetupInv, Disjoint
  <2> QED
    BY <1>1, <2>1, <2>2 DEF Setup
<1>2. ASSUME NextOp \/ Copy PROVE (Disjoint /\ CodeInv)'
  BY <1>2 DEF NextOp, SkipOp, RefuseImage, BeginTransfer, AllDone,
              Copy, CopyPage, WriteSize, ReadSize, WriteCrc, ReadCrc,
              CopyFails, CodeInv, LoopCodes, Disjoint
<1>3. ASSUME Start PROVE (Disjoint /\ CodeInv)'
  BY <1>3 DEF Start, Trigger, TriggerFails, Poll, PollFails, PollTimesOut,
              CheckClean, CheckExtendedFails, CheckRetry, Conclude,
              StatusCode, CodeInv, LoopCodes, Disjoint
<1>4. ASSUME Engine \/ UNCHANGED vars PROVE (Disjoint /\ CodeInv)'
  BY <1>4 DEF Engine, mainVars, vars, CodeInv, Disjoint
<1> QED
  BY <1>1, <1>2, <1>3, <1>4 DEF Next, Main, Exited

THEOREM CodeInvariance == Spec => [](Disjoint /\ CodeInv)
<1>1. Init => Disjoint /\ CodeInv
  <2> SUFFICES ASSUME Init PROVE Disjoint /\ CodeInv
    OBVIOUS
  <2>1. Len(ops) = 0 /\ ops = <<>> /\ firstErr = "OK"
    BY EmptySeq DEF Init, UpdateFwInit
  <2> QED
    BY <2>1 DEF Disjoint, CodeInv, LoopCodes
<1>2. TypeInv /\ Disjoint /\ CodeInv /\ [Next]_vars => (Disjoint /\ CodeInv)'
  BY CodeStep
<1> QED
  BY <1>1, <1>2, TypeInvariance, PTL DEF Spec

(* A trigger that finds the engine idle is taken, and as yet no EEPROM      *)
(* changes.                                                                 *)
LEMMA IdleTrigger ==
    ASSUME TypeOK, busy = {}, TriggerUpdate(todo)
    PROVE  /\ busy' = todo
           /\ \A r \in Retimers : verdict'[r] = "ok"
           /\ eeprom' = eeprom
  <1>1. AcceptTrigger(todo)
    BY DEF TriggerUpdate, IgnoreTrigger
  <1>2. eeprom' = [r \in Retimers |-> eeprom[r]]
    BY <1>1 DEF AcceptTrigger
  <1> QED
    BY <1>1, <1>2 DEF AcceptTrigger, TypeOK, FpgaTypeOK

LEMMA QuietOutcome ==
    ASSUME NEW G, OutcomeInv(G),
           UNCHANGED <<ops, uo, log, erred, firstErr, eeprom>>,
           pc' = "exit" /\ ret' = "OK" => firstErr' = "OK"
    PROVE  OutcomeInv(G)'
  BY DEF OutcomeInv, TrueReport, Reported, Holds

(* The end of an operation, with the truth in its bitmap of failed retimers *)
(* or with an entry in erred.                                               *)
LEMMA ConcludeOutcome ==
    ASSUME TypeInv, LogInv, NEW G, OutcomeInv(G), uo <= Len(ops),
           NEW code, NEW N, Conclude(code, N), eeprom' = eeprom,
           \/ code # "OK" /\ erred' = erred \cup {uo}
           \/ code = "OK" /\ erred' = erred /\ Holds(G, uo, Apply)
           \/ /\ code # "OK" /\ erred' = erred
              /\ N \in SUBSET Apply
              /\ Holds(G, uo, Apply \ N)
              /\ \A r \in N : eeprom[r] = Corrupt
    PROVE  OutcomeInv(G)'
  <1>1. /\ uo' = uo + 1 /\ pc' = "next_op" /\ ops' = ops
        /\ uo \in 1..Len(ops) /\ Len(ops) \in Nat
    BY OpType DEF Conclude, TypeInv, TypeOK
  <1>2. ASSUME NEW o \in 1..Len(ops), o \notin erred', o < uo'
        PROVE  TrueReport(G, o)'
    <2>1. CASE o = uo
      <3>1. \A r : /\ ~Reported(o, "UpdateSuccessful", r)
                   /\ ~Reported(o, "ApplyFailed", r)
        BY <2>1 DEF LogInv
      <3>2. \A m, r : Reported(o, m, r)' <=>
               Reported(o, m, r) \/ ConcludedAs(code, N, m, r)
        BY <2>1, ConcludeLogs
      <3>3. erred' = erred
        BY <1>2, <2>1
      <3>4. ops[o].apply = Apply /\ ops[o].img = Image
        BY <2>1 DEF Apply, Image
      <3>5. CASE code = "OK"
        BY <1>1, <2>1, <3>1, <3>2, <3>4, <3>5
        DEF TrueReport, ConcludedAs, Holds
      <3>6. CASE code # "OK"
        <4>1. N \in SUBSET Apply /\ Holds(G, uo, Apply \ N)
              /\ \A r \in N : eeprom[r] = Corrupt
          BY <1>1, <1>2, <2>1, <3>6
        <4>2. Xor(Apply, N) = Apply \ N
          BY <4>1 DEF Xor
        <4> QED
          BY <1>1, <2>1, <3>1, <3>2, <3>4, <3>6, <4>1, <4>2
          DEF TrueReport, ConcludedAs, Holds
      <3> QED
        BY <3>5, <3>6
    <2>2. CASE o # uo
      <3>1. o \notin erred /\ o < uo
        BY <1>1, <1>2, <2>2
      <3>2. TrueReport(G, o)
        BY <3>1 DEF OutcomeInv
      <3>3. \A m, r : Reported(o, m, r)' <=> Reported(o, m, r)
        BY <2>2, ConcludeLogs
      <3> QED
        BY <1>1, <3>2, <3>3 DEF TrueReport
    <2> QED
      BY <2>1, <2>2
  <1>3. ASSUME firstErr' = "OK", NEW o \in 1..Len(ops), o < uo'
        PROVE  Holds(G, o, ops[o].apply)'
    <2>1. code = "OK" /\ firstErr = "OK"
      BY <1>3 DEF Conclude
    <2>2. Holds(G, uo, ops[uo].apply)
      BY <2>1 DEF Apply
    <2>3. CASE o = uo
      BY <1>1, <2>2, <2>3 DEF Holds
    <2>4. CASE o # uo
      <3>1. o < uo
        BY <1>1, <1>3, <2>4
      <3> QED
        BY <1>1, <2>1, <3>1 DEF OutcomeInv, Holds
    <2> QED
      BY <2>3, <2>4
  <1> QED
    BY <1>1, <1>2, <1>3 DEF OutcomeInv

(* The engine at work for operation uo does not touch the retimers of those *)
(* that are over, and does for its own what StartInv says.                  *)
LEMMA EngineReports ==
    ASSUME TypeInv, Disjoint, NEW G, StartInv(G), OutcomeInv(G), Engine,
           pc = "poll" => \A img \in Images : DpramHolds(img) => img \in G[uo]
    PROVE  StartInv(G)' /\ OutcomeInv(G)'
  <1>1. PICK r \in Retimers : EngineProgrammed(r) \/ EngineFailed(r)
    BY DEF Engine, EngineStep
  <1>2. /\ UNCHANGED <<pc, ops, uo, todo, attempt, timeout, rb, log, erred,
                       firstErr, ret>>
    BY DEF Engine, mainVars, startVars
  <1>3. r \in busy /\ pc = "poll"
    BY <1>1 DEF EngineProgrammed, EngineFailed, StartInv
  <1>4. r \in todo /\ r \in Apply /\ busy \in SUBSET todo /\ todo \in SUBSET Apply
    BY <1>3 DEF StartInv
  <1>5. /\ uo \in 1..Len(ops) /\ Image \in Images /\ Apply \in SUBSET Retimers
    BY <1>3, WorkType DEF Working
  <1>6. \A img \in Images : DpramHolds(img) => img \in G[uo]
    BY <1>3
  <1>7. /\ busy' = busy \ {r}
        /\ \A q \in Retimers \ {r} : eeprom'[q] = eeprom[q]
        /\ \A q \in Retimers \ {r} : verdict'[q] = verdict[q]
    BY <1>1 DEF EngineProgrammed, EngineFailed, TypeInv, TypeOK, FpgaTypeOK
  <1>8. \/ verdict'[r] = "ok" /\ eeprom'[r] \in G[uo]
        \/ verdict'[r] # "ok" /\ eeprom'[r] = Corrupt
    <2>1. CASE EngineProgrammed(r)
      <3>1. PICK img \in Images :
               DpramHolds(img) /\ eeprom' = [eeprom EXCEPT ![r] = img]
        BY <2>1 DEF EngineProgrammed
      <3>2. eeprom'[r] \in G[uo]
        BY <3>1, <1>6 DEF TypeInv, TypeOK, FpgaTypeOK
      <3>3. verdict'[r] = "ok"
        BY <2>1, <1>3 DEF EngineProgrammed, StartInv
      <3> QED
        BY <3>2, <3>3
    <2>2. CASE EngineFailed(r)
      BY <2>2 DEF EngineFailed, TypeInv, TypeOK, FpgaTypeOK
    <2> QED
      BY <1>1, <2>1, <2>2
  <1>9. StartInv(G)'
    <2>1. Apply' = Apply /\ Image' = Image
      BY <1>2 DEF Apply, Image
    <2>2. \A q \in Apply \ todo : eeprom'[q] \in G[uo]
      BY <1>3, <1>4, <1>5, <1>7 DEF StartInv, Holds
    <2>3. Holds(G, uo, Apply \ todo)'
      BY <1>2, <2>1, <2>2 DEF Holds
    <2>4. \A q \in Retimers :
             verdict'[q] # "ok" => q \in todo \ busy' /\ eeprom'[q] = Corrupt
      BY <1>3, <1>4, <1>7, <1>8 DEF StartInv
    <2>5. \A q \in todo \ busy' : verdict'[q] = "ok" => eeprom'[q] \in G[uo]
      BY <1>3, <1>4, <1>5, <1>7, <1>8 DEF StartInv
    <2>6. attempt > 0 => \A q \in busy' : eeprom'[q] = Corrupt
      BY <1>3, <1>4, <1>5, <1>7 DEF StartInv
    <2> QED
      BY <1>2, <1>3, <1>4, <1>7, <2>1, <2>3, <2>4, <2>5, <2>6 DEF StartInv
  <1>10. OutcomeInv(G)'
    <2>1. ASSUME NEW o \in 1..Len(ops), o < uo
          PROVE  r \notin ops[o].apply
      BY <2>1, <1>4, <1>5 DEF Disjoint, Apply
    <2>2. ASSUME NEW o \in 1..Len(ops), o < uo
          PROVE  /\ \A q \in ops[o].apply : eeprom'[q] = eeprom[q]
      BY <2>1, <2>2, <1>7, OpType DEF TypeInv
    <2>3. ASSUME NEW o \in 1..Len(ops), o < uo, o \notin erred
          PROVE  TrueReport(G, o)'
      <3>1. TrueReport(G, o)
        BY <2>3 DEF OutcomeInv
      <3> QED
        BY <1>2, <2>2, <2>3, <3>1 DEF TrueReport, Reported
    <2>4. ASSUME NEW o \in 1..Len(ops), o < uo, firstErr = "OK"
          PROVE  Holds(G, o, ops[o].apply)'
      BY <1>2, <2>2, <2>4 DEF OutcomeInv, Holds
    <2> QED
      BY <1>2, <1>3, <2>3, <2>4 DEF OutcomeInv
  <1> QED
    BY <1>9, <1>10

(* When the answer is judged and nothing is adrift, the bitmap of the       *)
(* failed retimers is the truth about the operation.                        *)
LEMMA CheckTruth ==
    ASSUME TypeOK, NEW G, StartInv(G), pc = "check"
    PROVE  /\ busy = {} /\ rb = Status
           /\ rb.busy = busy /\ rb.verdict = verdict
           /\ RetrySet \in SUBSET todo /\ todo \in SUBSET Apply
           /\ Holds(G, uo, Apply \ RetrySet)
           /\ \A r \in RetrySet : eeprom[r] = Corrupt
           /\ RetrySet = {} => rb = ClearStatus
  <1>1. /\ busy = {} /\ rb = Status /\ todo \in SUBSET Apply
        /\ Holds(G, uo, Apply \ todo)
        /\ \A r \in Retimers :
              /\ verdict[r] # "ok" => r \in todo /\ eeprom[r] = Corrupt
              /\ r \in todo /\ verdict[r] = "ok" => eeprom[r] \in G[uo]
    BY DEF StartInv
  <1>2. rb.busy = busy /\ rb.verdict = verdict
    BY <1>1 DEF Status
  <1>3. RetrySet = {r \in Retimers : verdict[r] # "ok"}
    BY <1>2 DEF RetrySet
  <1>4. RetrySet \in SUBSET todo
    BY <1>1, <1>3
  <1>5. \A r \in RetrySet : eeprom[r] = Corrupt
    BY <1>1, <1>3
  <1>6. todo \in SUBSET Retimers
    BY DEF TypeOK
  <1>7. Holds(G, uo, Apply \ RetrySet)
    BY <1>1, <1>3, <1>6 DEF Holds
  <1>8. ASSUME RetrySet = {} PROVE rb = ClearStatus
    <2>1. verdict = [r \in Retimers |-> "ok"]
      BY <1>3, <1>8 DEF TypeOK, FpgaTypeOK
    <2> QED
      BY <1>1, <2>1 DEF Status, ClearStatus
  <1> QED
    BY <1>1, <1>2, <1>4, <1>5, <1>7, <1>8

(* The steps that find the operations out know of none yet.                 *)
LEMMA SetupReports ==
    ASSUME TypeInv, Setup, busy = {}
    PROVE  \A G : (StartInv(G) /\ OutcomeInv(G))'
<1> SUFFICES ASSUME NEW G PROVE StartInv(G)' /\ OutcomeInv(G)'
  OBVIOUS
<1>1. /\ busy' = busy /\ pc' \in {"load", "next_op", "exit"}
      /\ uo' = 1 /\ firstErr' = "OK"
  BY DEF Setup, SetupFails, SetupDone, LoadFails, ParseFails, ParseDone,
         TypeInv, SetupInv, fpgaVars
<1>2. StartInv(G)'
  BY <1>1 DEF StartInv
<1> QED
  BY <1>1, <1>2 DEF OutcomeInv

LEMMA ReportStep ==
    ASSUME TypeInv, LogInv, Disjoint, NEW G, StartInv(G), OutcomeInv(G),
           pc = "poll" => \A img \in Images : DpramHolds(img) => img \in G[uo],
           [Next]_vars, ~Setup, adrift = {}, adrift' = {}
    PROVE  StartInv(G)' /\ OutcomeInv(G)'
<1>0. TypeOK
  BY DEF TypeInv
<1>2. ASSUME NextOp PROVE StartInv(G)' /\ OutcomeInv(G)'
  <2>1. StartInv(G)'
    BY <1>2 DEF NextOp, SkipOp, RefuseImage, BeginTransfer, AllDone, fpgaVars,
                StartInv
  <2>2. CASE SkipOp
    <3>1. /\ uo' = uo + 1 /\ uo \in 1..Len(ops) /\ ops[uo].apply = {}
          /\ UNCHANGED <<ops, log, erred, firstErr, eeprom>> /\ pc' # "exit"
      BY <2>2, OpType, <1>0 DEF SkipOp, Apply, fpgaVars, TypeOK
    <3>2. \A r, m : Reported(uo, m, r) => m = "TransferringToComponent"
      BY DEF LogInv
    <3>3. TrueReport(G, uo) /\ Holds(G, uo, ops[uo].apply)
      BY <3>1, <3>2 DEF TrueReport, Holds
    <3> QED
      BY <2>1, <3>1, <3>3 DEF OutcomeInv, TrueReport, Reported, Holds
  <2>3. CASE RefuseImage
    <3>1. /\ uo' = uo + 1 /\ uo \in 1..Len(ops) /\ firstErr' # "OK"
          /\ UNCHANGED <<ops, erred, eeprom>> /\ pc' # "exit"
      BY <2>3, OpType, <1>0 DEF RefuseImage, fpgaVars, TypeOK
    <3>2. \A o, r : \A m \in {"UpdateSuccessful", "ApplyFailed"} :
             /\ Reported(o, m, r)' <=> Reported(o, m, r)
             /\ ~Reported(uo, m, r)
      BY <2>3, LoggedHas DEF RefuseImage, Reported, LogInv
    <3> QED
      BY <2>1, <3>1, <3>2 DEF OutcomeInv, TrueReport
  <2>4. CASE BeginTransfer
    <3>1. /\ uo' = uo
          /\ UNCHANGED <<ops, erred, firstErr, eeprom>> /\ pc' # "exit"
      BY <2>4 DEF BeginTransfer, fpgaVars
    <3>2. \A o, r : \A m \in {"UpdateSuccessful", "ApplyFailed"} :
             Reported(o, m, r)' <=> Reported(o, m, r)
      BY <2>4, LoggedHas DEF BeginTransfer, Reported
    <3> QED
      BY <2>1, <3>1, <3>2 DEF OutcomeInv, TrueReport, Holds
  <2>5. CASE AllDone
    BY <2>1, <2>5, QuietOutcome DEF AllDone, fpgaVars
  <2> QED
    BY <1>2, <2>2, <2>3, <2>4, <2>5 DEF NextOp
<1>3. ASSUME Copy PROVE StartInv(G)' /\ OutcomeInv(G)'
  <2>1. CASE CopyFails
    <3>1. /\ uo' = uo + 1 /\ uo \in 1..Len(ops) /\ firstErr' # "OK"
          /\ UNCHANGED <<ops, erred, eeprom, busy>> /\ pc' = "next_op"
          /\ pc # "poll"
      BY <2>1, WorkType DEF CopyFails, Working, progVars
    <3>2. \A o, r : \A m \in {"UpdateSuccessful", "ApplyFailed"} :
             /\ Reported(o, m, r)' <=> Reported(o, m, r)
             /\ ~Reported(uo, m, r)
      BY <2>1, LoggedHas DEF CopyFails, Reported, LogInv
    <3>3. StartInv(G)'
      BY <3>1 DEF StartInv
    <3> QED
      BY <3>1, <3>2, <3>3 DEF OutcomeInv, TrueReport
  <2>2. CASE ReadCrc
    <3>1. /\ todo' = Apply /\ Apply' = Apply /\ attempt' = 0
          /\ pc = "read_crc" /\ pc' = "trigger" /\ busy' = busy
      BY <2>2 DEF ReadCrc, Apply, fpgaVars
    <3>2. StartInv(G)'
      BY <3>1 DEF StartInv, Holds
    <3> QED
      BY <2>2, <3>2, QuietOutcome DEF ReadCrc, fpgaVars
  <2>3. CASE CopyPage \/ WriteSize \/ ReadSize \/ WriteCrc
    <3>1. /\ UNCHANGED <<ops, uo, log, erred, firstErr, eeprom, busy>>
          /\ pc' \in {"copy", "read_size", "write_crc", "read_crc"}
          /\ pc # "poll"
      BY <2>3 DEF CopyPage, WriteSize, ReadSize, WriteCrc, fpgaVars, progVars
    <3>2. StartInv(G)'
      BY <3>1 DEF StartInv
    <3> QED
      BY <3>1, <3>2, QuietOutcome
  <2> QED
    BY <1>3, <2>1, <2>2, <2>3 DEF Copy
<1>4. ASSUME Start PROVE StartInv(G)' /\ OutcomeInv(G)'
  <2>0. /\ pc \in {"trigger", "poll", "check"}
        /\ uo \in 1..Len(ops) /\ uo <= Len(ops)
    <3>1. pc \in {"trigger", "poll", "check"}
      BY <1>4 DEF Start, Trigger, TriggerFails, Poll, PollFails, PollTimesOut,
                  CheckClean, CheckExtendedFails, CheckRetry
    <3> QED
      BY <3>1, WorkType, OpType, <1>0 DEF Working, TypeInv, WorkInv
  <2>1. CASE Trigger
    <3>1. /\ busy' = todo
          /\ \A r \in Retimers : verdict'[r] = "ok"
          /\ eeprom' = eeprom
      BY <2>1, <1>0, IdleTrigger DEF Trigger, StartInv
    <3>2. /\ UNCHANGED <<ops, uo, todo, attempt, log, erred, firstErr>>
          /\ pc = "trigger" /\ pc' = "poll" /\ timeout' = 0
      BY <2>1 DEF Trigger
    <3>3. Apply' = Apply /\ Image' = Image
      BY <3>2 DEF Apply, Image
    <3>4. StartInv(G)'
      BY <3>1, <3>2, <3>3 DEF StartInv, Holds
    <3> QED
      BY <3>1, <3>2, <3>4, QuietOutcome
  <2>2. CASE TriggerFails
    <3>1. busy' = {} /\ eeprom' = eeprom
      <4>1. CASE UNCHANGED <<progVars, adrift>>
        BY <2>2, <4>1 DEF TriggerFails, progVars, StartInv
      <4>2. CASE TriggerUpdate(todo) /\ adrift' = adrift \cup todo
        BY <2>2, <4>2, <1>0, IdleTrigger DEF TriggerFails, StartInv
      <4> QED
        BY <2>2, <4>1, <4>2 DEF TriggerFails
    <3>2. Conclude("IOCTL_I2C", notUpdated) /\ erred' = erred \cup {uo}
      BY <2>2 DEF TriggerFails
    <3>3. StartInv(G)'
      BY <3>1, <3>2 DEF Conclude, StartInv
    <3> QED
      BY <2>0, <3>1, <3>2, <3>3, ConcludeOutcome
  <2>3. CASE Poll
    <3>1. /\ UNCHANGED <<ops, uo, todo, attempt, log, erred, firstErr>>
          /\ UNCHANGED fpgaVars
          /\ pc = "poll" /\ pc' = IF busy = {} THEN "check" ELSE "poll"
          /\ rb' = Status
      BY <2>3 DEF Poll
    <3>2. /\ Apply' = Apply /\ Image' = Image /\ Status' = Status
          /\ rb'.busy = busy
      BY <3>1 DEF Apply, Image, Status, fpgaVars
    <3>3. StartInv(G)'
      <4>1. CASE busy = {}
        BY <3>1, <3>2, <4>1 DEF StartInv, Holds, fpgaVars
      <4>2. CASE busy # {}
        BY <3>1, <3>2, <4>2 DEF StartInv, Holds, fpgaVars
      <4> QED
        BY <4>1, <4>2
    <3>4. pc' # "exit"
      BY <3>1
    <3> QED
      BY <3>1, <3>3, <3>4, QuietOutcome DEF fpgaVars
  <2>4. CASE PollFails
    <3>1. busy' = {} /\ eeprom' = eeprom
      BY <2>4 DEF PollFails, fpgaVars
    <3>2. Conclude("IOCTL_I2C", notUpdated) /\ erred' = erred \cup {uo}
      BY <2>4 DEF PollFails
    <3>3. StartInv(G)'
      BY <3>1, <3>2 DEF Conclude, StartInv
    <3> QED
      BY <2>0, <3>1, <3>2, <3>3, ConcludeOutcome
  <2>5. CASE PollTimesOut
    <3>1. timeout > 0
      BY <2>5, <1>0, UpdateFwAssumption DEF PollTimesOut, TypeOK
    <3>2. rb.busy # {}
      BY <2>5, <3>1 DEF PollTimesOut, StartInv
    <3> QED
      BY <2>5, <3>2 DEF PollTimesOut
  <2>6. ASSUME pc = "check"
        PROVE  /\ busy = {} /\ rb = Status
               /\ rb.busy = busy /\ rb.verdict = verdict
               /\ RetrySet \in SUBSET todo /\ todo \in SUBSET Apply
               /\ Holds(G, uo, Apply \ RetrySet)
               /\ \A r \in RetrySet : eeprom[r] = Corrupt
               /\ RetrySet = {} => rb = ClearStatus
    BY <1>0, <2>6, CheckTruth
  <2>7. CASE CheckClean
    <3>1. /\ Conclude("OK", notUpdated) /\ erred' = erred
          /\ UNCHANGED fpgaVars /\ pc = "check" /\ rb = ClearStatus
      BY <2>7 DEF CheckClean
    <3>2. RetrySet = {}
      BY <3>1 DEF RetrySet, ClearStatus
    <3>3. Holds(G, uo, Apply)
      BY <2>6, <3>1, <3>2
    <3>4. StartInv(G)'
      BY <2>6, <3>1 DEF Conclude, StartInv, fpgaVars
    <3> QED
      BY <2>0, <3>1, <3>3, <3>4, ConcludeOutcome DEF fpgaVars
  <2>8. CASE CheckExtendedFails
    <3>1. /\ Conclude("OPEN_FIRMWARE", notUpdated) /\ erred' = erred \cup {uo}
          /\ UNCHANGED fpgaVars /\ pc = "check"
      BY <2>8 DEF CheckExtendedFails
    <3>2. StartInv(G)'
      BY <2>6, <3>1 DEF Conclude, StartInv, fpgaVars
    <3> QED
      BY <2>0, <3>1, <3>2, ConcludeOutcome DEF fpgaVars
  <2>9. CASE CheckRetry
    <3>1. /\ pc = "check" /\ rb # ClearStatus /\ erred' = erred
          /\ UNCHANGED fpgaVars
      BY <2>9 DEF CheckRetry
    <3>2. RetrySet # {} /\ StatusCode # "OK"
      BY <2>6, <3>1 DEF StatusCode
    <3>3. CASE attempt + 1 < MaxUpdateRetryCount
      <4>1. /\ todo' = RetrySet /\ pc' = "trigger"
            /\ UNCHANGED <<ops, uo, log, erred, firstErr, eeprom, busy>>
        BY <2>9, <3>3 DEF CheckRetry, fpgaVars
      <4>2. Apply' = Apply /\ Image' = Image
        BY <4>1 DEF Apply, Image
      <4>3. StartInv(G)'
        BY <2>6, <3>1, <4>1, <4>2 DEF StartInv, Holds
      <4> QED
        BY <4>1, <4>3, QuietOutcome
    <3>4. CASE ~(attempt + 1 < MaxUpdateRetryCount)
      <4>1. Conclude(StatusCode, RetrySet)
        BY <2>9, <3>4 DEF CheckRetry
      <4>2. StartInv(G)'
        BY <2>6, <3>1, <4>1 DEF Conclude, StartInv, fpgaVars
      <4>3. RetrySet \in SUBSET Apply
        BY <2>6, <3>1
      <4> QED
        BY <2>0, <2>6, <3>1, <3>2, <4>1, <4>2, <4>3, ConcludeOutcome
        DEF fpgaVars
    <3> QED
      BY <3>3, <3>4
  <2> QED
    BY <1>4, <2>1, <2>2, <2>3, <2>4, <2>5, <2>7, <2>8, <2>9 DEF Start
<1>5. ASSUME Engine PROVE StartInv(G)' /\ OutcomeInv(G)'
  BY <1>5, EngineReports
<1>6. ASSUME UNCHANGED vars PROVE StartInv(G)' /\ OutcomeInv(G)'
  <2>1. /\ UNCHANGED <<pc, ops, uo, todo, attempt, timeout, rb, log, erred>>
        /\ UNCHANGED <<firstErr, ret, busy, verdict, eeprom>>
    BY <1>6 DEF vars, fpgaVars, mainVars, startVars
  <2>2. StartInv(G)'
    BY <2>1 DEF StartInv, Holds, Apply, Image, Status
  <2>3. OutcomeInv(G)'
    BY <2>1 DEF OutcomeInv, TrueReport, Reported, Holds
  <2> QED
    BY <2>2, <2>3
<1> QED
  BY <1>2, <1>3, <1>4, <1>5, <1>6 DEF Next, Main, Exited

ReportInv == adrift = {} => StartInv(Own) /\ OutcomeInv(Own)

(* The only image the DPRAM can describe is that of the operation.          *)
LEMMA OwnImage ==
    ASSUME TypeInv, CopyInv, pc = "poll"
    PROVE  \A img \in Images : DpramHolds(img) => img \in Own[uo]
<1>1. Own[uo] = {Image}
  BY WorkType DEF Working, Own, Image
<1> QED
  BY <1>1 DEF CopyInv, DpramHolds

(* The operations are known once and for all.                               *)
LEMMA OpsFixed ==
    ASSUME [Next]_vars, ~Setup
    PROVE  ops' = ops
BY DEF Next, Main, NextOp, SkipOp, RefuseImage, BeginTransfer, AllDone,
       Copy, CopyPage, WriteSize, ReadSize, WriteCrc, ReadCrc, CopyFails,
       Start, Trigger, TriggerFails, Poll, PollFails, PollTimesOut,
       CheckClean, CheckExtendedFails, CheckRetry, Conclude, Engine, Exited,
       vars, mainVars

THEOREM ReportInvariance == Spec => []ReportInv
<1>1. Init => ReportInv
  <2> SUFFICES ASSUME Init, adrift = {}
               PROVE  StartInv(Own) /\ OutcomeInv(Own)
    BY DEF ReportInv
  <2>1. Len(ops) = 0
    BY EmptySeq DEF Init, UpdateFwInit
  <2>2. busy = {}
    BY DEF Init, UpdateFwInit
  <2> QED
    BY <2>1, <2>2 DEF Init, UpdateFwInit, StartInv, OutcomeInv
<1>2. /\ TypeInv /\ CopyInv /\ LogInv /\ Disjoint /\ ReportInv /\ [Next]_vars
      => ReportInv'
  <2> SUFFICES ASSUME TypeInv, CopyInv, LogInv, Disjoint, ReportInv,
                      [Next]_vars, adrift' = {}
               PROVE  (StartInv(Own) /\ OutcomeInv(Own))'
    BY DEF ReportInv
  <2>1. adrift = {} /\ StartInv(Own) /\ OutcomeInv(Own)
    BY AdriftGrows DEF ReportInv
  <2>2. CASE Setup
    <3>1. busy = {}
      BY <2>1, <2>2 DEF StartInv, Setup, SetupFails, SetupDone, LoadFails,
                        ParseFails, ParseDone
    <3>2. \A G : (StartInv(G) /\ OutcomeInv(G))'
      BY <2>2, <3>1, SetupReports
    <3> QED
      BY <3>2
  <2>3. CASE ~Setup
    <3>1. PICK G : G = Own
      OBVIOUS
    <3>2. Own' = G
      BY <2>3, <3>1, OpsFixed DEF Own
    <3>3. (StartInv(G) /\ OutcomeInv(G))'
      BY <2>1, <2>3, <3>1, OwnImage, ReportStep
    <3> QED
      BY <3>2, <3>3
  <2> QED
    BY <2>2, <2>3
<1> QED
  BY <1>1, <1>2, TypeInvariance, CopyInvariance, LogInvariance,
     CodeInvariance, PTL DEF Spec

(* While no retimer is adrift, UpdateSuccessful and ApplyFailed are true of *)
(* the EEPROMs, for every operation that had no transport error.            *)
THEOREM ReportsTrue == Spec => []ReportsAreReal
<1>1. TypeInv /\ LogInv /\ ReportInv => ReportsAreReal
  <2> SUFFICES ASSUME TypeInv, LogInv, ReportInv, adrift = {},
                      NEW o \in DOMAIN ops \ erred, NEW r \in Retimers
               PROVE  /\ Reported(o, "UpdateSuccessful", r) =>
                            eeprom[r] = ops[o].img
                      /\ Reported(o, "ApplyFailed", r) =>
                            eeprom[r] # ops[o].img
    BY DEF ReportsAreReal
  <2>1. o \in 1..Len(ops) /\ uo \in Nat
    BY OpType DEF TypeInv, TypeOK
  <2>2. CASE o < uo
    <3>1. TrueReport(Own, o) /\ Own[o] = {ops[o].img}
      BY <2>1, <2>2 DEF ReportInv, OutcomeInv, Own
    <3>2. ops[o].img # Corrupt
      BY <2>1, OpType, FpgaAssumption DEF TypeInv
    <3> QED
      BY <3>1, <3>2 DEF TrueReport
  <2>3. CASE ~(o < uo)
    BY <2>1, <2>3 DEF LogInv
  <2> QED
    BY <2>2, <2>3
<1> QED
  BY <1>1, TypeInvariance, LogInvariance, ReportInvariance, PTL

(* The failure of the image file is reported of every retimer of the        *)
(* command line, and ends the session; else no such thing is reported.      *)
ImageInv == (pc = "exit" /\ ImageFailureReported) \/ NoImageFailure

LEMMA ImageStep ==
    ASSUME TypeInv, ImageInv, [Next]_vars
    PROVE  ImageInv'
<1>1. ASSUME Setup PROVE ImageInv'
  <2>1. CASE LoadFails \/ ParseFails
    <3>1. PICK msg \in {"VerificationFailed", "TransferFailed"} :
             log' = log \cup Logged(0, msg, target)
      BY <2>1 DEF LoadFails, ParseFails
    <3>2. target' = target /\ pc' = "exit"
      BY <2>1 DEF LoadFails, ParseFails
    <3>3. \A r \in target : Reported(0, msg, r)'
      BY <3>1, LoggedHas DEF Reported
    <3> QED
      BY <3>1, <3>2, <3>3 DEF ImageInv, ImageFailureReported
  <2>2. CASE SetupFails \/ SetupDone \/ ParseDone
    <3>1. log = {} /\ log' = log
      BY <2>2 DEF SetupFails, SetupDone, ParseDone, TypeInv, SetupInv
    <3> QED
      BY <3>1 DEF ImageInv, NoImageFailure
  <2> QED
    BY <1>1, <2>1, <2>2 DEF Setup
<1>2. ASSUME NextOp \/ Copy \/ Start PROVE ImageInv'
  <2>1. NoImageFailure
    BY <1>2 DEF NextOp, SkipOp, RefuseImage, BeginTransfer, AllDone, Copy,
       CopyPage, WriteSize, ReadSize, WriteCrc, ReadCrc, CopyFails, Start,
       Trigger, TriggerFails, Poll, PollFails, PollTimesOut, CheckClean,
       CheckExtendedFails, CheckRetry, ImageInv
  <2>2. uo # 0
    BY DEF TypeInv, TypeOK
  <2>3. \A m, S : \A e \in Logged(uo, m, S) : e.op # 0
    BY <2>2 DEF Logged
  <2>4. CASE \E code, N : Conclude(code, N)
    BY <2>1, <2>3, <2>4 DEF Conclude, ImageInv, NoImageFailure
  <2>5. CASE ~\E code, N : Conclude(code, N)
    <3>1. CASE NextOp \/ Copy
      BY <2>1, <2>3, <3>1 DEF NextOp, SkipOp, RefuseImage, BeginTransfer,
         AllDone, Copy, CopyPage, WriteSize, ReadSize, WriteCrc, ReadCrc,
         CopyFails, ImageInv, NoImageFailure
    <3>2. CASE Start
      <4>1. log' = log
        BY <2>5, <3>2 DEF Start, Trigger, TriggerFails, Poll, PollFails,
           PollTimesOut, CheckClean, CheckExtendedFails, CheckRetry
      <4> QED
        BY <2>1, <4>1 DEF ImageInv, NoImageFailure
    <3> QED
      BY <1>2, <3>1, <3>2
  <2> QED
    BY <2>4, <2>5
<1>3. ASSUME Engine \/ UNCHANGED vars PROVE ImageInv'
  BY <1>3 DEF Engine, mainVars, vars, ImageInv, ImageFailureReported,
              NoImageFailure, Reported
<1> QED
  BY <1>1, <1>2, <1>3 DEF Next, Main, Exited

THEOREM ImageInvariance == Spec => []ImageInv
<1>1. Init => ImageInv
  BY DEF Init, UpdateFwInit, ImageInv, NoImageFailure
<1>2. TypeInv /\ ImageInv /\ [Next]_vars => ImageInv'
  BY ImageStep
<1> QED
  BY <1>1, <1>2, TypeInvariance, PTL DEF Spec

(* Exit status 0 of a session that left nothing adrift: either the journal  *)
(* tells every retimer of the command line that the image failed, or it     *)
(* tells none, and every retimer both in the image and on the command line  *)
(* holds its image.                                                         *)
THEOREM ExitZero == Spec => []ExitZeroMeansUpdated
<1>1. TypeInv /\ LogInv /\ CodeInv /\ ReportInv /\ ImageInv
      => ExitZeroMeansUpdated
  <2> SUFFICES ASSUME TypeInv, LogInv, CodeInv, ReportInv,
                      pc = "exit", adrift = {}, ExitStatus(ret) = 0,
                      NEW o \in DOMAIN ops
               PROVE  \A r \in ops[o].apply : eeprom[r] = ops[o].img
    BY DEF ExitZeroMeansUpdated, ImageInv
  <2>1. o \in 1..Len(ops) /\ uo \in Nat /\ Len(ops) \in Nat
    BY OpType DEF TypeInv, TypeOK
  <2>2. o < uo
    BY <2>1 DEF LogInv
  <2>3. ops # <<>>
    BY <2>1, EmptySeq
  <2>4. ret = "OK"
    <3>1. ret \in LoopCodes
      BY <2>3 DEF CodeInv
    <3>2. \A c \in LoopCodes \ {"OK"} : ExitStatus(c) # 0
      BY DEF LoopCodes, ExitStatus, Code
    <3> QED
      BY <3>1, <3>2
  <2>5. Holds(Own, o, ops[o].apply)
    BY <2>1, <2>2, <2>4 DEF ReportInv, OutcomeInv
  <2> QED
    BY <2>1, <2>5 DEF Holds, Own
<1> QED
  BY <1>1, TypeInvariance, LogInvariance, CodeInvariance, ReportInvariance,
     ImageInvariance, PTL

(* A retry neither programs nor loses a retimer that holds the image.       *)
THEOREM RetrySpares == Spec => RetrySparesGood
<1>1. TypeInv /\ CopyInv /\ ReportInv /\ [Next]_vars =>
         [attempt > 0 /\ adrift = {} /\ pc \in {"trigger", "poll"} =>
             \A r \in Retimers :
                 eeprom[r] = Image => eeprom'[r] = Image /\ r \notin busy']_vars
  <2> SUFFICES ASSUME TypeInv, CopyInv, ReportInv, Next, attempt > 0,
                      adrift = {}, pc \in {"trigger", "poll"},
                      NEW r \in Retimers, eeprom[r] = Image
               PROVE  eeprom'[r] = Image /\ r \notin busy'
    OBVIOUS
  <2>0. TypeOK /\ StartInv(Own)
    BY DEF TypeInv, ReportInv
  <2>c. eeprom[r] # Corrupt
    BY WorkType, FpgaAssumption DEF Working
  <2>1. r \notin busy
    BY <2>0, <2>c DEF StartInv
  <2>2. CASE Main
    <3>1. CASE Trigger \/ TriggerFails
      <4>1. pc = "trigger" /\ busy = {} /\ r \notin todo
        BY <2>0, <2>c, <3>1 DEF Trigger, TriggerFails, StartInv
      <4>2. UNCHANGED progVars \/ TriggerUpdate(todo)
        BY <3>1 DEF Trigger, TriggerFails, progVars
      <4> QED
        BY <2>0, <2>1, <4>1, <4>2, IdleTrigger DEF progVars
    <3>2. CASE ~(Trigger \/ TriggerFails)
      <4>1. UNCHANGED <<eeprom, busy>>
        BY <2>2, <3>2 DEF Main, Setup, SetupFails, SetupDone, LoadFails,
           ParseFails, ParseDone, NextOp, SkipOp, RefuseImage, BeginTransfer,
           AllDone, Copy, CopyPage, WriteSize, ReadSize, WriteCrc, ReadCrc,
           CopyFails, Start, Poll, PollFails, PollTimesOut, CheckClean,
           CheckExtendedFails, CheckRetry, fpgaVars, progVars
      <4> QED
        BY <2>1, <4>1
    <3> QED
      BY <3>1, <3>2
  <2>3. CASE Engine
    <3>1. PICK q \in Retimers : EngineProgrammed(q) \/ EngineFailed(q)
      BY <2>3 DEF Engine, EngineStep
    <3> QED
      BY <2>0, <2>1, <3>1 DEF EngineProgrammed, EngineFailed, TypeOK, FpgaTypeOK
  <2>4. CASE Exited
    BY <2>1, <2>4 DEF Exited, vars, fpgaVars
  <2> QED
    BY <2>2, <2>3, <2>4 DEF Next
<1> QED
  BY <1>1, TypeInvariance, CopyInvariance, ReportInvariance, PTL
  DEF Spec, RetrySparesGood

-------------------------------------------------------------------------------
(* UpdateFw implements UpdateSession: with the invariants above, and with   *)
(* what is known of the retimers the engine may touch, every step is one of *)
(* the abstract session or a stutter.                                       *)

(* The retimers the session has had to do with: those adrift, those of the  *)
(* operations up to the one under way, and those of the stale error bits.   *)
SoFar ==
    adrift \cup stale \cup
        {r \in Retimers : \E o \in 1..Len(ops) : o <= uo /\ r \in ops[o].apply}

(* What the engine programs is watched or adrift, and whatever may be       *)
(* programmed again belongs to an operation begun or is adrift.             *)
StrayInv ==
    /\ pc # "poll" => busy \in SUBSET adrift
    /\ busy \in SUBSET (adrift \cup todo)
    /\ pc = "poll" /\ timeout > 0 => busy \in SUBSET rb.busy
    /\ todo \in SUBSET SoFar
    /\ Flagged(rb.verdict) \in SUBSET SoFar
    /\ (busy # {} \/ pc \in {"poll", "check"}) =>
          Flagged(verdict) \in SUBSET SoFar

LEMMA SoFarGrows ==
    ASSUME TypeInv, [Next]_vars
    PROVE  SoFar \in SUBSET SoFar'
  <1>1. uo \in Nat /\ (ops = <<>> => Len(ops) = 0)
    BY EmptySeq DEF TypeInv, TypeOK
  <1>2. uo' \in {uo, uo + 1} /\ (ops' = ops \/ ops = <<>>)
    BY DEF Next, Main, Setup, SetupFails, SetupDone, LoadFails, ParseFails,
           ParseDone, NextOp, SkipOp, RefuseImage, BeginTransfer, AllDone,
           Copy, CopyPage, WriteSize, ReadSize, WriteCrc, ReadCrc, CopyFails,
           Start, Trigger, TriggerFails, Poll, PollFails, PollTimesOut,
           CheckClean, CheckExtendedFails, CheckRetry, Conclude, Engine,
           Exited, vars, mainVars, TypeInv, SetupInv
  <1>3. adrift \in SUBSET adrift' /\ stale' = stale
    BY AdriftGrows, StaleFixed
  <1> QED
    BY <1>1, <1>2, <1>3 DEF SoFar

(* A trigger that is taken wipes the failures of everybody.                 *)
LEMMA TriggerStray ==
    ASSUME TypeOK, StrayInv, pc # "poll", TriggerUpdate(todo)
    PROVE  /\ busy' \in SUBSET (adrift \cup todo)
           /\ Flagged(verdict') \in SUBSET SoFar
           /\ \A r \in Retimers \ adrift : eeprom'[r] = eeprom[r]
           /\ DOMAIN eeprom' = Retimers
  <1>1. CASE AcceptTrigger(todo)
    BY <1>1 DEF AcceptTrigger, Flagged, StrayInv
  <1>2. CASE IgnoreTrigger
    BY <1>2 DEF IgnoreTrigger, progVars, StrayInv, TypeOK, FpgaTypeOK
  <1> QED
    BY <1>1, <1>2 DEF TriggerUpdate

LEMMA EngineStray ==
    ASSUME TypeOK, StrayInv, EngineStep
    PROVE  /\ busy' \in SUBSET busy
           /\ Flagged(verdict') \in SUBSET SoFar
           /\ \A r \in Retimers \ busy : eeprom'[r] = eeprom[r]
           /\ DOMAIN eeprom' = Retimers
  <1>1. PICK r \in Retimers : EngineProgrammed(r) \/ EngineFailed(r)
    BY DEF EngineStep
  <1>2. /\ r \in busy /\ busy' = busy \ {r}
        /\ \A q \in Retimers \ {r} : eeprom'[q] = eeprom[q]
        /\ \A q \in Retimers \ {r} : verdict'[q] = verdict[q]
        /\ DOMAIN eeprom' = Retimers
    BY <1>1 DEF EngineProgrammed, EngineFailed, TypeOK, FpgaTypeOK
  <1>3. r \in SoFar /\ Flagged(verdict) \in SUBSET SoFar
    BY <1>2 DEF StrayInv, SoFar
  <1> QED
    BY <1>2, <1>3 DEF Flagged

THEOREM StrayInvariance == Spec => []StrayInv
<1>1. Init => StrayInv
  <2> SUFFICES ASSUME Init PROVE StrayInv
    OBVIOUS
  <2>1. /\ busy \in SUBSET adrift
        /\ busy # {} => Flagged(verdict) \in SUBSET stale
    BY DEF Init, UpdateFwInit, StaleBits, Flagged
  <2> QED
    BY <2>1, ClearFlags DEF Init, UpdateFwInit, StrayInv, SoFar
<1>2. TypeInv /\ StrayInv /\ [Next]_vars => StrayInv'
  <2> SUFFICES ASSUME TypeInv, StrayInv, [Next]_vars PROVE StrayInv'
    OBVIOUS
  <2>0. TypeOK /\ SoFar \in SUBSET SoFar' /\ adrift \in SUBSET adrift'
    BY SoFarGrows, AdriftGrows DEF TypeInv
  <2>1. CASE Setup \/ NextOp
    <3>1. /\ UNCHANGED <<busy, verdict, todo, rb>>
          /\ pc' \notin {"poll", "check"} /\ pc # "poll"
      BY <2>1 DEF Setup, SetupFails, SetupDone, LoadFails, ParseFails,
         ParseDone, NextOp, SkipOp, RefuseImage, BeginTransfer, AllDone,
         fpgaVars, startVars
    <3> QED
      BY <2>0, <3>1 DEF StrayInv
  <2>2. CASE Copy
    <3>1. /\ UNCHANGED <<busy, verdict, rb>>
          /\ pc' \notin {"poll", "check"} /\ pc # "poll"
      BY <2>2 DEF Copy, CopyPage, WriteSize, ReadSize, WriteCrc, ReadCrc,
                  CopyFails, fpgaVars, progVars, startVars
    <3>2. todo' \in SUBSET SoFar'
      <4>1. CASE ReadCrc
        <5>1. Apply \in SUBSET SoFar
          BY <4>1, WorkType, OpType, <2>0
          DEF ReadCrc, Working, Apply, SoFar, TypeOK
        <5> QED
          BY <2>0, <4>1, <5>1 DEF ReadCrc
      <4>2. CASE ~ReadCrc
        BY <2>0, <2>2, <4>2 DEF Copy, CopyPage, WriteSize, ReadSize, WriteCrc,
                                CopyFails, startVars, StrayInv
      <4> QED
        BY <4>1, <4>2
    <3> QED
      BY <2>0, <3>1, <3>2 DEF StrayInv
  <2>3. CASE Start
    <3>1. CASE Trigger
      <4>1. /\ busy' \in SUBSET (adrift \cup todo)
            /\ Flagged(verdict') \in SUBSET SoFar
        BY <2>0, <3>1, TriggerStray DEF Trigger
      <4>2. /\ pc' = "poll" /\ timeout' = 0 /\ rb' = ClearStatus
            /\ todo' = todo /\ adrift' = adrift
        BY <3>1 DEF Trigger
      <4> QED
        BY <2>0, <4>1, <4>2, ClearFlags DEF StrayInv
    <3>2. CASE TriggerFails
      <4>1. /\ todo' = {} /\ rb' = ClearStatus /\ pc' = "next_op"
            /\ pc # "poll"
        BY <3>2 DEF TriggerFails, Conclude
      <4>2. CASE UNCHANGED <<progVars, adrift>>
        BY <2>0, <4>1, <4>2, ClearFlags DEF StrayInv, progVars
      <4>3. CASE TriggerUpdate(todo) /\ adrift' = adrift \cup todo
        <5>1. /\ busy' \in SUBSET (adrift \cup todo)
              /\ Flagged(verdict') \in SUBSET SoFar
          BY <2>0, <4>1, <4>3, TriggerStray
        <5> QED
          BY <2>0, <4>1, <4>3, <5>1, ClearFlags DEF StrayInv
      <4> QED
        BY <3>2, <4>2, <4>3 DEF TriggerFails
    <3>3. CASE Poll
      <4>1. /\ rb'.busy = busy /\ Flagged(rb'.verdict) = Flagged(verdict)
            /\ UNCHANGED <<busy, verdict, todo, adrift>>
            /\ pc = "poll" /\ pc' = IF busy = {} THEN "check" ELSE "poll"
        BY <3>3 DEF Poll, Status, Flagged, fpgaVars
      <4> QED
        BY <2>0, <4>1 DEF StrayInv
    <3>4. CASE PollFails \/ CheckClean \/ CheckExtendedFails
      <4>1. /\ todo' = {} /\ rb' = ClearStatus /\ pc' = "next_op"
            /\ UNCHANGED <<busy, verdict>>
            /\ busy \in SUBSET adrift'
        BY <2>0, <3>4 DEF PollFails, CheckClean, CheckExtendedFails, Conclude,
                          fpgaVars, StrayInv
      <4> QED
        BY <2>0, <4>1, ClearFlags DEF StrayInv
    <3>5. CASE PollTimesOut
      <4>1. timeout > 0
        BY <2>0, <3>5, UpdateFwAssumption DEF PollTimesOut, TypeOK
      <4>2. busy \in SUBSET rb.busy
        BY <3>5, <4>1 DEF PollTimesOut, StrayInv
      <4>3. /\ UNCHANGED <<busy, verdict, todo, rb>>
            /\ adrift' = adrift \cup rb.busy /\ pc = "poll" /\ pc' = "check"
        BY <3>5 DEF PollTimesOut, fpgaVars, startVars
      <4> QED
        BY <2>0, <4>2, <4>3 DEF StrayInv
    <3>6. CASE CheckRetry
      <4>1. RetrySet = Flagged(rb.verdict)
        BY DEF RetrySet, Flagged
      <4>2. /\ UNCHANGED <<busy, verdict, adrift>> /\ pc = "check"
            /\ \/ todo' = RetrySet /\ rb' = rb /\ pc' = "trigger"
               \/ todo' = {} /\ rb' = ClearStatus /\ pc' = "next_op"
        BY <3>6 DEF CheckRetry, Conclude, fpgaVars
      <4> QED
        BY <2>0, <4>1, <4>2, ClearFlags DEF StrayInv
    <3> QED
      BY <2>3, <3>1, <3>2, <3>3, <3>4, <3>5, <3>6 DEF Start
  <2>4. CASE Engine
    <3>1. busy' \in SUBSET busy /\ Flagged(verdict') \in SUBSET SoFar
      BY <2>0, <2>4, EngineStray DEF Engine
    <3>2. UNCHANGED <<pc, todo, timeout, rb, adrift>>
      BY <2>4 DEF Engine, mainVars, startVars
    <3> QED
      BY <2>0, <3>1, <3>2 DEF StrayInv
  <2>5. CASE UNCHANGED vars
    <3>1. UNCHANGED <<pc, todo, timeout, rb, adrift, busy, verdict>>
      BY <2>5 DEF vars, fpgaVars, mainVars, startVars
    <3> QED
      BY <2>0, <3>1 DEF StrayInv
  <2> QED
    BY <2>1, <2>2, <2>3, <2>4, <2>5 DEF Next, Main, Exited
<1> QED
  BY <1>1, <1>2, TypeInvariance, PTL DEF Spec

-------------------------------------------------------------------------------
(* The exit status and the failures in the journal.                         *)

Failed(o, r) == Reported(o, "ApplyFailed", r) \/ Reported(o, "TransferFailed", r)

(* updateFirstErrRet is an error if and, as long as no transport error and  *)
(* no stray retimer blurs the picture, only if some operation failed some   *)
(* retimer of its own.                                                      *)
FailInv ==
    /\ firstErr = "OK" => \A o \in 1..Len(ops) : \A r : ~Failed(o, r)
    /\ firstErr # "OK" /\ erred = {} /\ adrift = {} =>
          \E o \in 1..Len(ops) : o < uo /\ \E r \in ops[o].apply : Failed(o, r)
    /\ pc = "next_op" /\ ret # "OK" => firstErr # "OK"

(* A step that ends operation uo with an error, and fails a retimer of it.  *)
LEMMA FailedOpFailInv ==
    ASSUME uo \in 1..Len(ops), Len(ops) \in Nat, ops' = ops, uo' = uo + 1,
           firstErr' # "OK",
           erred' = {} /\ adrift' = {} =>
              \A o : o = uo => \E r \in Apply : Failed(o, r)'
    PROVE  FailInv'
  BY DEF FailInv, Apply

(* A step that logs no failure.                                             *)
LEMMA QuietFailInv ==
    ASSUME FailInv, uo \in Nat, uo' \in Nat, uo <= uo',
           UNCHANGED <<ops, firstErr>>,
           erred' = {} /\ adrift' = {} => erred = {} /\ adrift = {},
           \A o, r : Failed(o, r)' <=> Failed(o, r),
           pc' = "next_op" /\ ret' # "OK" => firstErr # "OK"
    PROVE  FailInv'
  BY DEF FailInv

(* When the answer is judged, the bitmap of the failed retimers is the      *)
(* truth about the operation, if nothing is adrift.                         *)
LEMMA OwnTruth ==
    ASSUME TypeInv, ReportInv, adrift = {}, pc = "check"
    PROVE  /\ RetrySet \in SUBSET Apply
           /\ \A r \in Apply \ RetrySet : eeprom[r] = Image
           /\ \A r \in RetrySet : eeprom[r] # Image
           /\ RetrySet = {} => rb = ClearStatus
<1>1. Own[uo] = {Image} /\ Image # Corrupt
  BY WorkType, FpgaAssumption DEF Working, Own, Image
<1>2. TypeOK /\ StartInv(Own)
  BY DEF TypeInv, ReportInv
<1>3. PICK G : G = Own
  OBVIOUS
<1>4. /\ RetrySet \in SUBSET todo /\ todo \in SUBSET Apply
      /\ Holds(G, uo, Apply \ RetrySet)
      /\ \A r \in RetrySet : eeprom[r] = Corrupt
      /\ RetrySet = {} => rb = ClearStatus
  BY <1>2, <1>3, CheckTruth
<1> QED
  BY <1>1, <1>3, <1>4 DEF Holds

THEOREM FailInvariance == Spec => []FailInv
<1>1. Init => FailInv
  <2> SUFFICES ASSUME Init PROVE FailInv
    OBVIOUS
  <2>1. Len(ops) = 0 /\ pc = "setup" /\ firstErr = "OK"
    BY EmptySeq DEF Init, UpdateFwInit
  <2> QED
    BY <2>1 DEF FailInv
<1>2. TypeInv /\ CodeInv /\ ReportInv /\ FailInv /\ [Next]_vars => FailInv'
  <2> SUFFICES ASSUME TypeInv, CodeInv, ReportInv, FailInv, [Next]_vars
               PROVE  FailInv'
    OBVIOUS
  <2>0. /\ TypeOK /\ uo \in Nat \ {0} /\ Len(ops) \in Nat
        /\ adrift \in SUBSET adrift'
    BY OpType, AdriftGrows DEF TypeInv, TypeOK
  <2>1. CASE Setup
    <3>1. /\ firstErr' = "OK"
          /\ pc' = "next_op" => ret' = "OK"
          /\ \/ pc' = "next_op" /\ log' = {}
             \/ Len(ops') = 0
      BY <2>1, EmptySeq DEF Setup, SetupFails, SetupDone, LoadFails,
         ParseFails, ParseDone, TypeInv, SetupInv
    <3> QED
      BY <3>1 DEF FailInv, Failed, Reported
  <2>2. CASE NextOp
    <3>1. CASE SkipOp \/ AllDone
      <4>1. /\ UNCHANGED <<ops, firstErr, erred, adrift, log>>
            /\ uo' \in {uo, uo + 1}
            /\ pc' = "next_op" => pc = "next_op" /\ ret' = ret
        BY <3>1 DEF SkipOp, AllDone
      <4>2. \A o, r : Failed(o, r)' <=> Failed(o, r)
        BY <4>1 DEF Failed, Reported
      <4>3. pc' = "next_op" /\ ret' # "OK" => firstErr # "OK"
        BY <4>1 DEF FailInv
      <4> QED
        BY <2>0, <4>1, <4>2, <4>3, QuietFailInv
    <3>2. CASE RefuseImage
      <4>1. /\ uo \in 1..Len(ops) /\ uo' = uo + 1 /\ ops' = ops
            /\ firstErr' # "OK" /\ Apply # {}
        BY <2>0, <3>2 DEF RefuseImage
      <4>2. \A o : o = uo => \A r \in Apply : Failed(o, r)'
        BY <3>2, LoggedHas DEF RefuseImage, Failed, Reported
      <4> QED
        BY <2>0, <4>1, <4>2, FailedOpFailInv
    <3>3. CASE BeginTransfer
      <4>1. /\ UNCHANGED <<ops, firstErr, erred, adrift, uo>> /\ pc' # "next_op"
        BY <3>3 DEF BeginTransfer
      <4>2. \A o, r : Failed(o, r)' <=> Failed(o, r)
        BY <3>3, LoggedHas DEF BeginTransfer, Failed, Reported
      <4> QED
        BY <2>0, <4>1, <4>2, QuietFailInv
    <3> QED
      BY <2>2, <3>1, <3>2, <3>3 DEF NextOp
  <2>3. CASE Copy
    <3>1. CASE CopyFails
      <4>1. /\ uo \in 1..Len(ops) /\ uo' = uo + 1 /\ ops' = ops
            /\ firstErr' # "OK" /\ Apply # {}
        BY <2>0, <3>1 DEF CopyFails, TypeInv, WorkInv, Working
      <4>2. \A o : o = uo => \A r \in Apply : Failed(o, r)'
        BY <3>1, LoggedHas DEF CopyFails, Failed, Reported
      <4> QED
        BY <2>0, <4>1, <4>2, FailedOpFailInv
    <3>2. CASE ~CopyFails
      <4>1. /\ UNCHANGED <<ops, firstErr, erred, adrift, uo, log>>
            /\ pc' # "next_op"
        BY <2>3, <3>2 DEF Copy, CopyPage, WriteSize, ReadSize, WriteCrc, ReadCrc
      <4>2. \A o, r : Failed(o, r)' <=> Failed(o, r)
        BY <4>1 DEF Failed, Reported
      <4> QED
        BY <2>0, <4>1, <4>2, QuietFailInv
    <3> QED
      BY <3>1, <3>2
  <2>4. CASE Start
    <3>0. uo \in 1..Len(ops)
      BY <2>0, <2>4 DEF TypeInv, WorkInv, Working, Start, Trigger,
         TriggerFails, Poll, PollFails, PollTimesOut, CheckClean,
         CheckExtendedFails, CheckRetry
    <3>1. CASE Trigger \/ Poll \/ PollTimesOut
      <4>1. /\ UNCHANGED <<ops, firstErr, erred, uo, log>> /\ pc' # "next_op"
        BY <3>1 DEF Trigger, Poll, PollTimesOut
      <4>2. \A o, r : Failed(o, r)' <=> Failed(o, r)
        BY <4>1 DEF Failed, Reported
      <4> QED
        BY <2>0, <4>1, <4>2, QuietFailInv
    <3>2. CASE TriggerFails \/ PollFails \/ CheckExtendedFails
      <4>1. /\ uo' = uo + 1 /\ ops' = ops /\ firstErr' # "OK" /\ erred' # {}
        BY <3>2 DEF TriggerFails, PollFails, CheckExtendedFails, Conclude
      <4> QED
        BY <2>0, <3>0, <4>1, FailedOpFailInv
    <3>3. ASSUME NEW N, Conclude("OK", N), UNCHANGED <<adrift, erred>>
          PROVE  FailInv'
      <4>1. UNCHANGED <<ops, firstErr>> /\ uo' = uo + 1 /\ ret' = "OK"
        BY <3>3 DEF Conclude
      <4>2. \A o, r : Failed(o, r)' <=> Failed(o, r)
        BY <3>3, ConcludeLogs DEF ConcludedAs, Failed
      <4> QED
        BY <2>0, <3>3, <4>1, <4>2, QuietFailInv
    <3>4. CASE CheckClean
      BY <3>3, <3>4 DEF CheckClean
    <3>5. CASE CheckRetry
      <4>1. CASE attempt + 1 < MaxUpdateRetryCount
        <5>1. /\ UNCHANGED <<ops, firstErr, erred, adrift, uo, log>>
              /\ pc' # "next_op"
          BY <3>5, <4>1 DEF CheckRetry
        <5>2. \A o, r : Failed(o, r)' <=> Failed(o, r)
          BY <5>1 DEF Failed, Reported
        <5> QED
          BY <2>0, <5>1, <5>2, QuietFailInv
      <4>2. CASE ~(attempt + 1 < MaxUpdateRetryCount)
        <5>1. Conclude(StatusCode, RetrySet) /\ UNCHANGED <<adrift, erred>>
          BY <3>5, <4>2 DEF CheckRetry
        <5>2. CASE StatusCode = "OK"
          BY <3>3, <5>1, <5>2
        <5>3. CASE StatusCode # "OK"
          <6>1. uo' = uo + 1 /\ ops' = ops /\ firstErr' # "OK"
            BY <5>1, <5>3 DEF Conclude
          <6>2. RetrySet # {}
            BY <5>3 DEF StatusCode
          <6>3. \A o : o = uo => \A r \in RetrySet : Failed(o, r)'
            BY <5>1, <5>3, ConcludeLogs DEF ConcludedAs, Failed
          <6>4. adrift = {} => RetrySet \in SUBSET Apply
            BY <3>5, OwnTruth DEF CheckRetry
          <6> QED
            BY <2>0, <3>0, <5>1, <6>1, <6>2, <6>3, <6>4, FailedOpFailInv
        <5> QED
          BY <5>2, <5>3
      <4> QED
        BY <4>1, <4>2
    <3> QED
      BY <2>4, <3>1, <3>2, <3>4, <3>5 DEF Start
  <2>5. CASE Engine \/ UNCHANGED vars
    <3>1. UNCHANGED <<pc, ops, uo, firstErr, ret, erred, adrift, log>>
      BY <2>5 DEF Engine, mainVars, vars
    <3>2. \A o, r : Failed(o, r)' <=> Failed(o, r)
      BY <3>1 DEF Failed, Reported
    <3> QED
      BY <2>0, <3>1, <3>2, QuietFailInv DEF FailInv
  <2> QED
    BY <2>1, <2>2, <2>3, <2>4, <2>5 DEF Next, Main, Exited
<1> QED
  BY <1>1, <1>2, TypeInvariance, CodeInvariance, ReportInvariance, PTL DEF Spec

-------------------------------------------------------------------------------
(* The outcome of an operation, as UpdateSession sees it.                   *)

ReportedIn(L, o, m, r) == [op |-> o, msg |-> m, rt |-> r] \in L

(* A journal with one conclusion about a retimer has that one.              *)
LEMMA OneConclusion ==
    ASSUME NEW L, NEW o, NEW r, NEW m \in Conclusions, ReportedIn(L, o, m, r),
           \A n \in Conclusions \ {m} : ~ReportedIn(L, o, n, r)
    PROVE  (CHOOSE n \in Conclusions : ReportedIn(L, o, n, r)) = m
  OBVIOUS

LEMMA ConcludedIs ==
    ASSUME NEW o, NEW r, NEW m \in Conclusions
    PROVE  /\ (/\ Reported(o, m, r)
               /\ \A n \in Conclusions \ {m} : ~Reported(o, n, r))
              => Conclusion(o, r) = m
           /\ (/\ Reported(o, m, r)'
               /\ \A n \in Conclusions \ {m} : ~Reported(o, n, r)')
              => Conclusion(o, r)' = m
  <1>1. /\ \A n : Reported(o, n, r) <=> ReportedIn(log, o, n, r)
        /\ \A n : Reported(o, n, r)' <=> ReportedIn(log', o, n, r)
    BY DEF Reported, ReportedIn
  <1>2. /\ Conclusion(o, r) = CHOOSE n \in Conclusions : ReportedIn(log, o, n, r)
        /\ Conclusion(o, r)' = CHOOSE n \in Conclusions : ReportedIn(log', o, n, r)
    BY DEF Conclusion, Reported, ReportedIn
  <1> QED
    BY <1>1, <1>2, OneConclusion

LEMMA OutcomeLen ==
    ASSUME TypeInv
    PROVE  /\ \E S : outcome \in Seq(S)
           /\ Len(outcome) = uo - 1
           /\ DOMAIN outcome = 1..(uo - 1)
           /\ \A o \in 1..(uo - 1) :
                 outcome[o] = [r \in ops[o].apply |-> Conclusion(o, r)]
  <1>1. uo - 1 \in Nat
    BY OpType DEF TypeInv, TypeOK
  <1> DEFINE S == {[r \in ops[o].apply |-> Conclusion(o, r)] : o \in 1..(uo - 1)}
  <1>2. outcome \in [1..(uo - 1) -> S]
    BY DEF outcome
  <1>3. outcome \in Seq(S)
    BY <1>1, <1>2, SeqDef
  <1>4. Len(outcome) = uo - 1
    BY <1>1, <1>2, <1>3, LenProperties
  <1> QED
    BY <1>3, <1>4 DEF outcome

(* The operation under way is the same on both levels.                      *)
LEMMA SameOp ==
    ASSUME TypeInv
    PROVE  Session!uo = uo /\ Session!Apply = Apply /\ Session!Image = Image
  <1>1. Session!uo = uo
    BY OutcomeLen DEF Session!uo, TypeInv, TypeOK
  <1> QED
    BY <1>1 DEF Session!Apply, Session!Image, Apply, Image

(* What is reported of the operations that are over is not revised.         *)
LEMMA SameConclusions ==
    ASSUME TypeInv, LogInv, ops' = ops,
           \A o \in 1..(uo - 1) : \A m \in Conclusions : \A r :
              Reported(o, m, r)' <=> Reported(o, m, r),
           NEW o \in 1..(uo - 1), NEW r \in ops[o].apply
    PROVE  Conclusion(o, r)' = Conclusion(o, r)
  <1>1. o \in 1..Len(ops) /\ o < uo
    BY OpType DEF TypeInv, TypeOK
  <1>2. PICK m \in Conclusions :
           Reported(o, m, r) /\ \A n \in Conclusions \ {m} : ~Reported(o, n, r)
    BY <1>1 DEF LogInv, ConcludedOp
  <1> QED
    BY <1>2, ConcludedIs

LEMMA SameOutcome ==
    ASSUME TypeInv, LogInv, UNCHANGED <<ops, uo>>,
           \A o \in 1..(uo - 1) : \A m \in Conclusions : \A r :
              Reported(o, m, r)' <=> Reported(o, m, r)
    PROVE  outcome' = outcome
  <1>1. \A o \in 1..(uo - 1) : \A r \in ops[o].apply :
           Conclusion(o, r)' = Conclusion(o, r)
    BY SameConclusions
  <1>2. outcome' = [o \in 1..(uo - 1) |->
                      [r \in ops[o].apply |-> Conclusion(o, r)']]
    BY DEF outcome
  <1> QED
    BY <1>1, <1>2 DEF outcome

(* The operation under way gets result as its outcome.                      *)
LEMMA NextOutcome ==
    ASSUME TypeInv, LogInv, uo <= Len(ops), ops' = ops, uo' = uo + 1,
           \A o \in 1..(uo - 1) : \A m \in Conclusions : \A r :
              Reported(o, m, r)' <=> Reported(o, m, r),
           NEW result \in [Apply -> Conclusions],
           \A o : o = uo => \A r \in Apply :
              /\ Reported(o, result[r], r)'
              /\ \A n \in Conclusions \ {result[r]} : ~Reported(o, n, r)'
    PROVE  outcome' = Append(outcome, result)
  <1>0. uo \in Nat /\ uo - 1 \in Nat /\ uo' - 1 = uo
    BY OpType DEF TypeInv, TypeOK
  <1>1. \A o \in 1..(uo - 1) : \A r \in ops[o].apply :
           Conclusion(o, r)' = Conclusion(o, r)
    BY SameConclusions
  <1>2. \A o : o = uo => \A r \in Apply : Conclusion(o, r)' = result[r]
    BY ConcludedIs
  <1>3. outcome' = [o \in 1..uo |->
                      [r \in ops[o].apply |-> Conclusion(o, r)']]
    BY <1>0 DEF outcome
  <1>4. outcome'[uo] = result
    <2>1. outcome'[uo] = [r \in Apply |-> result[r]]
      BY <1>0, <1>2, <1>3 DEF Apply
    <2> QED
      BY <2>1
  <1>5. \A o \in 1..(uo - 1) : outcome'[o] = outcome[o]
    BY <1>0, <1>1, <1>3 DEF outcome
  <1>6. PICK S : outcome \in Seq(S)
    BY OutcomeLen
  <1> DEFINE T == S \cup {result}
  <1>7. outcome \in Seq(T) /\ result \in T
    BY <1>6, SeqMonotonic
  <1>8. /\ Append(outcome, result) \in Seq(T)
        /\ Len(Append(outcome, result)) = uo
        /\ \A o \in 1..(uo - 1) : Append(outcome, result)[o] = outcome[o]
        /\ Append(outcome, result)[uo] = result
    BY <1>0, <1>7, AppendProperties, OutcomeLen
  <1>9. Append(outcome, result) \in [1..uo -> T]
    BY <1>8, LenProperties
  <1>10. \A o \in 1..uo : outcome'[o] = Append(outcome, result)[o]
    BY <1>0, <1>4, <1>5, <1>8
  <1>11. outcome' = [o \in 1..uo |-> outcome'[o]]
    BY <1>3
  <1>12. Append(outcome, result) = [o \in 1..uo |-> Append(outcome, result)[o]]
    BY <1>9
  <1> QED
    BY <1>10, <1>11, <1>12

(* What the messages of Conclude come to.                                   *)
Result(code, N) ==
    [r \in Apply |-> IF code # "OK" /\ r \in N THEN "ApplyFailed"
                                               ELSE "UpdateSuccessful"]

LEMMA ConcludeResult ==
    ASSUME TypeInv, LogInv, uo <= Len(ops), NEW code, NEW N, Conclude(code, N)
    PROVE  outcome' = Append(outcome, Result(code, N))
  <1> SUFFICES ASSUME NEW result, result = Result(code, N)
               PROVE  outcome' = Append(outcome, result)
    OBVIOUS
  <1>1. ops' = ops /\ uo' = uo + 1 /\ uo \in Nat
    BY DEF Conclude, TypeInv, TypeOK
  <1>2. \A o \in 1..(uo - 1) : \A m \in Conclusions : \A r :
           Reported(o, m, r)' <=> Reported(o, m, r)
    BY <1>1, ConcludeLogs
  <1>3. result \in [Apply -> Conclusions]
    BY DEF Result, Conclusions
  <1>4. ASSUME NEW o, o = uo, NEW r \in Apply
        PROVE  /\ Reported(o, result[r], r)'
               /\ \A n \in Conclusions \ {result[r]} :
                     ~Reported(o, n, r)'
    <2>1. \A m \in Conclusions : ~Reported(o, m, r)
      BY <1>4 DEF LogInv, Conclusions
    <2>2. \A m \in Conclusions : Reported(o, m, r)' <=> ConcludedAs(code, N, m, r)
      BY <1>4, <2>1, ConcludeLogs
    <2>3. PICK m \in Conclusions :
             /\ m = IF code # "OK" /\ r \in N THEN "ApplyFailed"
                                              ELSE "UpdateSuccessful"
             /\ ConcludedAs(code, N, m, r)
             /\ \A n \in Conclusions \ {m} : ~ConcludedAs(code, N, n, r)
      <3>1. CASE code # "OK" /\ r \in N
        BY <1>4, <3>1 DEF ConcludedAs, Conclusions, Xor
      <3>2. CASE ~(code # "OK" /\ r \in N)
        BY <1>4, <3>2 DEF ConcludedAs, Conclusions, Xor
      <3> QED
        BY <3>1, <3>2
    <2>4. result[r] = m
      BY <1>4, <2>3 DEF Result
    <2> QED
      BY <2>2, <2>3, <2>4
  <1> QED
    BY <1>1, <1>2, <1>3, <1>4, NextOutcome

LEMMA TransferFailedResult ==
    ASSUME TypeInv, LogInv, uo <= Len(ops), ops' = ops, uo' = uo + 1,
           NEW M, M \cap Conclusions = {"TransferFailed"},
           \A o, m, r : Reported(o, m, r)' <=>
              Reported(o, m, r) \/ (o = uo /\ m \in M /\ r \in Apply)
    PROVE  outcome' = Append(outcome, [r \in Apply |-> "TransferFailed"])
  <1> SUFFICES ASSUME NEW result, result = [r \in Apply |-> "TransferFailed"]
               PROVE  outcome' = Append(outcome, result)
    OBVIOUS
  <1>1. uo \in Nat /\ "TransferFailed" \in M
    BY DEF TypeInv, TypeOK
  <1>2. \A o \in 1..(uo - 1) : \A m \in Conclusions : \A r :
           Reported(o, m, r)' <=> Reported(o, m, r)
    BY <1>1
  <1>3. result \in [Apply -> Conclusions]
    BY DEF Conclusions
  <1>4. ASSUME NEW o, o = uo, NEW r \in Apply
        PROVE  /\ Reported(o, result[r], r)'
               /\ \A n \in Conclusions \ {result[r]} : ~Reported(o, n, r)'
    <2>1. \A m \in Conclusions : ~Reported(o, m, r)
      BY <1>4 DEF LogInv, Conclusions
    <2>2. \A m \in Conclusions : Reported(o, m, r)' <=> m \in M
      BY <1>4, <2>1
    <2>3. result[r] = "TransferFailed" /\ "TransferFailed" \in Conclusions
      BY <1>4 DEF Conclusions
    <2> QED
      BY <1>1, <2>2, <2>3
  <1> QED
    BY <1>2, <1>3, <1>4, NextOutcome

-------------------------------------------------------------------------------
(* The steps.                                                               *)

LEMMA StatusRange ==
    ASSUME NEW c \in DOMAIN Code
    PROVE  ExitStatus(c) \in 0..255
  BY DEF Code, ExitStatus

LEMMA Untouched ==
    ASSUME TypeOK, eeprom' = eeprom, adrift \in SUBSET adrift', stale' = stale
    PROVE  Session!Touches({})
  BY DEF Session!Touches, TypeOK, FpgaTypeOK

(* A step UpdateSession does not see.                                       *)
LEMMA Unseen ==
    ASSUME stage' = stage, pc # "exit", pc' # "exit", outcome' = outcome,
           UNCHANGED <<ops, erred, adrift, stale, eeprom>>
    PROVE  UNCHANGED Session!vars
  BY DEF Session!vars

LEMMA SetupStep ==
    ASSUME TypeInv, LogInv, Disjoint', TypeOK', Setup
    PROVE  Session!Next \/ UNCHANGED Session!vars
  <1>0. /\ TypeOK /\ ops = <<>> /\ uo = 1 /\ uo' = 1 /\ stage = "planning"
        /\ eeprom' = eeprom /\ UNCHANGED <<erred, adrift, stale>>
        /\ pc \in {"setup", "load"}
    BY DEF Setup, SetupFails, SetupDone, LoadFails, ParseFails, ParseDone,
           TypeInv, SetupInv, stage, fpgaVars
  <1>1. outcome' = outcome
    <2>1. \A o \in 1..0 : FALSE
      OBVIOUS
    <2> QED
      BY <1>0, <2>1 DEF outcome
  <1>2. Session!Touches({})
    BY <1>0, Untouched
  <1>3. CASE SetupFails \/ LoadFails \/ ParseFails
    <2>1. pc' = "exit" /\ stage' = "over" /\ ops' = ops
      BY <1>3 DEF SetupFails, LoadFails, ParseFails, stage
    <2>2. ExitStatus(ret') \in 0..255
      BY StatusRange DEF TypeOK
    <2> QED
      BY <1>0, <1>1, <1>2, <2>1, <2>2 DEF Session!Next, Session!GiveUp
  <1>4. CASE SetupDone
    <2>1. pc' = "load" /\ stage' = "planning" /\ ops' = ops
      BY <1>4 DEF SetupDone, stage
    <2> QED
      BY <1>0, <1>1, <2>1, Unseen
  <1>5. CASE ParseDone
    <2>1. pc' = "next_op" /\ stage' = "transfer"
      BY <1>5 DEF ParseDone, stage
    <2>2. ops' \in Seq([img : Images, apply : SUBSET Retimers])
      BY DEF TypeOK, Op
    <2>3. DOMAIN ops' = 1..Len(ops')
      BY <2>2, LenProperties
    <2>4. \A i, j \in DOMAIN ops' : i # j => ops'[i].apply \cap ops'[j].apply = {}
      BY <2>3 DEF Disjoint
    <2> QED
      BY <1>0, <1>1, <1>2, <2>1, <2>2, <2>4 DEF Session!Next, Session!Plan
  <1> QED
    BY <1>3, <1>4, <1>5 DEF Setup

(* A transfer that fails, or an operation with nobody to update.            *)
LEMMA FailTransferStep ==
    ASSUME TypeInv, uo <= Len(ops), stage = "transfer", stage' = "transfer",
           pc # "exit", pc' # "exit",
           outcome' = Append(outcome, [r \in Apply |-> "TransferFailed"]),
           UNCHANGED <<ops, erred, adrift, stale, eeprom>>
    PROVE  Session!Next
  <1>1. Session!Touches({})
    BY Untouched DEF TypeInv
  <1> QED
    BY <1>1, SameOp DEF Session!Next, Session!FailTransfer

LEMMA TransferStep ==
    ASSUME TypeInv, LogInv, Copy
    PROVE  Session!Next \/ UNCHANGED Session!vars
  <1>0. /\ UNCHANGED <<ops, erred, adrift, stale, eeprom>> /\ stage = "transfer"
        /\ pc # "exit" /\ pc' # "exit"
    BY DEF Copy, CopyPage, WriteSize, ReadSize, WriteCrc, ReadCrc, CopyFails,
           fpgaVars, progVars, stage
  <1>1. CASE CopyFails
    <2>1. uo <= Len(ops) /\ uo' = uo + 1 /\ stage' = "transfer"
      BY <1>1, WorkType DEF CopyFails, Working, stage
    <2> DEFINE M == {"TransferFailed"}
    <2>2. \A o, m, r : Reported(o, m, r)' <=>
             Reported(o, m, r) \/ (o = uo /\ m \in M /\ r \in Apply)
      BY <1>1, LoggedHas DEF CopyFails, Reported
    <2>3. M \cap Conclusions = {"TransferFailed"}
      BY DEF Conclusions
    <2> HIDE DEF M
    <2>4. outcome' = Append(outcome, [r \in Apply |-> "TransferFailed"])
      BY <1>0, <2>1, <2>2, <2>3, TransferFailedResult
    <2> QED
      BY <1>0, <2>1, <2>4, FailTransferStep
  <1>2. CASE ~CopyFails
    <2>1. UNCHANGED <<uo, log>>
      BY <1>2 DEF Copy, CopyPage, WriteSize, ReadSize, WriteCrc, ReadCrc
    <2>2. outcome' = outcome
      BY <1>0, <2>1, SameOutcome DEF Reported
    <2>3. CASE ReadCrc
      <3>1. stage' = "programming" /\ uo <= Len(ops) /\ Apply # {}
        BY <2>3 DEF ReadCrc, stage, TypeInv, WorkInv, Working
      <3>2. Session!Touches({})
        BY <1>0, Untouched DEF TypeInv
      <3> QED
        BY <1>0, <2>2, <3>1, <3>2, SameOp DEF Session!Next, Session!Begin
    <2>4. CASE ~ReadCrc
      <3>1. stage' = "transfer"
        BY <1>2, <2>4 DEF Copy, CopyPage, WriteSize, ReadSize, WriteCrc, stage
      <3> QED
        BY <1>0, <2>2, <3>1, Unseen
    <2> QED
      BY <2>3, <2>4
  <1> QED
    BY <1>1, <1>2

(* EEPROMs that change are those of stray retimers only.                    *)
LEMMA StrayTouches ==
    ASSUME adrift \in SUBSET adrift', stale' = stale, DOMAIN eeprom' = Retimers,
           \A r \in Retimers \ adrift : eeprom'[r] = eeprom[r],
           NEW S
    PROVE  Session!Touches(S)
  BY DEF Session!Touches

(* All conclusions are successes if nothing of the plan failed.             *)
LEMMA Successes ==
    ASSUME TypeInv, LogInv
    PROVE  Session!AllSuccessful <=>
              \A o \in 1..(uo - 1) : \A r \in ops[o].apply : ~Failed(o, r)
  <1>1. ASSUME NEW o \in 1..(uo - 1), NEW r \in ops[o].apply
        PROVE  outcome[o][r] = "UpdateSuccessful" <=> ~Failed(o, r)
    <2>1. o \in 1..Len(ops) /\ o < uo
      BY OpType DEF TypeInv, TypeOK
    <2>2. PICK m \in Conclusions :
             Reported(o, m, r) /\ \A n \in Conclusions \ {m} : ~Reported(o, n, r)
      BY <2>1 DEF LogInv, ConcludedOp
    <2>3. outcome[o][r] = m
      BY <2>2, OutcomeLen, ConcludedIs
    <2> QED
      BY <2>2, <2>3 DEF Failed, Conclusions
  <1>2. /\ DOMAIN outcome = 1..(uo - 1)
        /\ \A o \in 1..(uo - 1) : DOMAIN outcome[o] = ops[o].apply
    BY OutcomeLen
  <1> QED
    BY <1>1, <1>2 DEF Session!AllSuccessful

(* The exit status agrees with the conclusions.                             *)
LEMMA EndStep ==
    ASSUME TypeInv, LogInv, CodeInv, FailInv, TypeOK', AllDone
    PROVE  Session!Next
  <1>0. /\ TypeOK /\ pc = "next_op" /\ pc' = "exit" /\ uo > Len(ops)
        /\ UNCHANGED <<ops, uo, log, erred, adrift, stale, eeprom>>
        /\ stage = "transfer" /\ stage' = "over"
    BY DEF AllDone, TypeInv, fpgaVars, stage
  <1>1. outcome' = outcome
    BY <1>0, SameOutcome DEF Reported
  <1>2. ExitStatus(ret') \in 0..255
    BY StatusRange DEF TypeOK
  <1>3. firstErr = "OK" => ExitStatus(ret') = 0 /\ Session!AllSuccessful
    <2> SUFFICES ASSUME firstErr = "OK"
                 PROVE  ExitStatus(ret') = 0 /\ Session!AllSuccessful
      OBVIOUS
    <2>1. ret' = "OK"
      BY <1>0 DEF AllDone, FailInv
    <2>2. ExitStatus(ret') = 0
      BY <2>1 DEF ExitStatus, Code
    <2>3. \A o \in 1..(uo - 1) : o \in 1..Len(ops)
      BY <1>0, OpType DEF TypeOK
    <2> QED
      BY <2>2, <2>3, Successes DEF FailInv
  <1>4. firstErr # "OK" => (ExitStatus(ret') = 0 => Session!AllSuccessful)
    <2> SUFFICES ASSUME firstErr # "OK", ExitStatus(ret') = 0
                 PROVE  Session!AllSuccessful
      OBVIOUS
    <2>1. CASE ops = <<>>
      <3>1. uo = 1
        BY <1>0, <2>1, EmptySeq DEF TypeOK
      <3> QED
        BY <3>1, Successes
    <2>2. CASE ops # <<>>
      <3>1. ret' \in LoopCodes \ {"OK"}
        BY <2>2 DEF AllDone, CodeInv
      <3>2. \A c \in LoopCodes \ {"OK"} : ExitStatus(c) # 0
        BY DEF LoopCodes, ExitStatus, Code
      <3> QED
        BY <3>1, <3>2
    <2> QED
      BY <2>1, <2>2
  <1>5. firstErr # "OK" => ~(Session!AllSuccessful /\ erred = {} /\ adrift = {})
    <2> SUFFICES ASSUME firstErr # "OK", erred = {}, adrift = {}
                 PROVE  ~Session!AllSuccessful
      OBVIOUS
    <2>1. PICK o \in 1..Len(ops) : o < uo /\ \E r \in ops[o].apply : Failed(o, r)
      BY DEF FailInv
    <2>2. o \in 1..(uo - 1)
      BY <1>0, <2>1, OpType DEF TypeOK
    <2> QED
      BY <2>1, <2>2, Successes
  <1>6. Session!Touches({}) /\ Session!uo = uo
    BY <1>0, Untouched, SameOp
  <1> QED
    BY <1>0, <1>1, <1>2, <1>3, <1>4, <1>5, <1>6 DEF Session!Next, Session!End

LEMMA NextOpStep ==
    ASSUME TypeInv, LogInv, CodeInv, FailInv, TypeOK', NextOp
    PROVE  Session!Next \/ UNCHANGED Session!vars
  <1>1. CASE AllDone
    BY <1>1, EndStep
  <1>2. CASE ~AllDone
    <2>1. /\ UNCHANGED <<ops, erred, adrift, stale, eeprom>> /\ uo <= Len(ops)
          /\ stage = "transfer" /\ stage' = "transfer"
          /\ pc # "exit" /\ pc' # "exit"
      BY <1>2 DEF NextOp, SkipOp, RefuseImage, BeginTransfer, fpgaVars, stage
    <2>2. CASE SkipOp
      <3> DEFINE M == {"TransferFailed"}
      <3>1. uo' = uo + 1 /\ log' = log /\ Apply = {}
        BY <2>2 DEF SkipOp
      <3>2. \A o, m, r : Reported(o, m, r)' <=>
               Reported(o, m, r) \/ (o = uo /\ m \in M /\ r \in Apply)
        BY <3>1 DEF Reported
      <3>3. M \cap Conclusions = {"TransferFailed"}
        BY DEF Conclusions
      <3> HIDE DEF M
      <3>4. outcome' = Append(outcome, [r \in Apply |-> "TransferFailed"])
        BY <2>1, <3>1, <3>2, <3>3, TransferFailedResult
      <3> QED
        BY <2>1, <3>4, FailTransferStep
    <2>3. CASE RefuseImage
      <3> DEFINE M == {"TransferringToComponent", "TransferFailed"}
      <3>1. uo' = uo + 1
        BY <2>3 DEF RefuseImage
      <3>2. \A o, m, r : Reported(o, m, r)' <=>
               Reported(o, m, r) \/ (o = uo /\ m \in M /\ r \in Apply)
        BY <2>3, LoggedHas DEF RefuseImage, Reported
      <3>3. M \cap Conclusions = {"TransferFailed"}
        BY DEF Conclusions
      <3> HIDE DEF M
      <3>4. outcome' = Append(outcome, [r \in Apply |-> "TransferFailed"])
        BY <2>1, <3>1, <3>2, <3>3, TransferFailedResult
      <3> QED
        BY <2>1, <3>4, FailTransferStep
    <2>4. CASE BeginTransfer
      <3>1. uo' = uo
        BY <2>4 DEF BeginTransfer
      <3>2. \A o, r : \A m \in Conclusions : Reported(o, m, r)' <=> Reported(o, m, r)
        BY <2>4, LoggedHas DEF BeginTransfer, Reported, Conclusions
      <3>3. outcome' = outcome
        BY <2>1, <3>1, <3>2, SameOutcome
      <3> QED
        BY <2>1, <3>3, Unseen
    <2> QED
      BY <1>2, <2>2, <2>3, <2>4 DEF NextOp
  <1> QED
    BY <1>1, <1>2

(* An operation that ends in a transport error.                             *)
LEMMA ErrorStep ==
    ASSUME TypeInv, LogInv, pc \in {"trigger", "poll", "check"},
           NEW code, NEW N, Conclude(code, N), erred' = erred \cup {uo},
           adrift \in SUBSET adrift', stale' = stale,
           DOMAIN eeprom' = Retimers,
           \A r \in Retimers \ adrift : eeprom'[r] = eeprom[r]
    PROVE  Session!Next
  <1>1. uo <= Len(ops) /\ ops' = ops /\ pc' = "next_op"
    BY DEF TypeInv, WorkInv, Working, Conclude
  <1>2. stage = "programming" /\ stage' = "transfer"
    BY <1>1 DEF stage
  <1>3. outcome' = Append(outcome, Result(code, N))
    BY <1>1, ConcludeResult
  <1>4. Result(code, N) \in [Apply -> {"UpdateSuccessful", "ApplyFailed"}]
    BY DEF Result
  <1>5. Session!Touches({})
    BY StrayTouches
  <1>6. Session!ConcludeWith(Result(code, N))
    BY <1>1, <1>2, <1>3, <1>5 DEF Session!ConcludeWith
  <1> QED
    BY <1>2, <1>4, <1>6, SameOp DEF Session!Next, Session!ConcludeInError

(* An operation that ends with an answer from the FPGA.                     *)
LEMMA AnswerStep ==
    ASSUME TypeInv, LogInv, pc = "check", NEW code, NEW N, Conclude(code, N),
           UNCHANGED <<erred, adrift, stale, eeprom>>,
           adrift = {} => \A r \in Apply :
              (code # "OK" /\ r \in N) <=> eeprom[r] # Image
    PROVE  Session!Next
  <1>1. uo <= Len(ops) /\ ops' = ops /\ pc' = "next_op"
    BY DEF TypeInv, WorkInv, Working, Conclude
  <1>2. stage = "programming" /\ stage' = "transfer"
    BY <1>1 DEF stage
  <1>3. outcome' = Append(outcome, Result(code, N))
    BY <1>1, ConcludeResult
  <1>4. Result(code, N) \in [Apply -> {"UpdateSuccessful", "ApplyFailed"}]
    BY DEF Result
  <1>5. Session!Touches({})
    BY Untouched DEF TypeInv
  <1>6. Session!ConcludeWith(Result(code, N))
    BY <1>1, <1>2, <1>3, <1>5 DEF Session!ConcludeWith
  <1>7. adrift = {} => \A r \in Apply :
           Result(code, N)[r] = "UpdateSuccessful" <=> eeprom[r] = Image
    BY DEF Result
  <1> QED
    BY <1>2, <1>4, <1>6, <1>7, SameOp DEF Session!Next, Session!Conclude

LEMMA StartStep ==
    ASSUME TypeInv, LogInv, ReportInv, StrayInv, Start
    PROVE  Session!Next \/ UNCHANGED Session!vars
  <1>0. /\ TypeOK /\ pc \in {"trigger", "poll", "check"} /\ pc # "exit"
        /\ stage = "programming" /\ uo <= Len(ops)
        /\ DOMAIN eeprom = Retimers
    BY DEF Start, Trigger, TriggerFails, Poll, PollFails, PollTimesOut,
           CheckClean, CheckExtendedFails, CheckRetry, stage, TypeInv,
           WorkInv, Working, TypeOK, FpgaTypeOK
  <1>s. stale' = stale
    BY StaleFixed DEF Next, Main
  <1>1. CASE Trigger
    <2>1. /\ UNCHANGED <<ops, uo, log, erred, adrift, stale>>
          /\ stage' = "programming" /\ pc' # "exit"
      BY <1>1 DEF Trigger, stage
    <2>2. outcome' = outcome
      BY <2>1, SameOutcome DEF Reported
    <2>3. /\ DOMAIN eeprom' = Retimers
          /\ \A r \in Retimers \ adrift : eeprom'[r] = eeprom[r]
      BY <1>0, <1>1, TriggerStray DEF Trigger
    <2>4. \A S : Session!Touches(S)
      BY <2>1, <2>3, StrayTouches
    <2> QED
      BY <1>0, <2>1, <2>2, <2>4 DEF Session!Next, Session!Program
  <1>2. CASE TriggerFails
    <2>1. /\ pc = "trigger" /\ Conclude("IOCTL_I2C", notUpdated)
          /\ erred' = erred \cup {uo}
      BY <1>2 DEF TriggerFails
    <2>2. /\ adrift \in SUBSET adrift' /\ DOMAIN eeprom' = Retimers
          /\ \A r \in Retimers \ adrift : eeprom'[r] = eeprom[r]
      BY <1>0, <1>2, <2>1, TriggerStray DEF TriggerFails, progVars
    <2> QED
      BY <1>0, <1>s, <2>1, <2>2, ErrorStep
  <1>3. CASE Poll
    <2>1. /\ UNCHANGED <<ops, uo, log, erred, adrift, stale, eeprom>>
          /\ stage' = "programming" /\ pc' # "exit"
      BY <1>3 DEF Poll, stage, fpgaVars
    <2>2. outcome' = outcome
      BY <2>1, SameOutcome DEF Reported
    <2> QED
      BY <1>0, <2>1, <2>2, Unseen
  <1>4. CASE PollFails
    <2>1. /\ pc = "poll" /\ Conclude("IOCTL_I2C", notUpdated)
          /\ erred' = erred \cup {uo}
          /\ adrift \in SUBSET adrift' /\ eeprom' = eeprom
      BY <1>4 DEF PollFails, fpgaVars
    <2> QED
      BY <1>0, <1>s, <2>1, ErrorStep
  <1>5. CASE PollTimesOut
    <2>1. /\ UNCHANGED <<ops, uo, log, erred, eeprom>>
          /\ adrift \in SUBSET adrift'
          /\ stage' = "programming" /\ pc' # "exit"
      BY <1>5 DEF PollTimesOut, stage, fpgaVars
    <2>2. outcome' = outcome
      BY <2>1, SameOutcome DEF Reported
    <2>3. \A S : Session!Touches(S)
      BY <1>0, <1>s, <2>1, StrayTouches
    <2> QED
      BY <1>0, <2>1, <2>2, <2>3 DEF Session!Next, Session!Program
  <1>6. CASE CheckClean
    <2>1. /\ pc = "check" /\ rb = ClearStatus /\ Conclude("OK", notUpdated)
          /\ UNCHANGED <<erred, adrift, stale, eeprom>>
      BY <1>s, <1>6 DEF CheckClean, fpgaVars
    <2>2. adrift = {} => \A r \in Apply : eeprom[r] = Image
      <3>1. RetrySet = {}
        BY <2>1 DEF RetrySet, ClearStatus
      <3> QED
        BY <2>1, <3>1, OwnTruth
    <2> QED
      BY <2>1, <2>2, AnswerStep
  <1>7. CASE CheckExtendedFails
    <2>1. /\ pc = "check" /\ Conclude("OPEN_FIRMWARE", notUpdated)
          /\ erred' = erred \cup {uo}
          /\ adrift' = adrift /\ eeprom' = eeprom
      BY <1>7 DEF CheckExtendedFails, fpgaVars
    <2> QED
      BY <1>0, <1>s, <2>1, ErrorStep
  <1>8. CASE CheckRetry
    <2>1. CASE attempt + 1 < MaxUpdateRetryCount
      <3>1. /\ UNCHANGED <<ops, uo, log, erred, adrift, stale, eeprom>>
            /\ stage' = "programming" /\ pc' # "exit"
        BY <1>8, <2>1 DEF CheckRetry, stage, fpgaVars
      <3>2. outcome' = outcome
        BY <3>1, SameOutcome DEF Reported
      <3> QED
        BY <1>0, <3>1, <3>2, Unseen
    <2>2. CASE ~(attempt + 1 < MaxUpdateRetryCount)
      <3>1. /\ pc = "check" /\ rb # ClearStatus
            /\ Conclude(StatusCode, RetrySet)
            /\ UNCHANGED <<erred, adrift, stale, eeprom>>
        BY <1>s, <1>8, <2>2 DEF CheckRetry, fpgaVars
      <3>2. adrift = {} => \A r \in Apply :
               (StatusCode # "OK" /\ r \in RetrySet) <=> eeprom[r] # Image
        <4> SUFFICES ASSUME adrift = {}, NEW r \in Apply
                     PROVE  (StatusCode # "OK" /\ r \in RetrySet)
                               <=> eeprom[r] # Image
          OBVIOUS
        <4>1. /\ \A q \in Apply \ RetrySet : eeprom[q] = Image
              /\ \A q \in RetrySet : eeprom[q] # Image
              /\ RetrySet # {}
          BY <3>1, OwnTruth
        <4>2. StatusCode # "OK"
          BY <4>1 DEF StatusCode
        <4> QED
          BY <4>1, <4>2
      <3> QED
        BY <3>1, <3>2, AnswerStep
    <2> QED
      BY <2>1, <2>2
  <1> QED
    BY <1>1, <1>2, <1>3, <1>4, <1>5, <1>6, <1>7, <1>8 DEF Start

(* The engine at work: for the operation under way, or for what is adrift.  *)
LEMMA EngineMapped ==
    ASSUME TypeInv, LogInv, ReportInv, StrayInv, Engine
    PROVE  Session!Next
  <1>0. /\ TypeOK /\ EngineStep
        /\ UNCHANGED <<pc, ops, uo, log, ret, erred, adrift, stale>>
    BY DEF Engine, mainVars, TypeInv
  <1>1. outcome' = outcome /\ stage' = stage
    BY <1>0, SameOutcome DEF Reported, stage
  <1>2. /\ DOMAIN eeprom' = Retimers
        /\ \A r \in Retimers \ busy : eeprom'[r] = eeprom[r]
    BY <1>0, EngineStray
  <1>3. CASE pc # "poll"
    <2>1. \A r \in Retimers \ adrift : eeprom'[r] = eeprom[r]
      BY <1>2, <1>3 DEF StrayInv
    <2>2. Session!Touches({})
      BY <1>0, <1>2, <2>1, StrayTouches
    <2> QED
      BY <1>0, <1>1, <2>2 DEF Session!Next, Session!Stray
  <1>4. CASE pc = "poll"
    <2>1. stage = "programming" /\ pc # "exit" /\ uo <= Len(ops)
      BY <1>4 DEF stage, TypeInv, WorkInv, Working
    <2>2. adrift = {} => busy \in SUBSET Apply
      BY <1>4 DEF ReportInv, StartInv
    <2>3. busy \in SUBSET (adrift \cup stale \cup Session!Begun)
      <3>1. busy \in SUBSET SoFar
        BY DEF StrayInv, SoFar
      <3>2. \A o \in 1..Len(ops) : o <= uo => o \in 1..Session!uo
        BY <1>0, SameOp DEF TypeOK
      <3> QED
        BY <3>1, <3>2 DEF SoFar, Session!Begun
    <2>4. Session!Touches(IF adrift \cup stale = {} THEN Session!Apply
                                                    ELSE Session!Begun)
      <3>1. CASE adrift \cup stale = {}
        <4>1. adrift = {}
          BY <3>1
        <4>2. Session!Touches(Apply)
          BY <1>0, <1>2, <2>2, <4>1 DEF Session!Touches
        <4> QED
          BY <3>1, <4>2, SameOp
      <3>2. CASE adrift \cup stale # {}
        <4>1. Session!Touches(Session!Begun)
          BY <1>0, <1>2, <2>3 DEF Session!Touches
        <4> QED
          BY <3>2, <4>1
      <3> QED
        BY <3>1, <3>2
    <2> QED
      BY <1>0, <1>1, <2>1, <2>4 DEF Session!Next, Session!Program
  <1> QED
    BY <1>3, <1>4

LEMMA InitMapped ==
    ASSUME Init
    PROVE  Session!Init
  <1>1. /\ pc = "setup" /\ ops = <<>> /\ uo = 1 /\ erred = {}
        /\ adrift = busy /\ stale = StaleBits
    BY DEF Init, UpdateFwInit
  <1>2. outcome = <<>>
    <2>1. outcome \in [1..0 -> {}]
      BY <1>1 DEF outcome
    <2>2. outcome \in Seq({})
      BY <2>1, SeqDef
    <2>3. Len(outcome) = 0
      BY <2>1, <2>2, LenProperties
    <2> QED
      BY <2>2, <2>3, EmptySeq
  <1>3. adrift \cup stale \in SUBSET Retimers /\ DOMAIN eeprom = Retimers
    BY <1>1 DEF Init, FpgaInit, FpgaTypeOK, StaleBits
  <1> QED
    BY <1>1, <1>2, <1>3 DEF Session!Init, stage

(* Every behaviour of updateRetimerFw, with everything that may fail in it, *)
(* on any baseboard and with any image, is one that UpdateSession allows.   *)
THEOREM Implements == Spec => ImplementsSession
<1>1. Init => Session!Init
  BY InitMapped
<1>2. /\ TypeInv /\ LogInv /\ Disjoint /\ CodeInv /\ ReportInv
      /\ StrayInv /\ FailInv
      /\ TypeInv' /\ Disjoint' /\ [Next]_vars
      => [Session!Next]_(Session!vars)
  <2> SUFFICES ASSUME TypeInv, LogInv, Disjoint, CodeInv, ReportInv,
                      StrayInv, FailInv, TypeInv', Disjoint', [Next]_vars
               PROVE  Session!Next \/ UNCHANGED Session!vars
    OBVIOUS
  <2>0. TypeOK'
    BY DEF TypeInv
  <2>1. CASE Setup
    BY <2>0, <2>1, SetupStep
  <2>2. CASE NextOp
    BY <2>0, <2>2, NextOpStep
  <2>3. CASE Copy
    BY <2>3, TransferStep
  <2>4. CASE Start
    BY <2>4, StartStep
  <2>5. CASE Engine
    BY <2>5, EngineMapped
  <2>6. CASE UNCHANGED vars
    <3>1. UNCHANGED <<pc, ops, uo, log, ret, erred, adrift, stale, eeprom>>
      BY <2>6 DEF vars, fpgaVars, mainVars
    <3>2. outcome' = outcome /\ stage' = stage
      BY <3>1, SameOutcome DEF Reported, stage
    <3> QED
      BY <3>1, <3>2 DEF Session!vars
  <2> QED
    BY <2>1, <2>2, <2>3, <2>4, <2>5, <2>6 DEF Next, Main, Exited
<1> QED
  BY <1>1, <1>2, TypeInvariance, LogInvariance, CodeInvariance,
     ReportInvariance, StrayInvariance, FailInvariance, PTL
  DEF Spec, ImplementsSession, Session!Spec

===============================================================================
