------------------------------ MODULE FpgaDevice ------------------------------
(***************************************************************************)
(* The FPGA that sits between the BMC and the retimers, as the programs of  *)
(* this repository use it over I2C (slave 0x62).  None of it is code of the *)
(* repository: it is the environment, modelled from the transactions that   *)
(* updateRetimerFwOverI2C.c issues and from how it reads the answers.       *)
(*                                                                          *)
(*   0x00_0000  DPRAM, written one 256-byte page per transaction            *)
(*   0x04_0000  image size register                                         *)
(*   0x04_0004  image checksum register                                     *)
(*   0x04_0008  control and status: a write starts programming the EEPROMs  *)
(*              of the retimers in the bitmap; a read answers four bytes,   *)
(*              still-busy, write-NACK, read-NACK and checksum bitmaps      *)
(*                                                                          *)
(* A bitmap of retimers is a set of retimers; 0xFF (RETIMERALL) is Retimers.*)
(***************************************************************************)
EXTENDS Naturals, FiniteSets

CONSTANTS
    Retimers,   \* the retimers of the baseboard (indices 0-7)
    Images,     \* the firmware images an update session may carry
    Foreign,    \* any content that is none of Images
    Corrupt,    \* an EEPROM whose programming was broken off or failed
    MaxPages,   \* the pages of the DPRAM (MAX_FW_IMAGE_SIZE / BYTE_PER_PAGE)
    NumPages    \* NumPages[img]: the pages image img fills

ASSUME FpgaAssumption ==
    /\ MaxPages \in Nat
    /\ NumPages \in [Images -> Nat]
    /\ Foreign \notin Images
    /\ Corrupt \notin Images

VARIABLES
    dpram,      \* dpram[p]: the image whose page p the DPRAM's page p holds
    sizeReg,    \* the image whose size the size register holds
    crcReg,     \* the image whose CRC the checksum register holds
    busy,       \* status byte 0: the retimers still being programmed
    verdict,    \* status bytes 1-3: the stage in which a retimer failed
    eeprom      \* what each retimer's EEPROM holds

memVars == <<dpram, sizeReg, crcReg>>
progVars == <<busy, verdict, eeprom>>
fpgaVars == <<dpram, sizeReg, crcReg, busy, verdict, eeprom>>

Pages == 0..(MaxPages - 1)
Verdicts == {"ok", "writeNack", "readNack", "checksum"}

(* What a page or an EEPROM may hold; a read may have put the pages of a    *)
(* broken EEPROM into the DPRAM.                                            *)
Contents == Images \cup {Foreign, Corrupt}

FpgaTypeOK ==
    /\ dpram \in [Pages -> Contents]
    /\ sizeReg \in Images \cup {Foreign}
    /\ crcReg \in Images \cup {Foreign}
    /\ busy \in SUBSET Retimers
    /\ verdict \in [Retimers -> Verdicts]
    /\ eeprom \in [Retimers -> Contents]

(* Any state an earlier session, killed or timed out, may have left behind. *)
FpgaInit == FpgaTypeOK

(* Size, checksum and every page belong to img: what is programmed is img. *)
DpramHolds(img) ==
    /\ NumPages[img] <= MaxPages
    /\ sizeReg = img
    /\ crcReg = img
    /\ \A p \in 0..(NumPages[img] - 1) : dpram[p] = img

(* The four bytes a read of 0x04_0008 answers. *)
Status == [busy |-> busy, verdict |-> verdict]

ClearStatus == [busy |-> {}, verdict |-> [r \in Retimers |-> "ok"]]

-------------------------------------------------------------------------------

WriteDpram(p, img) == dpram' = [dpram EXCEPT ![p] = img]

(* A write to the control register starts programming the retimers of S and *)
(* breaks off what was still being programmed outside S.                    *)
AcceptTrigger(S) ==
    /\ busy' = S
    /\ verdict' = [r \in Retimers |-> "ok"]
    /\ eeprom' = [r \in Retimers |->
                     IF r \in busy \ S THEN Corrupt ELSE eeprom[r]]

(* While it is programming the FPGA may drop the write: nothing in the code *)
(* tells which of the two it does.                                          *)
IgnoreTrigger ==
    /\ busy # {}
    /\ UNCHANGED progVars

TriggerUpdate(S) == AcceptTrigger(S) \/ IgnoreTrigger

(* The engine finishes retimer r with whatever image the DPRAM describes... *)
EngineProgrammed(r) ==
    /\ r \in busy
    /\ \E img \in Images :
          /\ DpramHolds(img)
          /\ eeprom' = [eeprom EXCEPT ![r] = img]
    /\ busy' = busy \ {r}
    /\ UNCHANGED verdict

(* ... or gives r up in one of the three stages the status register reports.*)
EngineFailed(r) ==
    /\ r \in busy
    /\ \E v \in Verdicts \ {"ok"} : verdict' = [verdict EXCEPT ![r] = v]
    /\ eeprom' = [eeprom EXCEPT ![r] = Corrupt]
    /\ busy' = busy \ {r}

EngineStep ==
    /\ \E r \in Retimers : EngineProgrammed(r) \/ EngineFailed(r)
    /\ UNCHANGED memVars

===============================================================================
