------------------------------ MODULE FpgaReader ------------------------------
(***************************************************************************)
(* The part of the FPGA that reads a retimer's EEPROM back into the DPRAM.  *)
(* It is environment, not code of the repository: modelled from how         *)
(* readRetimerfw() and copyImageFromFpga() use it.                          *)
(*                                                                          *)
(*   0x00_0000  DPRAM, read and written one 256-byte page at a time         *)
(*   0x04_000C  a write names a retimer and starts reading it; a read       *)
(*              answers the still-reading bit and the NACK bit              *)
(***************************************************************************)
EXTENDS Naturals

CONSTANTS
    Retimers,   \* the retimers of the baseboard (indices 0-7)
    Contents,   \* what a page, a file or an EEPROM may hold
    MaxPages,   \* the pages of the DPRAM (MAX_FW_IMAGE_SIZE / BYTE_PER_PAGE)
    NoRetimer   \* the FPGA is not reading

ASSUME FpgaReaderAssumption ==
    /\ MaxPages \in Nat
    /\ NoRetimer \notin Retimers

VARIABLES
    dpram,      \* dpram[p]: the content whose page p the DPRAM's page p holds
    eeprom,     \* what each retimer's EEPROM holds
    reading,    \* the retimer being read, or NoRetimer
    filled,     \* the pages of it already in the DPRAM
    nack        \* {"nack"} if the retimer did not answer, else {}

engineVars == <<reading, filled, nack>>
readerVars == <<dpram, eeprom, engineVars>>

Pages == 0..(MaxPages - 1)
Memory == [Pages -> Contents]

ReaderTypeOK ==
    /\ dpram \in Memory
    /\ eeprom \in [Retimers -> Contents]
    /\ reading \in Retimers \cup {NoRetimer}
    /\ filled \in 0..MaxPages
    /\ nack \in SUBSET {"nack"}

(* Any state: another program may have left the FPGA reading a retimer.     *)
ReaderInit == ReaderTypeOK

(* What a read of 0x04_000C answers: the set of the bits that are 1.        *)
ReadStatus == IF reading # NoRetimer THEN {"busy"} \cup nack ELSE nack

WritePage(p, c) == dpram' = [dpram EXCEPT ![p] = c]

-------------------------------------------------------------------------------

AcceptRead(r) ==
    /\ reading' = r
    /\ filled' = 0
    /\ nack' = {}

(* While it is reading the FPGA may drop the write: nothing in the code     *)
(* tells.                                                                   *)
IgnoreRead ==
    /\ reading # NoRetimer
    /\ UNCHANGED engineVars

FillPage ==
    /\ reading # NoRetimer
    /\ filled < MaxPages
    /\ WritePage(filled, eeprom[reading])
    /\ filled' = filled + 1
    /\ UNCHANGED <<eeprom, reading, nack>>

FillDone ==
    /\ reading # NoRetimer
    /\ filled = MaxPages
    /\ reading' = NoRetimer
    /\ UNCHANGED <<dpram, eeprom, filled, nack>>

FillNack ==
    /\ reading # NoRetimer
    /\ reading' = NoRetimer
    /\ nack' = {"nack"}
    /\ UNCHANGED <<dpram, eeprom, filled>>

ReaderStep == FillPage \/ FillDone \/ FillNack

===============================================================================
