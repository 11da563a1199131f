------------------------------ MODULE SharedFpga ------------------------------
(***************************************************************************)
(* An update session (UpdateFw) and the hash service (ComputeHash) on one   *)
(* FPGA.  They are two processes with nothing between them but the FPGA:    *)
(* send_i2c_cmd() takes no lock, and each I2C transaction of one may fall   *)
(* between any two of the other.                                            *)
(*                                                                          *)
(* The service's blank file is an image of full size here: its size and its *)
(* checksum go to the same registers as those of the update's image.  Its   *)
(* temporary file can always be removed.  It may stop anywhere, as nothing  *)
(* makes it go on; a restarted one does what one does that was idle.        *)
(***************************************************************************)
EXTENDS UpdateFw

CONSTANTS
    Blank,      \* the image of zeros
    NoRetimer, NoFile, NoDigest, NoSignal

ASSUME SharedFpgaAssumption ==
    /\ Blank \in Images /\ NumPages[Blank] = MaxPages
    /\ NoRetimer \notin Retimers
    /\ NoFile \notin [Pages -> Contents]
    /\ NoDigest \notin [Pages -> Contents]

VARIABLES
    reading, filled, nack,              \* the FPGA's reading engine
    rpc, rt, file, dummyfd, buf,        \* the service: see ReadFw
    hpage, hattempt, htimeout,          \* its page, attempt and timeout
    rsp, taken, sound,
    digest, signal, genuine, leftover,  \* see ComputeHash
    disturbed,  \* history: operations while which the service, or a read it
                \* triggered, changed the DPRAM or the registers
    spoilt      \* history: retimers whose EEPROM has changed since GetHash(),
                \* or while whose read the update changed the DPRAM

Hash == INSTANCE ComputeHash WITH
    page <- hpage,
    attempt <- hattempt,
    timeout <- htimeout

readVars == <<rpc, rt, file, dummyfd, buf, hpage, hattempt, htimeout, rsp,
              taken, sound>>
serviceVars == <<digest, signal, genuine, leftover>>
hashVars == <<reading, filled, nack, readVars, serviceVars>>
sharedVars == <<vars, hashVars, disturbed, spoilt>>

(* The operation from its first page to its last check, and the read from   *)
(* the trigger the FPGA took to the last page copied back: the windows in   *)
(* which the other process must not touch the DPRAM.                        *)
InOperation == pc \in {"copy", "read_size", "write_crc", "read_crc",
                       "trigger", "poll", "check"}
InRead == taken = rt

SharedInit ==
    /\ Init
    /\ Hash!Init
    /\ disturbed = {}
    /\ spoilt = {}

-------------------------------------------------------------------------------

(* A step of the update or of the programming engine.                       *)
Spoil ==
    spoilt' = spoilt
        \cup {r \in Retimers : eeprom'[r] # eeprom[r]}
        \cup (IF InRead /\ dpram' # dpram THEN {rt} ELSE {})

UpdateStep ==
    /\ Next
    /\ Spoil
    /\ UNCHANGED <<hashVars, disturbed>>

(* A step of the service or of the reading engine.                          *)
Disturb ==
    disturbed' = IF InOperation /\ memVars' # memVars
                   THEN disturbed \cup {uo} ELSE disturbed

GetHash ==
    /\ Hash!GetHash
    /\ spoilt' = spoilt \ {rt'}
    /\ UNCHANGED <<sizeReg, crcReg, busy, verdict, mainVars, disturbed>>

(* copyImageFromMemToFpga() with the blank image, behind its pages: size,   *)
(* read-back, checksum, read-back.                                          *)
CopyInRegister ==
    /\ Hash!CopyInRegister
    /\ sizeReg' = IF hpage = MaxPages THEN Blank ELSE sizeReg
    /\ crcReg' = IF hpage = MaxPages + 2 THEN Blank ELSE crcReg

(* A failed write may or may not have reached the register.                 *)
CopyInFails ==
    /\ Hash!CopyInFails
    /\ \/ UNCHANGED <<sizeReg, crcReg>>
       \/ hpage = MaxPages /\ sizeReg' \in {Blank, Foreign} /\ UNCHANGED crcReg
       \/ hpage = MaxPages + 2 /\ crcReg' \in {Blank, Foreign} /\ UNCHANGED sizeReg

HashStep ==
    /\ \/ CopyInRegister
       \/ CopyInFails
       \/ /\ Hash!BlankFile \/ Hash!CopyInPage \/ Hash!ReadRetimer \/ Hash!CopyOut
          /\ UNCHANGED <<sizeReg, crcReg>>
       \/ Hash!ReaderStep /\ UNCHANGED <<sizeReg, crcReg, readVars>>
    /\ Disturb
    /\ UNCHANGED <<busy, verdict, mainVars, serviceVars, spoilt>>

FinishHash ==
    /\ Hash!HashFile \/ Hash!HashFails \/ Hash!Finish
    /\ UNCHANGED <<sizeReg, crcReg, busy, verdict, mainVars, disturbed, spoilt>>

SharedNext == UpdateStep \/ GetHash \/ HashStep \/ FinishHash

SharedSpec == SharedInit /\ [][SharedNext]_sharedVars

-------------------------------------------------------------------------------
(* Properties.                                                              *)

(* The types of both programs.                                              *)
SharedTypeOK ==
    /\ TypeOK
    /\ Hash!TypeOK
    /\ disturbed \in SUBSET OpIndex
    /\ spoilt \in SUBSET Retimers

(* A hash request between the copy and the trigger makes the FPGA program   *)
(* what the service put into the DPRAM.  With nothing adrift, what an       *)
(* operation without transport error reports as successful is even then one *)
(* whole image, its own or the service's blank one, and never a mixture:    *)
(* the checksum error of a mixture is seen and ends in ApplyFailed.         *)
SuccessIsWhole ==
    adrift = {} =>
        \A o \in DOMAIN ops \ erred : \A r \in Retimers :
            Reported(o, "UpdateSuccessful", r) => eeprom[r] \in {ops[o].img, Blank}

(* That race is the only way in which sharing the FPGA hurts an update: an  *)
(* operation during which the service and its reads changed nothing the     *)
(* programming uses reports the truth, whatever they did before or after.   *)
UndisturbedIsReal ==
    adrift = {} =>
        \A o \in DOMAIN ops \ (erred \cup disturbed) : \A r \in Retimers :
            /\ Reported(o, "UpdateSuccessful", r) => eeprom[r] = ops[o].img
            /\ Reported(o, "ApplyFailed", r) => eeprom[r] # ops[o].img

(* And the other way round: a digest computed without NACK, timeout and     *)
(* short write is that of the EEPROM unless the update wrote into the DPRAM *)
(* during the read, or has programmed the retimer since: nothing recomputes *)
(* the digest, or clears it, after an update.                               *)
DigestUnlessSpoilt ==
    \A r \in genuine \ spoilt :
        digest[r] # NoDigest => digest[r] = [p \in Pages |-> eeprom[r]]

===============================================================================
