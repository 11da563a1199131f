------------------------------ MODULE ComputeHash ------------------------------
(***************************************************************************)
(* dbus-service-retimer.c: the D-Bus service that answers GetHash(retimer)   *)
(* at once, reads the retimer's firmware into a temporary file, hashes the   *)
(* file, and announces the Digest property with PropertiesChanged.           *)
(*                                                                          *)
(* The service has one thread: a property is read, and the next call taken,  *)
(* when rpc is "idle".  systemd restarts it whenever it ends, and removes    *)
(* the temporary file first (ExecStopPost).  The digest of a file is the     *)
(* file's content: SHA384 tells any two files apart.                         *)
(***************************************************************************)
EXTENDS ReadFw

CONSTANTS
    NoDigest,  \* the empty string
    NoSignal   \* no signal since the service was started

ASSUME ComputeHashAssumption == NoDigest \notin Memory

VARIABLES
    digest,    \* g_retimerHash[r].hashDigest
    signal,    \* the last PropertiesChanged: retimer, result, Digest
    genuine,   \* history: retimers whose last computation read them soundly
    leftover   \* history: the temporary file that could not be removed

serviceVars == <<digest, signal, genuine, leftover>>
vars == <<readerVars, readVars, serviceVars>>

Digest == Memory \cup {NoDigest}
Signal == [rt : Retimers, result : {"ok", "failed"}, digest : Digest]

Init ==
    /\ ReaderInit
    /\ ReadFwInit
    /\ digest = [r \in Retimers |-> NoDigest]
    /\ signal = NoSignal
    /\ genuine = {}
    /\ leftover = NoFile

-------------------------------------------------------------------------------

(* Mutant: the digest of the last computation is not reset.                 *)
GetHashKeepsDigest ==
    /\ rpc = "idle"
    /\ rt' \in Retimers
    /\ genuine' = genuine \ {rt'}
    /\ dummyfd' = "none"
    /\ rpc' = "open"
    /\ UNCHANGED <<readerVars, file, buf, page, loopVars, taken, sound, digest,
                   signal, leftover>>

(* The call is answered; the digest is reset and the computation begins.    *)
GetHash ==
    /\ rpc = "idle"
    /\ rt' \in Retimers
    /\ digest' = [digest EXCEPT ![rt'] = NoDigest]
    /\ genuine' = genuine \ {rt'}
    /\ dummyfd' = "none"
    /\ rpc' = "open"
    /\ UNCHANGED <<readerVars, file, buf, page, loopVars, taken, sound, signal,
                   leftover>>

(* The shared sequence: blank file, read, copy back.                        *)
Read == ReadFwStep /\ UNCHANGED serviceVars

HashFile ==
    /\ rpc = "done"
    /\ digest' = [digest EXCEPT ![rt] = file]
    /\ genuine' = IF sound = rt THEN genuine \cup {rt} ELSE genuine
    /\ sound' = NoRetimer
    /\ rpc' = "hashed"
    /\ UNCHANGED <<readerVars, rt, file, dummyfd, buf, page, loopVars, taken,
                   signal, leftover>>

(* lseek(), read() or the hash library fails.                               *)
HashFails ==
    /\ rpc = "done"
    /\ sound' = NoRetimer
    /\ rpc' = "failed"
    /\ UNCHANGED <<readerVars, rt, file, dummyfd, buf, page, loopVars, taken,
                   serviceVars>>

(* sd_bus_emit_properties_changed(): the signal carries the Digest property *)
(* as the getter answers it now.                                            *)
Announce(result) ==
    /\ signal' = [rt |-> rt, result |-> result, digest |-> digest[rt]]
    /\ dummyfd' = "none"
    /\ rpc' = "idle"
    /\ UNCHANGED <<readerVars, rt, buf, page, loopVars, taken, sound, digest,
                   genuine>>

(* The label exit: the temporary file is removed if it was opened.          *)
Finish ==
    /\ rpc \in {"hashed", "failed"}
    /\ Announce(IF rpc = "hashed" THEN "ok" ELSE "failed")
    /\ IF dummyfd = "open"
         THEN file' = NoFile /\ leftover' = NoFile
         ELSE UNCHANGED <<file, leftover>>

(* unlink() fails: so does the computation.                                 *)
FinishUnlinkFails ==
    /\ rpc \in {"hashed", "failed"}
    /\ dummyfd = "open"
    /\ Announce("failed")
    /\ leftover' = file
    /\ UNCHANGED file

(* The service is killed, is stopped for nvidia-fpga-notready, or its loop  *)
(* returns an error: what it had in memory is gone.                         *)
Stop ==
    /\ rpc # "down"
    /\ rpc' = "down"
    /\ digest' = [r \in Retimers |-> NoDigest]
    /\ signal' = NoSignal
    /\ genuine' = {}
    /\ dummyfd' = "none"
    /\ buf' = BlankMemory
    /\ page' = 0
    /\ attempt' = 0
    /\ timeout' = 0
    /\ rsp' = {}
    /\ taken' = NoRetimer
    /\ sound' = NoRetimer
    /\ UNCHANGED <<readerVars, rt, file, leftover>>

(* Mutant: the file is not removed on the way.                              *)
RestartKeepsFile ==
    /\ rpc = "down"
    /\ rpc' = "idle"
    /\ UNCHANGED <<readerVars, rt, file, dummyfd, buf, page, loopVars, taken,
                   sound, serviceVars>>

(* ExecStopPost=/bin/rm -f /tmp/hash/RetimerFW.dat, Restart=always          *)
Restart ==
    /\ rpc = "down"
    /\ \/ file' = NoFile /\ leftover' = NoFile
       \/ file # NoFile /\ leftover' = file /\ UNCHANGED file
    /\ rpc' = "idle"
    /\ UNCHANGED <<readerVars, rt, dummyfd, buf, page, loopVars, taken, sound,
                   digest, signal, genuine>>

Service ==
    Read \/ HashFile \/ HashFails \/ Finish \/ FinishUnlinkFails \/ Restart
Engine == ReaderStep /\ UNCHANGED <<readVars, serviceVars>>

Next == GetHash \/ Service \/ Stop \/ Engine

(* The steps of the service in which nothing fails.                         *)
Progress ==
    \/ ReadFwProgress /\ UNCHANGED serviceVars
    \/ HashFile \/ Finish \/ Restart

(* The service is scheduled and its calls return, but none has to fail;     *)
(* nobody has to call it, or to stop it, and the FPGA need not do anything. *)
Fairness == WF_vars(Progress)

Spec == Init /\ [][Next]_vars
FairSpec == Spec /\ Fairness

-------------------------------------------------------------------------------
(* Properties.                                                              *)

(* Types, and the bounds of the loops.                                      *)
TypeOK ==
    /\ ReaderTypeOK
    /\ ReadFwTypeOK
    /\ digest \in [Retimers -> Digest]
    /\ signal \in Signal \cup {NoSignal}
    /\ genuine \in SUBSET Retimers
    /\ leftover \in Memory \cup {NoFile}

(* A digest that was computed without NACK, timeout or short write, on a    *)
(* read the FPGA did begin for this computation, is that of the retimer's   *)
(* EEPROM: not of the retimer read before, not of an earlier computation's  *)
(* half-read image, not of the blank file, however many computations and    *)
(* kills of the service went before.                                        *)
DigestGenuine ==
    \A r \in genuine :
        digest[r] # NoDigest => digest[r] = [p \in Pages |-> eeprom[r]]

(* The file that clears the DPRAM is blank, unless the one of an earlier    *)
(* computation could not be removed; also after a kill in mid-computation.  *)
BlankBeforeRead ==
    rpc = "copy_in" /\ leftover = NoFile => buf = BlankMemory

(* "hash computation has failed, send signal with empty property value":    *)
(* true of every failure but that of unlink(), which comes after the digest *)
(* is set.                                                                  *)
FailureSignalledEmpty ==
    signal # NoSignal =>
        (signal.result = "failed" /\ leftover = NoFile =>
            signal.digest = NoDigest)

(* A call that was answered is followed by a signal, or by the end of the   *)
(* service, even if the FPGA hangs.                                         *)
EveryCallSignalled == rpc = "open" ~> rpc \in {"idle", "down"}

(* readRetimerfw(), "RETURN: 0 if success": copying back begins only after  *)
(* an attempt without NACK and timeout.                                     *)
ReadReturnsZeroOnlyOnSuccess == rpc = "copy_out" => rsp = {}

===============================================================================
