------------------------------- MODULE RtManager -------------------------------
(***************************************************************************)
(* nvidia-rt-monitor: the start of the inventory service.  RtManager reads  *)
(* the list of retimers from a JSON file and makes a D-Bus object of each   *)
(* entry; Retimer fills it in with what the command aries-info answers.     *)
(* Then main() enters its event loop for good.  systemd restarts a service  *)
(* that ends.                                                               *)
(***************************************************************************)
EXTENDS Integers, Sequences

CONSTANTS
    Indexes,     \* the values of "Index"
    Numbers,     \* the numbers "Bus" and "Address" may hold
    Bad,         \* a field that is missing, no string or no number
    Unreadable,  \* a file that is not there or does not parse
    NoList,      \* a file without "RT"
    MaxEntries   \* bound: the entries of the file

ASSUME RtManagerAssumption ==
    /\ Numbers \subseteq Int
    /\ Bad \notin Numbers
    /\ MaxEntries \in Nat

VARIABLES
    file,      \* the JSON file: its list "RT", or why there is none
    pc,        \* where the service is
    k,         \* the entry it is at (from 1)
    command,   \* the aries-info command it is at (from 1)
    objects,   \* rtInvs by the index in the path: bus, address, and the
               \* commands that filled in their field
    announced, \* the objects of which InterfacesAdded has told
    failed     \* history: index and command of every aries-info that failed

vars == <<file, pc, k, command, objects, announced, failed>>

Entry == [index : Indexes, bus : Numbers \cup {Bad}, address : Numbers \cup {Bad}]
Files == {Unreadable, NoList}
            \cup UNION {[1..n -> Entry] : n \in 0..MaxEntries}

Commands == <<"manufacturer", "model", "pn", "serial">>

(* Mutant: no conversion. *)
NarrowNone(n) == n

(* The conversion of the int of stoi() to uint8_t.                          *)
Narrow(n) == n % 256

Init ==
    /\ file \in Files
    /\ pc = "load"
    /\ k = 1
    /\ command = 1
    /\ objects = <<>>
    /\ announced = {}
    /\ failed = {}

-------------------------------------------------------------------------------

(* loadJSONFile().  Without a file the service has no objects; without "RT" *)
(* at() throws, which ends the constructor and main().                      *)
Load ==
    /\ pc = "load"
    /\ pc' = CASE file = Unreadable -> "loop"
               [] file = NoList -> "ended"
               [] OTHER -> "entry"
    /\ UNCHANGED <<file, k, command, objects, announced, failed>>

(* Mutant: a second entry of an index replaces the object of the first.     *)
RefusedLastWins(e) == Bad \in {e.bus, e.address}

(* A field that throws, or a path that is taken: the bus refuses the second *)
(* object.  The search in rtInvs would too, but compares with inventoryPath,*)
(* which nothing sets.                                                      *)
Refused(e) == Bad \in {e.bus, e.address} \/ e.index \in DOMAIN objects

(* Mutant: the exception is not caught within the loop.                     *)
SkipEntryDies ==
    /\ pc = "entry"
    /\ k <= Len(file)
    /\ Refused(file[k])
    /\ pc' = "ended"
    /\ UNCHANGED <<file, k, command, objects, announced, failed>>

SkipEntry ==
    /\ pc = "entry"
    /\ k <= Len(file)
    /\ Refused(file[k])
    /\ k' = k + 1
    /\ UNCHANGED <<file, pc, command, objects, announced, failed>>

(* The object of an entry whose fields are there.                           *)
NewObject(e) ==
    [bus |-> Narrow(e.bus), address |-> Narrow(e.address), fields |-> {}]

(* The constructor of Retimer registers its interfaces at the path.         *)
MakeObject ==
    /\ pc = "entry"
    /\ k <= Len(file)
    /\ ~Refused(file[k])
    /\ objects' = [x \in DOMAIN objects \cup {file[k].index} |->
                      IF x = file[k].index THEN NewObject(file[k])
                                           ELSE objects[x]]
    /\ command' = 1
    /\ pc' = "probe"
    /\ UNCHANGED <<file, k, announced, failed>>

(* runCommand(): an answer fills in the field.                              *)
Probe ==
    /\ pc = "probe"
    /\ command <= Len(Commands)
    /\ objects' = [objects EXCEPT ![file[k].index].fields = @ \cup {Commands[command]}]
    /\ command' = command + 1
    /\ UNCHANGED <<file, pc, k, announced, failed>>

(* Mutant: a command that fails is the last.                                *)
ProbeFailsForGood ==
    /\ pc = "probe"
    /\ command <= Len(Commands)
    /\ failed' = failed \cup {<<file[k].index, Commands[command]>>}
    /\ command' = Len(Commands) + 1
    /\ UNCHANGED <<file, pc, k, objects, announced>>

(* No answer: the field stays empty, and nothing asks again.                *)
ProbeFails ==
    /\ pc = "probe"
    /\ command <= Len(Commands)
    /\ failed' = failed \cup {<<file[k].index, Commands[command]>>}
    /\ command' = command + 1
    /\ UNCHANGED <<file, pc, k, objects, announced>>

EmitObjectAdded ==
    /\ pc = "probe"
    /\ command > Len(Commands)
    /\ announced' = announced \cup {file[k].index}
    /\ k' = k + 1
    /\ pc' = "entry"
    /\ UNCHANGED <<file, command, objects, failed>>

(* The list is done: event.loop().                                          *)
EnterLoop ==
    /\ pc = "entry"
    /\ k > Len(file)
    /\ pc' = "loop"
    /\ UNCHANGED <<file, k, command, objects, announced, failed>>

(* Restart=always; the objects went with the process.                       *)
Restart ==
    /\ pc = "ended"
    /\ pc' = "load"
    /\ k' = 1
    /\ command' = 1
    /\ objects' = <<>>
    /\ announced' = {}
    /\ failed' = {}
    /\ UNCHANGED file

Next ==
    \/ Load \/ SkipEntry \/ MakeObject \/ Probe \/ ProbeFails
    \/ EmitObjectAdded \/ EnterLoop \/ Restart
    \/ pc = "loop" /\ UNCHANGED vars

Spec == Init /\ [][Next]_vars

(* The service is scheduled, and aries-info comes to an end.                *)
FairSpec == Spec /\ WF_vars(Next)

-------------------------------------------------------------------------------
(* Properties.                                                              *)

Object == [bus : 0..255, address : 0..255,
           fields : SUBSET {Commands[n] : n \in DOMAIN Commands}]

TypeOK ==
    /\ file \in Files
    /\ pc \in {"load", "entry", "probe", "loop", "ended"}
    /\ k \in 1..(MaxEntries + 1)
    /\ command \in 1..(Len(Commands) + 1)
    /\ DOMAIN objects \in SUBSET Indexes
    /\ \A x \in DOMAIN objects : objects[x] \in Object
    /\ announced \in SUBSET DOMAIN objects
    /\ \A f \in failed : f[1] \in DOMAIN objects

(* The good entries of an index, and the fact that object x is the one that *)
(* entry e describes, as far as its numbers fit a byte.                     *)
GoodEntries(x) ==
    {n \in DOMAIN file : file[n].index = x /\ Bad \notin {file[n].bus, file[n].address}}
Describes(e, x) ==
    /\ e.bus \in 0..255 => objects[x].bus = e.bus
    /\ e.address \in 0..255 => objects[x].address = e.address

(* When the service has a list and has come to serve, it has announced one  *)
(* object for every index that some good entry of the list has, the one of  *)
(* the first such entry: neither a bad entry before it nor another good one *)
(* behind it, a second object at the same path, takes it away.              *)
InventoryOfFile ==
    pc = "loop" /\ file # Unreadable =>
        /\ announced = {x \in Indexes : GoodEntries(x) # {}}
        /\ announced = DOMAIN objects
        /\ \A x \in announced :
              \E n \in GoodEntries(x) :
                  /\ \A m \in GoodEntries(x) : n <= m
                  /\ Describes(file[n], x)

(* Of an object that is announced only those fields are empty whose own     *)
(* command failed, whichever commands failed before it, for this retimer or *)
(* another.                                                                 *)
OnlyFailedFieldsEmpty ==
    \A x \in announced : \A n \in DOMAIN Commands :
        Commands[n] \in objects[x].fields <=> <<x, Commands[n]>> \notin failed

(* Whatever entries the list has, the service comes to serve it; a file     *)
(* without "RT" makes it end and start again for ever.                      *)
Serves == file # NoList => <>(pc = "loop")

===============================================================================
