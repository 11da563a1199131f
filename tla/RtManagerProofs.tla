---------------------------- MODULE RtManagerProofs ----------------------------
(***************************************************************************)
(* The inventory is that of the file, for every file, proved with TLAPS.    *)
(***************************************************************************)
EXTENDS RtManager, TLAPS

Lists == UNION {[1..n -> Entry] : n \in 0..MaxEntries}

(* Where the service has a list: it is at an entry of it, or behind them.   *)
HasList == pc \in {"entry", "probe"} \/ (pc = "loop" /\ file # Unreadable)

HasBad(e) == Bad \in {e.bus, e.address}

ListInv ==
    /\ pc = "load" => k = 1
    /\ HasList => /\ file \in Lists /\ file # Unreadable
                  /\ k \in 1..(Len(file) + 1)
    /\ pc = "loop" /\ file # Unreadable => k > Len(file)
    /\ pc = "probe" => k <= Len(file) /\ ~HasBad(file[k])
    /\ ~HasList => objects = <<>> /\ announced = {} /\ failed = {}

(* The entry whose object is there but not announced.                       *)
UnderWay == IF pc = "probe" THEN {k} ELSE {}

(* Object x is that of the first good entry of its index, which the service *)
(* has passed or is at.                                                     *)
FromFirst(x) ==
    \E n \in GoodEntries(x) :
        /\ n < k \/ n \in UnderWay
        /\ \A m \in GoodEntries(x) : n <= m
        /\ Describes(file[n], x)

(* The objects are those of the good entries so far.                        *)
ObjectsInv ==
    HasList =>
        /\ announced = {x \in Indexes : \E n \in GoodEntries(x) : n < k}
        /\ DOMAIN objects = announced \cup {file[n].index : n \in UnderWay}
        /\ \A n \in UnderWay : file[n].index \notin announced
        /\ \A x \in DOMAIN objects : FromFirst(x)

(* Field n of object x is filled in, or its command has failed.             *)
Settled(x, n) == Commands[n] \in objects[x].fields <=> <<x, Commands[n]>> \notin failed

(* So are the fields of an object under way up to the next command, from    *)
(* which on nothing has happened.                                           *)
FieldsInv ==
    /\ OnlyFailedFieldsEmpty
    /\ pc = "probe" =>
          \A n \in DOMAIN Commands :
              IF n < command
                THEN Settled(file[k].index, n)
                ELSE /\ Commands[n] \notin objects[file[k].index].fields
                     /\ <<file[k].index, Commands[n]>> \notin failed


-------------------------------------------------------------------------------
(* Lists and objects.                                                       *)

(* The entries of a list.                                                   *)
LEMMA ListType ==
    ASSUME file \in Lists
    PROVE  /\ Len(file) \in 0..MaxEntries
           /\ DOMAIN file = 1..Len(file)
           /\ \A n \in 1..Len(file) : file[n] \in Entry
<1>1. PICK n \in 0..MaxEntries : file \in [1..n -> Entry]
  BY DEF Lists
<1>2. Len(file) = n
  BY <1>1, RtManagerAssumption
<1> QED
  BY <1>1, <1>2

(* The conversion fits every number into a byte and keeps those that fit.   *)
LEMMA NarrowToByte ==
    ASSUME NEW n \in Int
    PROVE  Narrow(n) \in 0..255 /\ (n \in 0..255 => Narrow(n) = n)
BY DEF Narrow

(* The object of a good entry.                                              *)
LEMMA ObjectOfEntry ==
    ASSUME NEW e \in Entry, ~HasBad(e)
    PROVE  /\ NewObject(e) \in Object
           /\ e.bus \in 0..255 => NewObject(e).bus = e.bus
           /\ e.address \in 0..255 => NewObject(e).address = e.address
           /\ NewObject(e).fields = {}
<1>1. e.bus \in Int /\ e.address \in Int
  BY RtManagerAssumption DEF Entry, HasBad
<1>2. /\ Narrow(e.bus) \in 0..255 /\ Narrow(e.address) \in 0..255
      /\ e.bus \in 0..255 => Narrow(e.bus) = e.bus
      /\ e.address \in 0..255 => Narrow(e.address) = e.address
  BY <1>1, NarrowToByte
<1> QED
  BY <1>2 DEF NewObject, Object

(* The four commands have four names.                                       *)
LEMMA DistinctCommands ==
    /\ Len(Commands) = 4 /\ DOMAIN Commands = 1..4
    /\ \A m, n \in 1..4 : Commands[m] = Commands[n] => m = n
BY DEF Commands

(* The entry the service is at, when it is at one.                          *)
LEMMA EntryAt ==
    ASSUME ListInv, pc \in {"entry", "probe"}, k <= Len(file)
    PROVE  /\ k \in DOMAIN file /\ k \in 1..MaxEntries
           /\ file[k] \in Entry /\ file[k].index \in Indexes
BY ListType, RtManagerAssumption DEF ListInv, HasList, Entry

-------------------------------------------------------------------------------
(* Every step keeps the invariant.                                          *)

(* The object an aries-info command is about.                               *)
LEMMA ObjectUnderWay ==
    ASSUME ListInv, ObjectsInv, pc = "probe"
    PROVE  /\ file[k].index \in DOMAIN objects
           /\ DOMAIN objects = announced \cup {file[k].index}
           /\ file[k].index \notin announced
           /\ k <= Len(file)
BY DEF ListInv, ObjectsInv, HasList, UnderWay

(* A field that is added to an object.                                      *)
LEMMA FieldAdded ==
    ASSUME NEW o \in Object, NEW c \in {Commands[n] : n \in DOMAIN Commands}
    PROVE  \A new : new = [o EXCEPT !.fields = o.fields \cup {c}] =>
              /\ new \in Object
              /\ new.bus = o.bus
              /\ new.address = o.address
              /\ new.fields = o.fields \cup {c}
<1> DEFINE fields == o.fields \cup {c}
<1>1. fields \in SUBSET {Commands[n] : n \in DOMAIN Commands}
  BY DEF Object
<1> HIDE DEF fields
<1>2. /\ [o EXCEPT !.fields = fields] \in Object
      /\ [o EXCEPT !.fields = fields].bus = o.bus
      /\ [o EXCEPT !.fields = fields].address = o.address
      /\ [o EXCEPT !.fields = fields].fields = fields
  BY <1>1 DEF Object
<1> QED
  BY <1>2 DEF fields

(* An answer of aries-info fills in one field of one object.                *)
LEMMA ProbeFillsIn ==
    ASSUME TypeOK, ListInv, ObjectsInv, Probe
    PROVE  LET x == file[k].index IN
           /\ DOMAIN objects' = DOMAIN objects
           /\ \A y \in DOMAIN objects : objects'[y] \in Object
           /\ \A y \in DOMAIN objects \ {x} : objects'[y] = objects[y]
           /\ objects'[x].bus = objects[x].bus
           /\ objects'[x].address = objects[x].address
           /\ objects'[x].fields = objects[x].fields \cup {Commands[command]}
<1> DEFINE x == file[k].index
           c == Commands[command]
<1>1. x \in DOMAIN objects
  BY ObjectUnderWay DEF Probe
<1>2. c \in {Commands[n] : n \in DOMAIN Commands}
  BY DistinctCommands DEF Probe, TypeOK
<1>3. objects' = [objects EXCEPT ![x].fields = @ \cup {c}]
  BY DEF Probe
<1>4. \A y \in DOMAIN objects : objects[y] \in Object
  BY DEF TypeOK
<1> HIDE DEF x, c
<1>5. DOMAIN objects' = DOMAIN objects
  BY <1>3, Zenon
<1>6. \A y \in DOMAIN objects :
        objects'[y] = IF y = x
                        THEN [objects[x] EXCEPT !.fields = objects[x].fields \cup {c}]
                        ELSE objects[y]
  BY <1>3, Zenon
<1>7. /\ objects'[x] \in Object
      /\ objects'[x].bus = objects[x].bus
      /\ objects'[x].address = objects[x].address
      /\ objects'[x].fields = objects[x].fields \cup {c}
  <2>1. objects[x] \in Object
    BY <1>1, <1>4
  <2>2. objects'[x] = [objects[x] EXCEPT !.fields = objects[x].fields \cup {c}]
    BY <1>1, <1>6, Zenon
  <2> QED
    BY <1>2, <2>1, <2>2, FieldAdded, Zenon
<1>8. \A y \in DOMAIN objects \ {x} : objects'[y] = objects[y]
  BY <1>6
<1>9. \A y \in DOMAIN objects : objects'[y] \in Object
  BY <1>4, <1>7, <1>8
<1> QED
  BY <1>5, <1>7, <1>8, <1>9 DEF x, c

(* The types.                                                               *)
LEMMA TypeStep ==
    ASSUME TypeOK, ListInv, ObjectsInv, [Next]_vars
    PROVE  TypeOK'
<1> USE RtManagerAssumption DEF TypeOK
<1>1. CASE Load
  BY <1>1 DEF Load
<1>2. CASE SkipEntry
  BY <1>2, EntryAt DEF SkipEntry
<1>3. CASE MakeObject
  <2>1. /\ file[k] \in Entry /\ file[k].index \in Indexes /\ ~HasBad(file[k])
    BY <1>3, EntryAt DEF MakeObject, Refused, HasBad
  <2>2. NewObject(file[k]) \in Object
    BY <2>1, ObjectOfEntry
  <2> QED
    BY <1>3, <2>1, <2>2, DistinctCommands DEF MakeObject
<1>4. CASE Probe
  <2>1. DOMAIN objects' = DOMAIN objects /\ \A x \in DOMAIN objects' : objects'[x] \in Object
    BY <1>4, ProbeFillsIn
  <2>2. /\ command' \in 1..(Len(Commands) + 1)
        /\ UNCHANGED <<file, pc, k, announced, failed>>
    BY <1>4, DistinctCommands DEF Probe
  <2> QED
    BY <2>1, <2>2
<1>5. CASE ProbeFails
  <2>1. file[k].index \in DOMAIN objects
    BY <1>5, ObjectUnderWay DEF ProbeFails
  <2> QED
    BY <1>5, <2>1, DistinctCommands DEF ProbeFails
<1>6. CASE EmitObjectAdded
  <2>1. file[k].index \in DOMAIN objects /\ k \in 1..MaxEntries
    BY <1>6, EntryAt, ObjectUnderWay DEF EmitObjectAdded
  <2> QED
    BY <1>6, <2>1 DEF EmitObjectAdded
<1>7. CASE EnterLoop
  BY <1>7 DEF EnterLoop
<1>8. CASE Restart
  BY <1>8, DistinctCommands DEF Restart
<1>9. CASE UNCHANGED vars
  BY <1>9 DEF vars
<1> QED
  BY <1>1, <1>2, <1>3, <1>4, <1>5, <1>6, <1>7, <1>8, <1>9 DEF Next

(* Where the service is in the list.                                        *)
LEMMA ListStep ==
    ASSUME TypeOK, ListInv, [Next]_vars
    PROVE  ListInv'
<1> USE DEF HasList
<1>1. CASE Load
  <2>1. /\ pc = "load" /\ k = 1 /\ objects = <<>> /\ announced = {} /\ failed = {}
        /\ UNCHANGED <<file, k, objects, announced, failed>>
    BY <1>1 DEF Load, ListInv
  <2>2. /\ pc' \in {"loop", "ended", "entry"}
        /\ pc' = "entry" => file \in Lists /\ file # Unreadable
        /\ pc' = "loop" => file = Unreadable
    BY <1>1 DEF Load, TypeOK, Files, Lists
  <2>3. file \in Lists => k \in 1..(Len(file) + 1)
    BY <2>1, ListType
  <2> QED
    BY <2>1, <2>2, <2>3 DEF ListInv
<1>2. CASE SkipEntry
  BY <1>2, ListType DEF SkipEntry, ListInv
<1>3. CASE MakeObject
  BY <1>3 DEF MakeObject, Refused, HasBad, ListInv
<1>4. CASE Probe
  BY <1>4 DEF Probe, ListInv
<1>5. CASE ProbeFails
  BY <1>5 DEF ProbeFails, ListInv
<1>6. CASE EmitObjectAdded
  BY <1>6, ListType DEF EmitObjectAdded, ListInv
<1>7. CASE EnterLoop
  BY <1>7 DEF EnterLoop, ListInv
<1>8. CASE Restart
  BY <1>8 DEF Restart, ListInv
<1>9. CASE UNCHANGED vars
  BY <1>9 DEF vars, ListInv
<1> QED
  BY <1>1, <1>2, <1>3, <1>4, <1>5, <1>6, <1>7, <1>8, <1>9 DEF Next

(* The object of a good entry says the same after a step that leaves the    *)
(* list, the object's numbers and what the service has passed as they are.  *)
LEMMA FromFirstKept ==
    ASSUME NEW x, FromFirst(x), ListInv, HasList,
           file' = file, k' \in {k, k + 1},
           UnderWay \subseteq UnderWay' \cup (IF k' = k THEN {} ELSE {k}),
           objects'[x].bus = objects[x].bus,
           objects'[x].address = objects[x].address
    PROVE  FromFirst(x)'
<1>1. PICK n \in GoodEntries(x) : /\ n < k \/ n \in UnderWay
                                  /\ \A m \in GoodEntries(x) : n <= m
                                  /\ Describes(file[n], x)
  BY DEF FromFirst
<1>2. GoodEntries(x)' = GoodEntries(x)
  BY DEF GoodEntries
<1>3. Describes(file[n], x)'
  BY <1>1 DEF Describes
<1>4. n < k' \/ n \in UnderWay'
  <2>1. CASE n < k
    <3>1. n \in Int /\ k \in Int
      BY <1>1, ListType DEF GoodEntries, ListInv
    <3> QED
      BY <2>1, <3>1
  <2>2. CASE n \in UnderWay
    <3>1. n = k \/ n \in UnderWay'
      BY <2>2
    <3>2. k \in Int
      BY ListType DEF ListInv
    <3>3. n \notin UnderWay' => n = k /\ k' = k + 1
      BY <2>2, <3>1
    <3> QED
      BY <3>2, <3>3
  <2> QED
    BY <1>1, <2>1, <2>2
<1> QED
  BY <1>1, <1>2, <1>3, <1>4 DEF FromFirst

(* The objects and the list.                                                *)
LEMMA ObjectsStep ==
    ASSUME TypeOK, ListInv, ObjectsInv, [Next]_vars
    PROVE  ObjectsInv'
<1>1. CASE Load
  <2> SUFFICES ASSUME HasList' PROVE ObjectsInv'
    BY DEF ObjectsInv
  <2>1. /\ pc = "load" /\ k = 1 /\ objects = <<>> /\ announced = {}
        /\ UNCHANGED <<file, k, objects, announced>> /\ pc' # "probe"
    BY <1>1 DEF Load, ListInv, HasList
  <2>2. file \in Lists
    BY <1>1 DEF Load, TypeOK, Files, Lists, HasList
  <2>3. \A x : \A n \in GoodEntries(x) : ~(n < k)
    BY <2>1, <2>2, ListType DEF GoodEntries
  <2>4. UnderWay' = {} /\ \A x : GoodEntries(x)' = GoodEntries(x)
    BY <2>1 DEF UnderWay, GoodEntries
  <2>5. DOMAIN objects = {}
    BY <2>1
  <2> QED
    BY <2>1, <2>3, <2>4, <2>5 DEF ObjectsInv
<1>2. CASE SkipEntry
  <2> SUFFICES ASSUME HasList' PROVE ObjectsInv'
    BY DEF ObjectsInv
  <2>1. /\ pc = "entry" /\ k \in DOMAIN file /\ k' = k + 1 /\ k \in Int
        /\ UNCHANGED <<file, pc, objects, announced>> /\ Refused(file[k])
    BY <1>2, EntryAt DEF SkipEntry
  <2>2. /\ announced = {x \in Indexes : \E n \in GoodEntries(x) : n < k}
        /\ DOMAIN objects = announced
        /\ \A x \in DOMAIN objects : FromFirst(x)
    BY <2>1 DEF ObjectsInv, HasList, UnderWay
  <2>3. \A x : GoodEntries(x)' = GoodEntries(x) /\ GoodEntries(x) \subseteq Int
    BY <1>2, <2>1, ListType DEF GoodEntries, ListInv, HasList
  <2>4. \A x : k \in GoodEntries(x) => x \in announced
    BY <2>1, <2>2 DEF Refused, GoodEntries
  <2>5. announced = {x \in Indexes : \E n \in GoodEntries(x) : n < k + 1}
    BY <2>1, <2>2, <2>3, <2>4
  <2>6. UnderWay = {} /\ UnderWay' = {}
    BY <2>1 DEF UnderWay
  <2>7. \A x \in DOMAIN objects : FromFirst(x)'
    BY <2>1, <2>2, <2>6, FromFirstKept DEF HasList
  <2> QED
    BY <2>1, <2>2, <2>3, <2>5, <2>6, <2>7 DEF ObjectsInv
<1>3. CASE MakeObject
  <2> DEFINE e == file[k]
             i == file[k].index
  <2>1. /\ pc = "entry" /\ pc' = "probe" /\ k \in DOMAIN file /\ k \in Int
        /\ UNCHANGED <<file, k, announced>>
        /\ e \in Entry /\ i \in Indexes
        /\ ~HasBad(e) /\ i \notin DOMAIN objects
    BY <1>3, EntryAt DEF MakeObject, Refused, HasBad
  <2>2. /\ announced = {x \in Indexes : \E n \in GoodEntries(x) : n < k}
        /\ DOMAIN objects = announced
        /\ \A x \in DOMAIN objects : FromFirst(x)
    BY <2>1 DEF ObjectsInv, HasList, UnderWay
  <2>3. \A x : GoodEntries(x)' = GoodEntries(x) /\ GoodEntries(x) \subseteq Int
    BY <1>3, <2>1, ListType DEF GoodEntries, ListInv, HasList
  <2>4. UnderWay = {} /\ UnderWay' = {k}
    BY <2>1 DEF UnderWay
  <2>5. /\ DOMAIN objects' = DOMAIN objects \cup {i}
        /\ objects'[i] = NewObject(e)
        /\ \A x \in DOMAIN objects : objects'[x] = objects[x]
    BY <1>3, <2>1 DEF MakeObject
  <2>6. \A x \in DOMAIN objects : FromFirst(x)'
    BY <2>1, <2>2, <2>4, <2>5, FromFirstKept DEF HasList
  <2>7. FromFirst(i)'
    <3>1. k \in GoodEntries(i)
      BY <2>1 DEF GoodEntries, HasBad
    <3>2. \A m \in GoodEntries(i) : k <= m
      BY <2>1, <2>2, <2>3
    <3>3. Describes(file[k], i)'
      BY <2>1, <2>5, ObjectOfEntry DEF Describes
    <3> QED
      BY <2>1, <2>3, <2>4, <3>1, <3>2, <3>3 DEF FromFirst
  <2>8. announced' = {x \in Indexes : \E n \in GoodEntries(x)' : n < k'}
    BY <2>1, <2>2, <2>3
  <2>9. DOMAIN objects' = announced' \cup {file'[n].index : n \in UnderWay'}
    BY <2>1, <2>2, <2>4, <2>5
  <2> QED
    BY <2>1, <2>2, <2>4, <2>5, <2>6, <2>7, <2>8, <2>9 DEF ObjectsInv
<1>4. CASE Probe
  <2> SUFFICES ASSUME HasList' PROVE ObjectsInv'
    BY DEF ObjectsInv
  <2>1. /\ pc = "probe" /\ k \in Int
        /\ UNCHANGED <<file, pc, k, announced>>
    BY <1>4 DEF Probe, TypeOK
  <2>2. \A x : GoodEntries(x)' = GoodEntries(x)
    BY <2>1 DEF GoodEntries
  <2>3. UnderWay' = UnderWay
    BY <2>1 DEF UnderWay
  <2>4. /\ DOMAIN objects' = DOMAIN objects
        /\ \A x \in DOMAIN objects : /\ objects'[x].bus = objects[x].bus
                                     /\ objects'[x].address = objects[x].address
    BY <1>4, ProbeFillsIn
  <2>5. \A x \in DOMAIN objects : FromFirst(x)'
    BY <2>1, <2>3, <2>4, FromFirstKept DEF ObjectsInv, HasList
  <2> QED
    BY <2>1, <2>2, <2>3, <2>4, <2>5 DEF ObjectsInv, HasList
<1>5. CASE EmitObjectAdded
  <2> DEFINE i == file[k].index
  <2>1. /\ pc = "probe" /\ pc' = "entry" /\ k' = k + 1 /\ k \in Int
        /\ k \in DOMAIN file /\ i \in Indexes
        /\ announced' = announced \cup {i}
        /\ UNCHANGED <<file, objects>>
    BY <1>5, EntryAt DEF EmitObjectAdded, ListInv
  <2>2. /\ announced = {x \in Indexes : \E n \in GoodEntries(x) : n < k}
        /\ DOMAIN objects = announced \cup {i}
        /\ \A x \in DOMAIN objects : FromFirst(x)
    BY <2>1 DEF ObjectsInv, HasList, UnderWay
  <2>3. \A x : GoodEntries(x)' = GoodEntries(x) /\ GoodEntries(x) \subseteq Int
    BY <2>1, ListType DEF GoodEntries, ListInv, HasList
  <2>4. \A x : k \in GoodEntries(x) <=> x = i
    BY <2>1 DEF GoodEntries, ListInv, HasBad
  <2>5. announced' = {x \in Indexes : \E n \in GoodEntries(x) : n < k + 1}
    <3>1. \A x : \A n \in GoodEntries(x) : n < k + 1 <=> n < k \/ n = k
      BY <2>1, <2>3
    <3> QED
      BY <2>1, <2>2, <2>4, <3>1
  <2>6. UnderWay = {k} /\ UnderWay' = {}
    BY <2>1 DEF UnderWay
  <2>7. \A x \in DOMAIN objects : FromFirst(x)'
    BY <2>1, <2>2, <2>6, FromFirstKept DEF HasList
  <2> QED
    BY <2>1, <2>2, <2>3, <2>5, <2>6, <2>7 DEF ObjectsInv
<1>6. CASE Restart
  BY <1>6 DEF Restart, ObjectsInv, HasList
<1>7. ASSUME ProbeFails \/ EnterLoop \/ UNCHANGED vars
      PROVE  ObjectsInv'
  <2> SUFFICES ASSUME HasList' PROVE ObjectsInv'
    BY DEF ObjectsInv
  <2>1. UNCHANGED <<file, k, announced, objects>> /\ k \in Int
    BY <1>7 DEF ProbeFails, EnterLoop, vars, TypeOK
  <2>2. HasList /\ UnderWay' = UnderWay
    BY <1>7 DEF ProbeFails, EnterLoop, vars, HasList, UnderWay
  <2>3. \A x : GoodEntries(x)' = GoodEntries(x)
    BY <2>1 DEF GoodEntries
  <2>4. \A x \in DOMAIN objects : FromFirst(x)'
    BY <2>1, <2>2, FromFirstKept DEF ObjectsInv
  <2> QED
    BY <2>1, <2>2, <2>3, <2>4 DEF ObjectsInv
<1> QED
  BY <1>1, <1>2, <1>3, <1>4, <1>5, <1>6, <1>7 DEF Next

(* The fields.                                                              *)
LEMMA FieldsStep ==
    ASSUME TypeOK, ListInv, ObjectsInv, FieldsInv, [Next]_vars
    PROVE  FieldsInv'
<1> DEFINE x == file[k].index
<1>0. /\ command \in 1..5 /\ k \in Int
      /\ announced \subseteq DOMAIN objects
      /\ \A f \in failed : f[1] \in DOMAIN objects
  BY DistinctCommands DEF TypeOK
<1>1. CASE Load \/ Restart
  <2>1. CASE Load
    BY <2>1 DEF Load, FieldsInv, OnlyFailedFieldsEmpty
  <2>2. CASE Restart
    BY <2>2 DEF Restart, FieldsInv, OnlyFailedFieldsEmpty
  <2> QED
    BY <1>1, <2>1, <2>2
<1>2. CASE SkipEntry \/ EnterLoop \/ UNCHANGED vars
  BY <1>2 DEF SkipEntry, EnterLoop, vars, FieldsInv, OnlyFailedFieldsEmpty,
              Settled
<1>3. CASE MakeObject
  <2>1. /\ pc = "entry" /\ pc' = "probe" /\ command' = 1
        /\ UNCHANGED <<file, k, announced, failed>>
        /\ ~HasBad(file[k]) /\ x \notin DOMAIN objects
    BY <1>3 DEF MakeObject, Refused, HasBad
  <2>2. /\ objects'[x] = NewObject(file[k])
        /\ \A y \in announced : objects'[y] = objects[y]
    BY <1>0, <1>3, <2>1 DEF MakeObject
  <2>3. OnlyFailedFieldsEmpty'
    BY <2>1, <2>2 DEF FieldsInv, OnlyFailedFieldsEmpty
  <2>4. \A n \in DOMAIN Commands : <<x, Commands[n]>> \notin failed
    BY <1>0, <2>1
  <2>5. objects'[x].fields = {}
    BY <2>2 DEF NewObject
  <2>6. \A n \in DOMAIN Commands : ~(n < command')
    BY <2>1, DistinctCommands
  <2> QED
    BY <2>1, <2>3, <2>4, <2>5, <2>6 DEF FieldsInv
<1>4. CASE Probe \/ ProbeFails
  <2> DEFINE c == Commands[command]
  <2>1. /\ pc = "probe" /\ pc' = "probe" /\ command' = command + 1
        /\ command \in 1..4
        /\ UNCHANGED <<file, k, announced>>
        /\ x \notin announced /\ x \in DOMAIN objects
    BY <1>0, <1>4, DistinctCommands, ObjectUnderWay DEF Probe, ProbeFails
  <2>2. \/ failed' = failed /\ objects'[x].fields = objects[x].fields \cup {c}
        \/ failed' = failed \cup {<<x, c>>} /\ objects'[x].fields = objects[x].fields
    BY <1>4, ProbeFillsIn DEF Probe, ProbeFails
  <2>3. \A y \in announced :
          /\ objects'[y] = objects[y]
          /\ \A n \in DOMAIN Commands :
                <<y, Commands[n]>> \in failed' <=> <<y, Commands[n]>> \in failed
    <3>1. CASE Probe
      <4>1. UNCHANGED failed
        BY <3>1 DEF Probe
      <4> QED
        BY <1>0, <2>1, <3>1, <4>1, ProbeFillsIn
    <3>2. CASE ProbeFails
      BY <2>1, <3>2 DEF ProbeFails
    <3> QED
      BY <1>4, <3>1, <3>2
  <2>4. OnlyFailedFieldsEmpty'
    BY <2>1, <2>3 DEF FieldsInv, OnlyFailedFieldsEmpty
  <2>5. ASSUME NEW n \in DOMAIN Commands
        PROVE  IF n < command'
                 THEN Settled(x, n)'
                 ELSE /\ Commands[n] \notin objects'[x].fields
                      /\ <<x, Commands[n]>> \notin failed'
    <3>1. n \in 1..4 /\ (n < command' <=> n < command \/ n = command)
      BY <2>1, DistinctCommands
    <3>2. IF n < command
            THEN Settled(x, n)
            ELSE /\ Commands[n] \notin objects[x].fields
                 /\ <<x, Commands[n]>> \notin failed
      BY <2>1 DEF FieldsInv
    <3>3. n # command => Commands[n] # c
      BY <2>1, <3>1, DistinctCommands
    <3>4. UNCHANGED x
      BY <2>1
    <3> HIDE DEF x, c
    <3>5. CASE n = command
      <4>1. ~(n < command) /\ c = Commands[n]
        BY <2>1, <3>5 DEF c
      <4>2. Commands[n] \in objects'[x].fields <=> <<x, Commands[n]>> \notin failed'
        BY <2>2, <3>2, <4>1
      <4> QED
        BY <3>1, <3>4, <3>5, <4>2 DEF Settled
    <3>6. CASE n # command
      <4>1. /\ Commands[n] \in objects'[x].fields <=> Commands[n] \in objects[x].fields
            /\ <<x, Commands[n]>> \in failed' <=> <<x, Commands[n]>> \in failed
        BY <2>2, <3>3, <3>6
      <4> QED
        BY <3>1, <3>2, <3>4, <3>6, <4>1 DEF Settled
    <3> QED
      BY <3>5, <3>6
  <2> QED
    BY <2>1, <2>4, <2>5 DEF FieldsInv
<1>5. CASE EmitObjectAdded
  <2>1. /\ pc = "probe" /\ pc' = "entry" /\ announced' = announced \cup {x}
        /\ command = 5
        /\ UNCHANGED <<file, objects, failed>>
    BY <1>0, <1>5, DistinctCommands DEF EmitObjectAdded
  <2>2. \A n \in DOMAIN Commands : n < command
    BY <2>1, DistinctCommands
  <2>3. \A n \in DOMAIN Commands : Settled(x, n)
    BY <2>1, <2>2 DEF FieldsInv
  <2> QED
    BY <2>1, <2>3 DEF FieldsInv, OnlyFailedFieldsEmpty, Settled
<1> QED
  BY <1>1, <1>2, <1>3, <1>4, <1>5 DEF Next

-------------------------------------------------------------------------------

ManagerInv == TypeOK /\ ListInv /\ ObjectsInv /\ FieldsInv

(* The invariant of the inventory service.                                  *)
THEOREM ManagerInvariance == Spec => []ManagerInv
<1>1. Init => ManagerInv
  <2> SUFFICES ASSUME Init PROVE ManagerInv
    OBVIOUS
  <2> USE DEF Init
  <2>1. TypeOK
    BY RtManagerAssumption, DistinctCommands DEF TypeOK
  <2>2. ListInv /\ ObjectsInv
    BY DEF ListInv, ObjectsInv, HasList
  <2>3. FieldsInv
    BY DEF FieldsInv, OnlyFailedFieldsEmpty
  <2> QED
    BY <2>1, <2>2, <2>3 DEF ManagerInv
<1>2. ManagerInv /\ [Next]_vars => ManagerInv'
  BY TypeStep, ListStep, ObjectsStep, FieldsStep DEF ManagerInv
<1> QED
  BY <1>1, <1>2, PTL DEF Spec

(* The types of the service; an aries-info that failed was about an object. *)
THEOREM ManagerTypes == Spec => []TypeOK
<1>1. ManagerInv => TypeOK
  BY DEF ManagerInv
<1> QED
  BY <1>1, ManagerInvariance, PTL

(* Whatever the file holds, the service that serves has announced one       *)
(* object per index with a good entry, and it is that of the first.         *)
THEOREM FirstGoodEntries == Spec => []InventoryOfFile
<1>1. ManagerInv => InventoryOfFile
  <2> SUFFICES ASSUME ManagerInv, pc = "loop", file # Unreadable
               PROVE  /\ announced = {x \in Indexes : GoodEntries(x) # {}}
                      /\ announced = DOMAIN objects
                      /\ \A x \in announced :
                            \E n \in GoodEntries(x) :
                                /\ \A m \in GoodEntries(x) : n <= m
                                /\ Describes(file[n], x)
    BY DEF InventoryOfFile
  <2>1. HasList /\ UnderWay = {} /\ file \in Lists /\ k > Len(file) /\ k \in Int
    BY DEF ManagerInv, HasList, UnderWay, ListInv, TypeOK
  <2>2. \A x : \A n \in GoodEntries(x) : n < k
    BY <2>1, ListType DEF GoodEntries
  <2>3. announced = {x \in Indexes : \E n \in GoodEntries(x) : n < k}
    BY <2>1 DEF ManagerInv, ObjectsInv
  <2>4. announced = DOMAIN objects /\ \A x \in DOMAIN objects : FromFirst(x)
    BY <2>1 DEF ManagerInv, ObjectsInv
  <2> QED
    BY <2>2, <2>3, <2>4 DEF FromFirst
<1> QED
  BY <1>1, ManagerInvariance, PTL

(* No failure of another command empties a field.                           *)
THEOREM FieldsFilled == Spec => []OnlyFailedFieldsEmpty
<1>1. ManagerInv => OnlyFailedFieldsEmpty
  BY DEF ManagerInv, FieldsInv
<1> QED
  BY <1>1, ManagerInvariance, PTL

===============================================================================
