------------------------------ MODULE RetimerApp ------------------------------
(***************************************************************************)
(* nvidia-retimer-app: keeps two D-Bus properties of every retimer, the SKU *)
(* made of its switch's DeviceId and VendorId, and the SoftwareId of its    *)
(* firmware object.  The application scans what is there when it starts,    *)
(* then subscribes to two signals, and retries nothing.                     *)
(*                                                                          *)
(* A D-Bus round trip is a step.  The service that owns the objects creates *)
(* and changes them meanwhile, and the object mapper, without which the     *)
(* application finds no service to talk to, learns of them later: both are  *)
(* environment.  Any call may fail, whoever is at fault; the application    *)
(* swallows that.  Objects are not removed, and ids have their "0x".        *)
(***************************************************************************)
EXTENDS Naturals, Sequences

CONSTANTS
    NumOfRetimers,  \* numOfRetimers (8)
    Ids,            \* what DeviceId and VendorId may be
    Empty,          \* the empty string: an id that is not known yet
    Absent,         \* the object is not there
    NoSKU,          \* the SKU before anyone sets it
    MaxChanges,     \* bound: how often the owner changes an id
    MaxRestarts     \* bound: how often the application dies

ASSUME RetimerAppAssumption ==
    /\ NumOfRetimers \in Nat \ {0}
    /\ Empty \notin Ids
    /\ MaxChanges \in Nat
    /\ MaxRestarts \in Nat

VARIABLES
    sw,          \* the switch objects: Absent, or their two ids
    fw,          \* the retimers whose firmware object is there
    known,       \* the objects the mapper knows
    sku,         \* the SKU of each retimer's inventory object
    softwareId,  \* the retimers whose firmware object has the SoftwareId
    changes,     \* the owner's changes so far
    pc,          \* what the application does next
    i,           \* the retimer it is at
    deviceId,    \* deviceId of getSKUId()
    vendorId,    \* vendorId of getSKUId()
    matches,     \* the signals it is subscribed to
    queue,       \* the signals not yet dispatched
    restarts,    \* its restarts so far
    unnoticed,   \* history: the properties concerned by something that
                 \* happened without a signal to the application, after the
                 \* scan had passed and since the last callback looked
    lost         \* history: the properties of which the last look, or the
                 \* setting after it, ended in a call that failed although
                 \* the mapper knew the object

objectVars == <<sw, fw, known, changes>>
propVars == <<sku, softwareId>>
appVars == <<pc, i, deviceId, vendorId, matches, queue, restarts>>
vars == <<objectVars, propVars, appVars, unnoticed, lost>>

Retimers == 0..(NumOfRetimers - 1)
Switch == [dev : Ids \cup {Empty}, ven : Ids \cup {Empty}]
ASSUME SwitchAssumption == Absent \notin Switch
Objects == {"switch", "asset", "software"} \X Retimers
Watched == {"SKU", "SoftwareId"} \X Retimers
Signals == [member : {"PropertiesChanged", "InterfacesAdded"}, rt : Retimers]

(* The objects that are there when the application starts, and of these the *)
(* ones the mapper knows, are any.                                          *)
Init ==
    /\ sw \in [Retimers -> Switch \cup {Absent}]
    /\ fw \in SUBSET Retimers
    /\ known \in SUBSET Objects
    /\ \A r \in Retimers :
          /\ <<"switch", r>> \in known => sw[r] # Absent
          /\ <<"software", r>> \in known => r \in fw
    /\ sku = [r \in Retimers |-> NoSKU]
    /\ softwareId = {}
    /\ changes = 0
    /\ pc = "device"
    /\ i = 0
    /\ deviceId = Empty
    /\ vendorId = Empty
    /\ matches = {}
    /\ queue = <<>>
    /\ restarts = 0
    /\ unnoticed = {}
    /\ lost = {}

-------------------------------------------------------------------------------
(* The owner of the objects, and the mapper.                                *)

(* The scan is still to come to the property.                               *)
Ahead(prop, r) ==
    /\ pc \in {"device", "vendor", "sku", "software"}
    /\ matches = {}
    /\ \/ r > i
       \/ r = i /\ (pc = "device" \/ prop = "SoftwareId")

(* Nothing tells the application, and it will not look of itself.           *)
Miss(prop, r) ==
    unnoticed' = IF Ahead(prop, r) THEN unnoticed ELSE unnoticed \cup {<<prop, r>>}

(* The application gets the signal if it is subscribed.                     *)
Emit(member, prop, r) ==
    IF member \in matches
      THEN /\ queue' = Append(queue, [member |-> member, rt |-> r])
           /\ UNCHANGED unnoticed
      ELSE Miss(prop, r) /\ UNCHANGED queue

(* Nothing subscribes to the InterfacesAdded of a switch.                   *)
CreateSwitch(r) ==
    /\ sw[r] = Absent
    /\ \E ids \in Switch : sw' = [sw EXCEPT ![r] = ids]
    /\ Miss("SKU", r)
    /\ UNCHANGED <<fw, known, changes, propVars, appVars, lost>>

ChangeSwitch(r) ==
    /\ sw[r] # Absent
    /\ changes < MaxChanges
    /\ changes' = changes + 1
    /\ \E id \in Ids \cup {Empty} :
          \/ id # sw[r].dev /\ sw' = [sw EXCEPT ![r].dev = id]
          \/ id # sw[r].ven /\ sw' = [sw EXCEPT ![r].ven = id]
    /\ Emit("PropertiesChanged", "SKU", r)
    /\ UNCHANGED <<fw, known, propVars, pc, i, deviceId, vendorId, matches,
                   restarts, lost>>

CreateSoftware(r) ==
    /\ r \notin fw
    /\ fw' = fw \cup {r}
    /\ Emit("InterfacesAdded", "SoftwareId", r)
    /\ UNCHANGED <<sw, known, changes, propVars, pc, i, deviceId, vendorId,
                   matches, restarts, lost>>

(* The retimer's inventory object, "asset", is there from the start.        *)
Learn(kind, r) ==
    /\ <<kind, r>> \notin known
    /\ kind = "switch" => sw[r] # Absent
    /\ kind = "software" => r \in fw
    /\ known' = known \cup {<<kind, r>>}
    /\ Miss(IF kind = "software" THEN "SoftwareId" ELSE "SKU", r)
    /\ UNCHANGED <<sw, fw, changes, propVars, appVars, lost>>

-------------------------------------------------------------------------------
(* The application.                                                         *)

Scanning == matches = {}

(* getSKUId()'s caller is done: the scan goes on with the firmware object,  *)
(* a callback returns.                                                      *)
LeaveSKU ==
    /\ pc' = IF Scanning THEN "software" ELSE "idle"
    /\ deviceId' = Empty
    /\ vendorId' = Empty

(* getSKUId(): the first Get.  Without a service from the mapper there is   *)
(* nothing to call, nor, in the scan, a path.                               *)
GetDeviceId ==
    /\ pc = "device"
    /\ unnoticed' = unnoticed \ {<<"SKU", i>>}
    /\ lost' = lost \ {<<"SKU", i>>}
    /\ IF <<"switch", i>> \in known
         THEN deviceId' = sw[i].dev /\ pc' = "vendor" /\ UNCHANGED vendorId
         ELSE LeaveSKU
    /\ UNCHANGED <<objectVars, propVars, i, matches, queue, restarts>>

(* The second Get; an empty id makes no SKU.                                *)
GetVendorId ==
    /\ pc = "vendor"
    /\ IF Empty \notin {deviceId, sw[i].ven}
         THEN vendorId' = sw[i].ven /\ pc' = "sku" /\ UNCHANGED deviceId
         ELSE LeaveSKU
    /\ UNCHANGED <<objectVars, propVars, i, matches, queue, restarts, unnoticed,
                   lost>>

(* Mutant: a SKU that is already there is left alone.                       *)
SetSKUOnce ==
    /\ pc = "sku"
    /\ sku' = IF <<"asset", i>> \in known /\ sku[i] = NoSKU
                THEN [sku EXCEPT ![i] = <<deviceId, vendorId>>] ELSE sku
    /\ LeaveSKU
    /\ UNCHANGED <<objectVars, softwareId, i, matches, queue, restarts, unnoticed,
                   lost>>

(* setDBusProperty() of the inventory object.  The Set wants no reply; the  *)
(* owner is taken to handle it at once, its Sets arriving in order.         *)
SetSKU ==
    /\ pc = "sku"
    /\ sku' = IF <<"asset", i>> \in known
                THEN [sku EXCEPT ![i] = <<deviceId, vendorId>>] ELSE sku
    /\ LeaveSKU
    /\ UNCHANGED <<objectVars, softwareId, i, matches, queue, restarts, unnoticed,
                   lost>>

(* After the firmware object the scan takes its next turn if there is one,  *)
(* at retimer next, and a callback returns.                                 *)
LeaveSoftwareId(more, next) ==
    IF ~Scanning THEN pc' = "idle" /\ UNCHANGED i
    ELSE IF more THEN pc' = "device" /\ i' = next
    ELSE pc' = "listen_switch" /\ UNCHANGED i

(* setDBusProperty() of the firmware object.                                *)
SetSoftwareIdThen(more, next) ==
    /\ pc = "software"
    /\ unnoticed' = unnoticed \ {<<"SoftwareId", i>>}
    /\ lost' = lost \ {<<"SoftwareId", i>>}
    /\ softwareId' = IF <<"software", i>> \in known
                       THEN softwareId \cup {i} ELSE softwareId
    /\ LeaveSoftwareId(more, next)
    /\ UNCHANGED <<objectVars, sku, deviceId, vendorId, matches, queue, restarts>>

(* Mutants: the scan leaves the last retimer out, goes one too far, or      *)
(* stays where it is.                                                       *)
SetSoftwareIdShort == SetSoftwareIdThen(i + 2 < NumOfRetimers, i + 1)
SetSoftwareIdOverrun == SetSoftwareIdThen(i < NumOfRetimers, i + 1)
SetSoftwareIdStays == SetSoftwareIdThen(i + 1 < NumOfRetimers, i)

SetSoftwareId == SetSoftwareIdThen(i + 1 < NumOfRetimers, i + 1)

(* A call for the SKU fails: the mapper's or the owner's throws, and the    *)
(* exception is caught, or the owner refuses a Set, and nobody learns of it.*)
(* Nothing tries again.                                                     *)
SkuCallFails(call, kind) ==
    /\ pc = call
    /\ <<kind, i>> \in known
    /\ lost' = lost \cup {<<"SKU", i>>}
    /\ LeaveSKU
    /\ UNCHANGED <<objectVars, propVars, i, matches, queue, restarts, unnoticed>>

GetDeviceIdFails == SkuCallFails("device", "switch")
GetVendorIdFails == SkuCallFails("vendor", "switch")
SetSKUFails == SkuCallFails("sku", "asset")

SetSoftwareIdFails ==
    /\ pc = "software"
    /\ <<"software", i>> \in known
    /\ lost' = lost \cup {<<"SoftwareId", i>>}
    /\ LeaveSoftwareId(i + 1 < NumOfRetimers, i + 1)
    /\ UNCHANGED <<objectVars, propVars, deviceId, vendorId, matches, queue,
                   restarts, unnoticed>>

(* listenForGPUManagerEvents(): first the one match, then the other.        *)
Listen ==
    /\ \/ /\ pc = "listen_switch"
          /\ matches' = {"PropertiesChanged"}
          /\ pc' = "listen_software"
       \/ /\ pc = "listen_software"
          /\ matches' = matches \cup {"InterfacesAdded"}
          /\ pc' = "idle"
    /\ UNCHANGED <<objectVars, propVars, i, deviceId, vendorId, queue, restarts,
                   unnoticed, lost>>

(* An exception leaves the rest of the matches out, and is caught.          *)
ListenFails ==
    /\ pc \in {"listen_switch", "listen_software"}
    /\ pc' = "idle"
    /\ UNCHANGED <<objectVars, propVars, i, deviceId, vendorId, matches, queue,
                   restarts, unnoticed, lost>>

(* The event loop calls switchObjectCallback() or softwareObjectCallback(). *)
Dispatch ==
    /\ pc = "idle"
    /\ queue # <<>>
    /\ queue' = Tail(queue)
    /\ i' = Head(queue).rt
    /\ pc' = IF Head(queue).member = "PropertiesChanged" THEN "device"
                                                         ELSE "software"
    /\ UNCHANGED <<objectVars, propVars, deviceId, vendorId, matches, restarts,
                   unnoticed, lost>>

(* The process dies, and its matches and its signals with it; Restart=always*)
Restart ==
    /\ restarts < MaxRestarts
    /\ restarts' = restarts + 1
    /\ pc' = "device"
    /\ i' = 0
    /\ matches' = {}
    /\ queue' = <<>>
    /\ deviceId' = Empty
    /\ vendorId' = Empty
    /\ unnoticed' = {}
    /\ lost' = {}
    /\ UNCHANGED <<objectVars, propVars>>

Environment ==
    \E r \in Retimers :
        \/ CreateSwitch(r) \/ ChangeSwitch(r) \/ CreateSoftware(r)
        \/ \E kind \in {"switch", "asset", "software"} : Learn(kind, r)

App ==
    \/ GetDeviceId \/ GetVendorId \/ SetSKU \/ SetSoftwareId
    \/ Listen \/ Dispatch

CallFails ==
    \/ GetDeviceIdFails \/ GetVendorIdFails \/ SetSKUFails
    \/ SetSoftwareIdFails \/ ListenFails

Next == Environment \/ App \/ CallFails \/ Restart

(* The application is scheduled and its calls return, with an answer or     *)
(* with an error; of the owner and the mapper nothing else is assumed.      *)
Fairness == WF_vars(App)

Spec == Init /\ [][Next]_vars
FairSpec == Spec /\ Fairness

-------------------------------------------------------------------------------
(* Properties.                                                              *)

TypeOK ==
    /\ sw \in [Retimers -> Switch \cup {Absent}]
    /\ fw \in SUBSET Retimers
    /\ known \in SUBSET Objects
    /\ sku \in [Retimers -> (Ids \X Ids) \cup {NoSKU}]
    /\ softwareId \in SUBSET fw
    /\ changes \in 0..MaxChanges
    /\ pc \in {"device", "vendor", "sku", "software", "listen_switch",
               "listen_software", "idle"}
    /\ i \in Retimers
    /\ deviceId \in Ids \cup {Empty}
    /\ vendorId \in Ids \cup {Empty}
    /\ matches \in SUBSET {"PropertiesChanged", "InterfacesAdded"}
    /\ queue \in Seq(Signals)
    /\ restarts \in 0..MaxRestarts
    /\ unnoticed \in SUBSET Watched
    /\ lost \in SUBSET Watched

Pending(member, r) == [member |-> member, rt |-> r] \in {queue[n] : n \in DOMAIN queue}

SkuRight(r) ==
    /\ <<"switch", r>> \in known
    /\ <<"asset", r>> \in known
    /\ Empty \notin {sw[r].dev, sw[r].ven}
    => sku[r] = <<sw[r].dev, sw[r].ven>>

(* The two ids are read in two calls while the owner may change either, so  *)
(* a SKU may mix an old and a new one; but that never lasts.  When the      *)
(* application is idle and has no signal of a retimer's switch to handle,   *)
(* the SKU is that of the switch, after any order of changes, callbacks and *)
(* restarts, with two exceptions by name.  One is something of which no     *)
(* signal tells: a change between the scan of the retimer and the           *)
(* subscription, the creation of the switch, the mapper learning of an      *)
(* object.  The other is a failed Get or Set: it is swallowed and nothing   *)
(* repeats it, so the SKU may be wrong for good, until the application next *)
(* looks at that switch and no call fails.  That look puts it right.        *)
SkuSettles ==
    pc = "idle" =>
        \A r \in Retimers :
            \/ Pending("PropertiesChanged", r)
            \/ <<"SKU", r>> \in unnoticed \cup lost
            \/ SkuRight(r)

(* Likewise the SoftwareId: an idle application has set it on every         *)
(* firmware object it can reach, but for those that appeared between the    *)
(* scan and the subscription, those the mapper came to know only after the  *)
(* application had looked for them, and those of which the last Set failed, *)
(* which is not repeated either.                                            *)
SoftwareIdSettles ==
    pc = "idle" =>
        \A r \in Retimers :
            \/ Pending("InterfacesAdded", r)
            \/ <<"SoftwareId", r>> \in unnoticed \cup lost
            \/ <<"software", r>> \notin known
            \/ r \in softwareId

(* Once the owner, the mapper and the restarts have come to rest, every     *)
(* signal is handled and both properties become and stay right, with the    *)
(* same exceptions.                                                         *)
EventuallySettles ==
    \A r \in Retimers :
        <>[](/\ <<"SKU", r>> \in unnoticed \cup lost \/ SkuRight(r)
             /\ \/ <<"SoftwareId", r>> \in unnoticed \cup lost
                \/ <<"software", r>> \in known => r \in softwareId)

===============================================================================
