--------------------------- MODULE RetimerAppProofs ---------------------------
(***************************************************************************)
(* What an idle nvidia-retimer-app has set is right, where no call failed   *)
(* and nothing went unnoticed, for every number of retimers, changes,       *)
(* restarts and failing calls.                                              *)
(***************************************************************************)
EXTENDS RetimerApp, TLAPS

(* The mapper knows only what is there, and getSKUId() goes on only with    *)
(* what it has got.                                                         *)
KnownInv ==
    /\ \A r \in Retimers : /\ <<"switch", r>> \in known => sw[r] # Absent
                           /\ <<"software", r>> \in known => r \in fw
    /\ pc = "vendor" => <<"switch", i>> \in known
    /\ pc = "sku" => Empty \notin {deviceId, vendorId}

(* getSKUId() is at retimer r and has read nothing that has since changed.  *)
UpToDate(r) ==
    /\ i = r
    /\ \/ pc = "device"
       \/ pc = "vendor" /\ deviceId = sw[r].dev
       \/ pc = "sku" /\ deviceId = sw[r].dev /\ vendorId = sw[r].ven

(* It is between its first call for retimer r and its last.                 *)
Busy(r) == i = r /\ pc \in {"vendor", "sku"}

(* The SKU of a retimer is right, or is being made right, or the            *)
(* application still has a reason to look, or nothing told it of one, or a  *)
(* call for it failed.  Of a busy application it is not enough that the SKU *)
(* is right, as long as it may set it from what it read before a change.    *)
SkuAccounted(r) ==
    \/ Pending("PropertiesChanged", r)
    \/ <<"SKU", r>> \in unnoticed \cup lost
    \/ Ahead("SKU", r)
    \/ UpToDate(r)
    \/ SkuRight(r) /\ ~Busy(r)

(* Likewise the SoftwareId, which takes a single call.                      *)
SoftwareAccounted(r) ==
    \/ Pending("InterfacesAdded", r)
    \/ <<"SoftwareId", r>> \in unnoticed \cup lost
    \/ Ahead("SoftwareId", r)
    \/ pc = "software" /\ i = r
    \/ <<"software", r>> \notin known
    \/ r \in softwareId

Accounted == \A r \in Retimers : SkuAccounted(r) /\ SoftwareAccounted(r)

-------------------------------------------------------------------------------
(* Signals.                                                                 *)

(* A signal more.                                                           *)
LEMMA SignalAdded ==
    ASSUME queue \in Seq(Signals), NEW s \in Signals, queue' = Append(queue, s)
    PROVE  /\ queue' \in Seq(Signals)
           /\ Pending(s.member, s.rt)'
           /\ \A m, r : Pending(m, r) => Pending(m, r)'
<1>1. /\ queue' \in Seq(Signals) /\ Len(queue') = Len(queue) + 1
      /\ Len(queue) \in Nat
      /\ DOMAIN queue = 1..Len(queue) /\ DOMAIN queue' = 1..Len(queue')
      /\ queue'[Len(queue')] = s
      /\ \A n \in 1..Len(queue) : queue'[n] = queue[n]
  OBVIOUS
<1>2. s = [member |-> s.member, rt |-> s.rt]
  BY DEF Signals
<1> QED
  BY <1>1, <1>2 DEF Pending

(* A signal less.                                                           *)
LEMMA SignalTaken ==
    ASSUME queue \in Seq(Signals), queue # <<>>, queue' = Tail(queue)
    PROVE  /\ queue' \in Seq(Signals)
           /\ Head(queue) \in Signals
           /\ \A m, r : Pending(m, r) =>
                 \/ Pending(m, r)'
                 \/ m = Head(queue).member /\ r = Head(queue).rt
<1>1. /\ queue' \in Seq(Signals) /\ Head(queue) = queue[1]
      /\ Head(queue) \in Signals
      /\ Len(queue) \in Nat \ {0} /\ Len(queue') = Len(queue) - 1
      /\ DOMAIN queue = 1..Len(queue) /\ DOMAIN queue' = 1..Len(queue')
      /\ \A n \in 1..Len(queue') : queue'[n] = queue[n + 1]
  OBVIOUS
<1>2. ASSUME NEW m, NEW r, Pending(m, r)
      PROVE  Pending(m, r)' \/ (m = Head(queue).member /\ r = Head(queue).rt)
  <2>1. PICK n \in 1..Len(queue) : queue[n] = [member |-> m, rt |-> r]
    BY <1>1, <1>2 DEF Pending
  <2>2. CASE n = 1
    BY <1>1, <2>1, <2>2
  <2>3. CASE n # 1
    <3>1. n - 1 \in 1..Len(queue') /\ queue'[n - 1] = queue[n]
      BY <1>1, <2>3
    <3> QED
      BY <1>1, <2>1, <3>1 DEF Pending
  <2> QED
    BY <2>2, <2>3
<1> QED
  BY <1>1, <1>2

(* Whatever happens without a signal is noted, unless the scan is to come.  *)
LEMMA MissNoted ==
    ASSUME NEW prop, NEW r, Miss(prop, r)
    PROVE  /\ unnoticed \subseteq unnoticed'
           /\ unnoticed' \subseteq unnoticed \cup {<<prop, r>>}
           /\ <<prop, r>> \in unnoticed' \/ Ahead(prop, r)
BY DEF Miss

(* What happens with a signal is pending, or there was no match for it.     *)
LEMMA EmitNoted ==
    ASSUME queue \in Seq(Signals), NEW prop, NEW r \in Retimers,
           NEW member \in {"PropertiesChanged", "InterfacesAdded"},
           Emit(member, prop, r)
    PROVE  /\ queue' \in Seq(Signals)
           /\ \A m, q : Pending(m, q) => Pending(m, q)'
           /\ unnoticed \subseteq unnoticed'
           /\ unnoticed' \subseteq unnoticed \cup {<<prop, r>>}
           /\ \/ Pending(member, r)'
              \/ <<prop, r>> \in unnoticed'
              \/ Ahead(prop, r)
<1>1. CASE member \in matches
  <2> DEFINE s == [member |-> member, rt |-> r]
  <2>1. s \in Signals /\ s.member = member /\ s.rt = r
    BY DEF Signals
  <2>2. queue' = Append(queue, s) /\ unnoticed' = unnoticed
    BY <1>1 DEF Emit
  <2> HIDE DEF s
  <2> QED
    BY <2>1, <2>2, SignalAdded
<1>2. CASE member \notin matches
  BY <1>2, MissNoted DEF Emit, Pending
<1> QED
  BY <1>1, <1>2

-------------------------------------------------------------------------------
(* Types.                                                                   *)

(* The ids of a switch that changes.                                        *)
LEMMA SwitchChanged ==
    ASSUME sw \in [Retimers -> Switch \cup {Absent}],
           NEW r \in Retimers, sw[r] # Absent, NEW id \in Ids \cup {Empty},
           \/ sw' = [sw EXCEPT ![r].dev = id]
           \/ sw' = [sw EXCEPT ![r].ven = id]
    PROVE  /\ sw' \in [Retimers -> Switch \cup {Absent}]
           /\ sw'[r] \in Switch
           /\ \A q \in Retimers \ {r} : sw'[q] = sw[q]
<1>1. sw[r] \in Switch
  OBVIOUS
<1>2. /\ [sw[r] EXCEPT !.dev = id] \in Switch
      /\ [sw[r] EXCEPT !.ven = id] \in Switch
  BY <1>1 DEF Switch
<1>3. PICK ids \in Switch : sw' = [sw EXCEPT ![r] = ids]
  <2>1. CASE sw' = [sw EXCEPT ![r].dev = id]
    BY <1>2, <2>1, Zenon
  <2>2. CASE sw' = [sw EXCEPT ![r].ven = id]
    BY <1>2, <2>2, Zenon
  <2> QED
    BY <2>1, <2>2
<1> QED
  BY <1>3

(* The steps of the owner and the mapper.                                   *)
LEMMA EnvironmentType ==
    ASSUME TypeOK, KnownInv, Environment
    PROVE  TypeOK' /\ KnownInv'
<1>1. PICK r \in Retimers :
        \/ CreateSwitch(r) \/ ChangeSwitch(r) \/ CreateSoftware(r)
        \/ \E kind \in {"switch", "asset", "software"} : Learn(kind, r)
  BY DEF Environment
<1>2. <<"SKU", r>> \in Watched /\ <<"SoftwareId", r>> \in Watched
  BY DEF Watched
<1>3. CASE CreateSwitch(r)
  <2>1. PICK ids \in Switch : sw' = [sw EXCEPT ![r] = ids]
    BY <1>3 DEF CreateSwitch
  <2>2. sw' \in [Retimers -> Switch \cup {Absent}] /\ \A q \in Retimers \ {r} : sw'[q] = sw[q]
    BY <2>1 DEF TypeOK
  <2>3. unnoticed' \in SUBSET Watched
    BY <1>2, <1>3, MissNoted DEF CreateSwitch, TypeOK
  <2>4. sw[r] = Absent /\ UNCHANGED <<fw, known, changes, propVars, appVars, lost>>
    BY <1>3 DEF CreateSwitch
  <2>5. TypeOK'
    BY <2>2, <2>3, <2>4 DEF TypeOK, propVars, appVars
  <2>6. KnownInv'
    BY <2>2, <2>4 DEF KnownInv, appVars
  <2> QED
    BY <2>5, <2>6
<1>4. CASE ChangeSwitch(r)
  <2>1. PICK id \in Ids \cup {Empty} :
          \/ sw' = [sw EXCEPT ![r].dev = id]
          \/ sw' = [sw EXCEPT ![r].ven = id]
    BY <1>4 DEF ChangeSwitch
  <2>2. /\ sw' \in [Retimers -> Switch \cup {Absent}]
        /\ sw'[r] \in Switch /\ \A q \in Retimers \ {r} : sw'[q] = sw[q]
    BY <1>4, <2>1, SwitchChanged DEF ChangeSwitch, TypeOK
  <2>3. unnoticed' \in SUBSET Watched /\ queue' \in Seq(Signals)
    BY <1>2, <1>4, EmitNoted DEF ChangeSwitch, TypeOK
  <2>4. /\ changes' \in 0..MaxChanges /\ sw[r] # Absent
        /\ UNCHANGED <<fw, known, propVars, pc, i, deviceId, vendorId,
                       matches, restarts, lost>>
    BY <1>4, RetimerAppAssumption DEF ChangeSwitch, TypeOK
  <2>5. TypeOK'
    BY <2>2, <2>3, <2>4 DEF TypeOK, propVars
  <2>6. sw'[r] # Absent
    BY <2>2, SwitchAssumption
  <2>7. KnownInv'
    BY <2>2, <2>4, <2>6 DEF KnownInv
  <2> QED
    BY <2>5, <2>7
<1>5. CASE CreateSoftware(r)
  <2>1. unnoticed' \in SUBSET Watched /\ queue' \in Seq(Signals)
    BY <1>2, <1>5, EmitNoted DEF CreateSoftware, TypeOK
  <2>2. /\ fw' = fw \cup {r}
        /\ UNCHANGED <<sw, known, changes, propVars, pc, i, deviceId,
                       vendorId, matches, restarts, lost>>
    BY <1>5 DEF CreateSoftware
  <2> QED
    BY <2>1, <2>2 DEF TypeOK, KnownInv, propVars
<1>6. ASSUME NEW kind \in {"switch", "asset", "software"}, Learn(kind, r)
      PROVE  TypeOK' /\ KnownInv'
  <2>1. unnoticed' \in SUBSET Watched
    BY <1>2, <1>6, MissNoted DEF Learn, TypeOK
  <2>2. /\ known' = known \cup {<<kind, r>>} /\ <<kind, r>> \in Objects
        /\ UNCHANGED <<sw, fw, changes, propVars, appVars, lost>>
    BY <1>6 DEF Learn, Objects
  <2>3. TypeOK'
    BY <2>1, <2>2 DEF TypeOK, propVars, appVars
  <2>4. /\ kind = "switch" => sw[r] # Absent
        /\ kind = "software" => r \in fw
    BY <1>6 DEF Learn
  <2>5. KnownInv'
    BY <2>2, <2>4 DEF KnownInv, appVars
  <2> QED
    BY <2>3, <2>5
<1> QED
  BY <1>1, <1>3, <1>4, <1>5, <1>6

(* The steps of the application.                                            *)
LEMMA ApplicationType ==
    ASSUME TypeOK, KnownInv, App \/ CallFails \/ Restart
    PROVE  TypeOK' /\ KnownInv'
<1> USE DEF objectVars, propVars
<1>0. <<"switch", i>> \in known => sw[i] \in Switch
  BY DEF TypeOK, KnownInv
<1>1. CASE GetDeviceId
  <2>1. <<"switch", i>> \in known => sw[i].dev \in Ids \cup {Empty}
    BY <1>0 DEF Switch
  <2> QED
    BY <1>1, <2>1 DEF GetDeviceId, LeaveSKU, TypeOK, KnownInv
<1>2. CASE GetVendorId
  <2>1. sw[i].ven \in Ids \cup {Empty}
    BY <1>0, <1>2 DEF GetVendorId, KnownInv, Switch
  <2> QED
    BY <1>2, <2>1 DEF GetVendorId, LeaveSKU, TypeOK, KnownInv
<1>3. CASE SetSKU
  <2>1. <<deviceId, vendorId>> \in Ids \X Ids
    BY <1>3 DEF SetSKU, KnownInv, TypeOK
  <2>2. sku' \in [Retimers -> (Ids \X Ids) \cup {NoSKU}]
    BY <1>3, <2>1 DEF SetSKU, TypeOK
  <2> QED
    BY <1>3, <2>2 DEF SetSKU, LeaveSKU, TypeOK, KnownInv
<1>4. CASE SetSoftwareId
  <2>1. softwareId' \in SUBSET fw
    BY <1>4 DEF SetSoftwareId, SetSoftwareIdThen, LeaveSoftwareId, TypeOK, KnownInv
  <2>2. i' \in Retimers
    BY <1>4, RetimerAppAssumption
       DEF SetSoftwareId, SetSoftwareIdThen, LeaveSoftwareId, TypeOK, Retimers
  <2> QED
    BY <1>4, <2>1, <2>2 DEF SetSoftwareId, SetSoftwareIdThen, LeaveSoftwareId, TypeOK, KnownInv
<1>5. CASE Listen
  BY <1>5 DEF Listen, TypeOK, KnownInv
<1>6. CASE Dispatch
  <2>1. queue' \in Seq(Signals) /\ Head(queue) \in Signals
    BY <1>6, SignalTaken DEF Dispatch, TypeOK
  <2>2. i' \in Retimers
    BY <1>6, <2>1 DEF Dispatch, Signals
  <2> QED
    BY <1>6, <2>1, <2>2 DEF Dispatch, TypeOK, KnownInv
<1>7. CASE CallFails
  <2>1. <<"SKU", i>> \in Watched /\ <<"SoftwareId", i>> \in Watched
    BY DEF Watched, TypeOK
  <2>2. CASE GetDeviceIdFails \/ GetVendorIdFails \/ SetSKUFails
    BY <2>1, <2>2 DEF GetDeviceIdFails, GetVendorIdFails, SetSKUFails,
                      SkuCallFails, LeaveSKU, TypeOK, KnownInv
  <2>3. CASE SetSoftwareIdFails
    <3>1. i' \in Retimers
      BY <2>3, RetimerAppAssumption
         DEF SetSoftwareIdFails, LeaveSoftwareId, TypeOK, Retimers
    <3> QED
      BY <2>1, <2>3, <3>1 DEF SetSoftwareIdFails, LeaveSoftwareId, TypeOK, KnownInv
  <2>4. CASE ListenFails
    BY <2>4 DEF ListenFails, TypeOK, KnownInv
  <2> QED
    BY <1>7, <2>2, <2>3, <2>4 DEF CallFails
<1>8. CASE Restart
  <2>1. 0 \in Retimers /\ <<>> \in Seq(Signals)
    BY RetimerAppAssumption DEF Retimers
  <2> QED
    BY <1>8, <2>1, RetimerAppAssumption DEF Restart, TypeOK, KnownInv
<1> QED
  BY <1>1, <1>2, <1>3, <1>4, <1>5, <1>6, <1>7, <1>8 DEF App

-------------------------------------------------------------------------------
(* Everything is accounted for.                                             *)

(* Steps elsewhere leave a retimer's SKU accounted for.                     *)
LEMMA SkuKept ==
    ASSUME NEW r \in Retimers, SkuAccounted(r),
           UNCHANGED <<pc, i, deviceId, vendorId, matches>>,
           Pending("PropertiesChanged", r) => Pending("PropertiesChanged", r)',
           unnoticed \subseteq unnoticed', lost \subseteq lost',
           UNCHANGED <<sw[r], sku[r]>>,
           <<"switch", r>> \in known' <=> <<"switch", r>> \in known,
           <<"asset", r>> \in known' <=> <<"asset", r>> \in known
    PROVE  SkuAccounted(r)'
<1>1. /\ Ahead("SKU", r) => Ahead("SKU", r)'
      /\ UpToDate(r) => UpToDate(r)'
      /\ SkuRight(r) => SkuRight(r)'
      /\ Busy(r)' <=> Busy(r)
  BY DEF Ahead, UpToDate, SkuRight, Busy
<1> QED
  BY <1>1 DEF SkuAccounted

(* Likewise its SoftwareId.                                                 *)
LEMMA SoftwareKept ==
    ASSUME NEW r \in Retimers, SoftwareAccounted(r),
           UNCHANGED <<pc, i, matches>>,
           Pending("InterfacesAdded", r) => Pending("InterfacesAdded", r)',
           unnoticed \subseteq unnoticed', lost \subseteq lost',
           softwareId' = softwareId,
           <<"software", r>> \in known' <=> <<"software", r>> \in known
    PROVE  SoftwareAccounted(r)'
<1>1. Ahead("SoftwareId", r) => Ahead("SoftwareId", r)'
  BY DEF Ahead
<1> QED
  BY <1>1 DEF SoftwareAccounted

(* The owner and the mapper: what they do to one retimer is signalled,      *)
(* missed or still to be scanned.                                           *)
LEMMA EnvironmentAccounted ==
    ASSUME TypeOK, KnownInv, Accounted, Environment
    PROVE  Accounted'
<1> SUFFICES ASSUME NEW q \in Retimers
             PROVE  SkuAccounted(q)' /\ SoftwareAccounted(q)'
  BY DEF Accounted
<1>0. SkuAccounted(q) /\ SoftwareAccounted(q)
  BY DEF Accounted
<1>1. PICK r \in Retimers :
        \/ CreateSwitch(r) \/ ChangeSwitch(r) \/ CreateSoftware(r)
        \/ \E kind \in {"switch", "asset", "software"} : Learn(kind, r)
  BY DEF Environment
<1>2. CASE CreateSwitch(r)
  <2>1. PICK ids \in Switch : sw' = [sw EXCEPT ![r] = ids]
    BY <1>2 DEF CreateSwitch
  <2>2. q # r => sw'[q] = sw[q]
    BY <2>1 DEF TypeOK
  <2>3. /\ unnoticed \subseteq unnoticed'
        /\ <<"SKU", r>> \in unnoticed' \/ Ahead("SKU", r)
        /\ UNCHANGED <<known, pc, i, deviceId, vendorId, matches, queue, sku,
                       softwareId, lost>>
    BY <1>2, MissNoted DEF CreateSwitch, propVars, appVars
  <2>4. Ahead("SKU", r) => Ahead("SKU", r)'
    BY <2>3 DEF Ahead
  <2>5. \A m : Pending(m, q)' <=> Pending(m, q)
    BY <2>3 DEF Pending
  <2>6. SkuAccounted(q)'
    <3>1. CASE q = r
      BY <2>3, <2>4, <3>1 DEF SkuAccounted
    <3>2. CASE q # r
      BY <1>0, <2>2, <2>3, <2>5, <3>2, SkuKept
    <3> QED
      BY <3>1, <3>2
  <2>7. SoftwareAccounted(q)'
    BY <1>0, <2>3, <2>5, SoftwareKept
  <2> QED
    BY <2>6, <2>7
<1>3. CASE ChangeSwitch(r)
  <2>1. PICK id \in Ids \cup {Empty} :
          \/ sw' = [sw EXCEPT ![r].dev = id]
          \/ sw' = [sw EXCEPT ![r].ven = id]
    BY <1>3 DEF ChangeSwitch
  <2>2. q # r => sw'[q] = sw[q]
    BY <1>3, <2>1, SwitchChanged DEF ChangeSwitch, TypeOK
  <2>3. /\ \A m, p : Pending(m, p) => Pending(m, p)'
        /\ unnoticed \subseteq unnoticed'
        /\ \/ Pending("PropertiesChanged", r)'
           \/ <<"SKU", r>> \in unnoticed'
           \/ Ahead("SKU", r)
    BY <1>3, EmitNoted DEF ChangeSwitch, TypeOK
  <2>4. UNCHANGED <<known, pc, i, deviceId, vendorId, matches, sku, softwareId,
                    lost>>
    BY <1>3 DEF ChangeSwitch, propVars
  <2>5. Ahead("SKU", r) => Ahead("SKU", r)'
    BY <2>4 DEF Ahead
  <2>6. SkuAccounted(q)'
    <3>1. CASE q = r
      BY <2>3, <2>5, <3>1 DEF SkuAccounted
    <3>2. CASE q # r
      BY <1>0, <2>2, <2>3, <2>4, <3>2, SkuKept
    <3> QED
      BY <3>1, <3>2
  <2>7. SoftwareAccounted(q)'
    BY <1>0, <2>3, <2>4, SoftwareKept
  <2> QED
    BY <2>6, <2>7
<1>4. CASE CreateSoftware(r)
  <2>1. /\ \A m, p : Pending(m, p) => Pending(m, p)'
        /\ unnoticed \subseteq unnoticed'
    BY <1>4, EmitNoted DEF CreateSoftware, TypeOK
  <2>2. UNCHANGED <<sw, known, pc, i, deviceId, vendorId, matches, sku,
                    softwareId, lost>>
    BY <1>4 DEF CreateSoftware, propVars
  <2> QED
    BY <1>0, <2>1, <2>2, SkuKept, SoftwareKept
<1>5. ASSUME NEW kind \in {"switch", "asset", "software"}, Learn(kind, r)
      PROVE  SkuAccounted(q)' /\ SoftwareAccounted(q)'
  <2> DEFINE prop == IF kind = "software" THEN "SoftwareId" ELSE "SKU"
  <2>1. /\ known' = known \cup {<<kind, r>>}
        /\ Miss(prop, r)
        /\ UNCHANGED <<sw, pc, i, deviceId, vendorId, matches, queue, sku,
                       softwareId, lost>>
    BY <1>5 DEF Learn, propVars, appVars
  <2>2. /\ unnoticed \subseteq unnoticed'
        /\ <<prop, r>> \in unnoticed' \/ Ahead(prop, r)
    BY <2>1, MissNoted
  <2>3. Ahead(prop, r) => Ahead(prop, r)'
    BY <2>1 DEF Ahead
  <2>4. \A m : Pending(m, q)' <=> Pending(m, q)
    BY <2>1 DEF Pending
  <2>5. SkuAccounted(q)'
    <3>1. CASE q = r /\ kind # "software"
      BY <2>2, <2>3, <3>1 DEF SkuAccounted
    <3>2. CASE q # r \/ kind = "software"
      BY <1>0, <2>1, <2>2, <2>4, <3>2, SkuKept
    <3> QED
      BY <3>1, <3>2
  <2>6. SoftwareAccounted(q)'
    <3>1. CASE q = r /\ kind = "software"
      BY <2>2, <2>3, <3>1 DEF SoftwareAccounted
    <3>2. CASE q # r \/ kind # "software"
      BY <1>0, <2>1, <2>2, <2>4, <3>2, SoftwareKept
    <3> QED
      BY <3>1, <3>2
  <2> QED
    BY <2>5, <2>6
<1> QED
  BY <1>1, <1>2, <1>3, <1>4, <1>5

(* The application accounts for what it stops watching.                     *)
LEMMA ApplicationAccounted ==
    ASSUME TypeOK, KnownInv, Accounted, App \/ CallFails \/ Restart
    PROVE  Accounted'
<1> SUFFICES ASSUME NEW r \in Retimers
             PROVE  SkuAccounted(r)' /\ SoftwareAccounted(r)'
  BY DEF Accounted
<1>0. /\ SkuAccounted(r) /\ SoftwareAccounted(r)
      /\ r \in Nat /\ r < NumOfRetimers /\ i \in Nat
  BY RetimerAppAssumption DEF Accounted, TypeOK, Retimers
<1> USE DEF SkuAccounted, SoftwareAccounted
<1>1. CASE GetDeviceId
  <2>1. /\ pc = "device" /\ UNCHANGED <<sw, known, sku, softwareId, i,
                                        matches, queue>>
        /\ unnoticed' = unnoticed \ {<<"SKU", i>>}
        /\ lost' = lost \ {<<"SKU", i>>}
        /\ \/ <<"switch", i>> \in known /\ deviceId' = sw[i].dev /\ pc' = "vendor"
           \/ <<"switch", i>> \notin known
              /\ pc' = IF matches = {} THEN "software" ELSE "idle"
    BY <1>1 DEF GetDeviceId, LeaveSKU, Scanning, objectVars, propVars
  <2>2. \A m : Pending(m, r)' <=> Pending(m, r)
    BY <2>1 DEF Pending
  <2>3. /\ r # i /\ Ahead("SKU", r) => Ahead("SKU", r)'
        /\ Ahead("SoftwareId", r) => Ahead("SoftwareId", r)'
    BY <2>1 DEF Ahead
  <2>4. r = i => UpToDate(r)' \/ (SkuRight(r) /\ ~Busy(r))'
    BY <2>1 DEF UpToDate, SkuRight, Busy
  <2>5. r # i => ~UpToDate(r)
    BY DEF UpToDate
  <2>6. (SkuRight(r)' <=> SkuRight(r)) /\ (r # i => ~Busy(r)')
    BY <2>1 DEF SkuRight, Busy
  <2> QED
    BY <1>0, <2>1, <2>2, <2>3, <2>4, <2>5, <2>6
<1>2. CASE GetVendorId \/ SetSKU
  <2>1. /\ pc \in {"vendor", "sku"}
        /\ UNCHANGED <<sw, known, softwareId, i, matches, queue, unnoticed, lost>>
        /\ pc' \in {"sku", IF matches = {} THEN "software" ELSE "idle"}
        /\ \A q \in Retimers \ {i} : sku'[q] = sku[q]
    BY <1>2 DEF GetVendorId, SetSKU, LeaveSKU, Scanning, objectVars, propVars,
                TypeOK
  <2>2. \A m : Pending(m, r)' <=> Pending(m, r)
    BY <2>1 DEF Pending
  <2>3. /\ Ahead("SKU", r) => Ahead("SKU", r)'
        /\ Ahead("SoftwareId", r) => Ahead("SoftwareId", r)'
    BY <2>1 DEF Ahead
  <2>4. UpToDate(r) => UpToDate(r)' \/ (SkuRight(r) /\ ~Busy(r))'
    <3>1. CASE GetVendorId
      BY <2>1, <3>1 DEF GetVendorId, LeaveSKU, Scanning, propVars, UpToDate,
                        SkuRight, Busy
    <3>2. CASE SetSKU
      BY <2>1, <3>2 DEF SetSKU, LeaveSKU, Scanning, UpToDate, SkuRight, Busy,
                        TypeOK
    <3> QED
      BY <1>2, <3>1, <3>2
  <2>5. SkuRight(r) /\ ~Busy(r) => (SkuRight(r) /\ ~Busy(r))'
    <3>1. ~Busy(r) => r # i
      BY <2>1 DEF Busy
    <3> QED
      BY <2>1, <3>1 DEF SkuRight, Busy
  <2> QED
    BY <1>0, <2>1, <2>2, <2>3, <2>4, <2>5
<1>3. CASE SetSoftwareId
  <2>1. /\ pc = "software" /\ UNCHANGED <<sw, known, sku, matches, queue>>
        /\ unnoticed' = unnoticed \ {<<"SoftwareId", i>>}
        /\ lost' = lost \ {<<"SoftwareId", i>>}
        /\ softwareId' = IF <<"software", i>> \in known
                           THEN softwareId \cup {i} ELSE softwareId
        /\ matches = {} /\ i + 1 < NumOfRetimers => pc' = "device" /\ i' = i + 1
    BY <1>3 DEF SetSoftwareId, SetSoftwareIdThen, LeaveSoftwareId, Scanning, objectVars
  <2>2. \A m : Pending(m, r)' <=> Pending(m, r)
    BY <2>1 DEF Pending
  <2>3. /\ Ahead("SKU", r) => Ahead("SKU", r)'
        /\ Ahead("SoftwareId", r) /\ r # i => Ahead("SoftwareId", r)'
    BY <1>0, <2>1, RetimerAppAssumption DEF Ahead
  <2>4. ~UpToDate(r) /\ ~Busy(r)' /\ (SkuRight(r)' <=> SkuRight(r))
    BY <1>3, <2>1 DEF SetSoftwareId, SetSoftwareIdThen, LeaveSoftwareId, UpToDate, SkuRight, Busy
  <2> QED
    BY <1>0, <2>1, <2>2, <2>3, <2>4
<1>4. CASE Listen \/ ListenFails
  <2>1. /\ pc \in {"listen_switch", "listen_software"}
        /\ UNCHANGED <<sw, known, sku, softwareId, queue, unnoticed, lost>>
    BY <1>4 DEF Listen, ListenFails, objectVars, propVars
  <2>2. \A m : Pending(m, r)' <=> Pending(m, r)
    BY <2>1 DEF Pending
  <2>3. /\ \A prop : ~Ahead(prop, r)
        /\ ~UpToDate(r) /\ ~Busy(r)' /\ (SkuRight(r)' <=> SkuRight(r))
    BY <1>4, <2>1 DEF Listen, ListenFails, Ahead, UpToDate, SkuRight, Busy
  <2> QED
    BY <1>0, <2>1, <2>2, <2>3
<1>5. CASE Dispatch
  <2>1. /\ pc = "idle" /\ UNCHANGED <<sw, known, sku, softwareId, unnoticed, lost>>
        /\ i' = Head(queue).rt
        /\ pc' = IF Head(queue).member = "PropertiesChanged"
                   THEN "device" ELSE "software"
    BY <1>5 DEF Dispatch, objectVars, propVars
  <2>2. \A m : Pending(m, r) =>
          Pending(m, r)' \/ (m = Head(queue).member /\ r = Head(queue).rt)
    BY <1>5, SignalTaken DEF Dispatch, TypeOK
  <2>3. /\ \A prop : ~Ahead(prop, r)
        /\ ~UpToDate(r) /\ ~Busy(r)' /\ (SkuRight(r)' <=> SkuRight(r))
    BY <2>1 DEF Ahead, UpToDate, SkuRight, Busy
  <2>4. /\ pc' = "device" /\ i' = r => UpToDate(r)'
        /\ Pending("PropertiesChanged", r) => Pending("PropertiesChanged", r)' \/ UpToDate(r)'
    BY <2>1, <2>2 DEF UpToDate
  <2> QED
    BY <1>0, <2>1, <2>2, <2>3, <2>4
<1>6. CASE Restart
  <2>1. Ahead("SKU", r)' /\ Ahead("SoftwareId", r)'
    BY <1>0, <1>6 DEF Restart, Ahead
  <2> QED
    BY <2>1
<1>7. CASE GetDeviceIdFails \/ GetVendorIdFails \/ SetSKUFails
  <2>1. /\ pc \in {"device", "vendor", "sku"}
        /\ lost' = lost \cup {<<"SKU", i>>}
        /\ pc' = IF matches = {} THEN "software" ELSE "idle"
        /\ UNCHANGED <<sw, known, sku, softwareId, i, matches, queue, unnoticed>>
    BY <1>7 DEF GetDeviceIdFails, GetVendorIdFails, SetSKUFails, SkuCallFails,
                LeaveSKU, Scanning, objectVars, propVars
  <2>2. \A m : Pending(m, r)' <=> Pending(m, r)
    BY <2>1 DEF Pending
  <2>3. /\ r # i /\ Ahead("SKU", r) => Ahead("SKU", r)'
        /\ Ahead("SoftwareId", r) => Ahead("SoftwareId", r)'
    BY <2>1 DEF Ahead
  <2>4. r # i => /\ ~UpToDate(r) /\ ~Busy(r)'
                 /\ SkuRight(r)' <=> SkuRight(r)
    BY <2>1 DEF UpToDate, Busy, SkuRight
  <2>5. SkuAccounted(r)'
    BY <1>0, <2>1, <2>2, <2>3, <2>4
  <2>6. SoftwareAccounted(r)'
    BY <1>0, <2>1, <2>2, <2>3
  <2> QED
    BY <2>5, <2>6
<1>8. CASE SetSoftwareIdFails
  <2>1. /\ pc = "software"
        /\ UNCHANGED <<sw, known, sku, softwareId, matches, queue, unnoticed>>
        /\ lost' = lost \cup {<<"SoftwareId", i>>}
        /\ matches = {} /\ i + 1 < NumOfRetimers => pc' = "device" /\ i' = i + 1
    BY <1>8 DEF SetSoftwareIdFails, LeaveSoftwareId, Scanning, objectVars, propVars
  <2>2. \A m : Pending(m, r)' <=> Pending(m, r)
    BY <2>1 DEF Pending
  <2>3. /\ Ahead("SKU", r) => Ahead("SKU", r)'
        /\ Ahead("SoftwareId", r) /\ r # i => Ahead("SoftwareId", r)'
    BY <1>0, <2>1, RetimerAppAssumption DEF Ahead
  <2>4. ~UpToDate(r) /\ ~Busy(r)' /\ (SkuRight(r)' <=> SkuRight(r))
    BY <1>8, <2>1 DEF SetSoftwareIdFails, LeaveSoftwareId, UpToDate, SkuRight,
                      Busy
  <2> QED
    BY <1>0, <2>1, <2>2, <2>3, <2>4
<1> QED
  BY <1>1, <1>2, <1>3, <1>4, <1>5, <1>6, <1>7, <1>8 DEF App, CallFails

-------------------------------------------------------------------------------

AppInv == TypeOK /\ KnownInv /\ Accounted

(* The invariant of the application among the owner and the mapper.         *)
THEOREM AppInvariance == Spec => []AppInv
<1>1. Init => AppInv
  <2> SUFFICES ASSUME Init PROVE AppInv
    OBVIOUS
  <2>1. 0 \in Retimers /\ Retimers \subseteq Nat
    BY RetimerAppAssumption DEF Retimers
  <2>2. TypeOK
    BY <2>1, RetimerAppAssumption DEF Init, TypeOK
  <2>3. KnownInv
    BY DEF Init, KnownInv
  <2>4. \A r \in Retimers : UpToDate(r) \/ Ahead("SKU", r)
    BY <2>1 DEF Init, UpToDate, Ahead
  <2>5. \A r \in Retimers : Ahead("SoftwareId", r)
    BY <2>1 DEF Init, Ahead
  <2> QED
    BY <2>2, <2>3, <2>4, <2>5 DEF AppInv, Accounted, SkuAccounted,
                                  SoftwareAccounted
<1>2. AppInv /\ [Next]_vars => AppInv'
  <2> SUFFICES ASSUME AppInv, [Next]_vars PROVE AppInv'
    OBVIOUS
  <2>1. CASE Environment
    BY <2>1, EnvironmentType, EnvironmentAccounted DEF AppInv
  <2>2. CASE App \/ CallFails \/ Restart
    BY <2>2, ApplicationType, ApplicationAccounted DEF AppInv
  <2>3. CASE UNCHANGED vars
    <3> USE <2>3 DEF vars, objectVars, propVars, appVars, AppInv
    <3>1. TypeOK' /\ KnownInv'
      BY DEF TypeOK, KnownInv
    <3>2. \A m, r : Pending(m, r)' <=> Pending(m, r)
      BY DEF Pending
    <3>3. Accounted'
      BY <3>2, SkuKept, SoftwareKept DEF Accounted
    <3> QED
      BY <3>1, <3>3
  <2> QED
    BY <2>1, <2>2, <2>3 DEF Next
<1> QED
  BY <1>1, <1>2, PTL DEF Spec

(* The types of the application; what it sets, it sets on what is there.    *)
THEOREM AppTypes == Spec => []TypeOK
<1>1. AppInv => TypeOK
  BY DEF AppInv
<1> QED
  BY <1>1, AppInvariance, PTL

(* A mixed SKU never lasts: that of an idle application is its switch's,    *)
(* but for what no signal told of and for calls that failed.                *)
THEOREM SkuNeverStale == Spec => []SkuSettles
<1>1. AppInv => SkuSettles
  BY DEF AppInv, Accounted, SkuAccounted, SkuSettles, Ahead, UpToDate
<1> QED
  BY <1>1, AppInvariance, PTL

(* No firmware object that can be reached stays without a SoftwareId, with  *)
(* the same exceptions.                                                     *)
THEOREM SoftwareIdNeverMissing == Spec => []SoftwareIdSettles
<1>1. AppInv => SoftwareIdSettles
  BY DEF AppInv, Accounted, SoftwareAccounted, SoftwareIdSettles, Ahead
<1> QED
  BY <1>1, AppInvariance, PTL

===============================================================================
