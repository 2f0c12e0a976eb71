----------------------------- MODULE FormProofs -----------------------------
(***************************************************************************)
(* Proofs about the forms of FormPages, for every value of their           *)
(* constants: the references between interfaces, zones and wireless        *)
(* networks (NetworkRefs), saving through page and dialog (FormSave), tabs *)
(* (Tabs), the switch table (SwitchVlan), the channels of a radio          *)
(* (WifiDialog), the legacy framework (LegacyForm), the picker of files    *)
(* (FileBrowser), the upload of firmware (Firmware), the attended upgrade  *)
(* (AttendedUpgrade), the tables of interfaces (IfaceRows) and radios      *)
(* (RadioPages).  A behaviour shows one form: FormsIInv has an inductive   *)
(* invariant for each of them.                                             *)
(***************************************************************************)
EXTENDS FormPages, Lists

LEMMA StepOfForm ==
  ASSUME [FormsNext]_formsVars
  PROVE  /\ form' = form
         /\ form = "refs" => [RefNext]_refVars
         /\ form = "save" => [FormNext]_formVars
         /\ form = "tabs" => [TabsNext]_tabVars
         /\ form = "picker" => [BrowserNext]_pickerVars
         /\ form = "flash" => [FlashNext]_flashVars
         /\ form = "upgrade" => [UpgradeNext]_upgradeVars
         /\ form = "interfaces" => [RowsNext]_rowVars
         /\ form = "radios" => [TableNext]_tableVars
         /\ form = "wifi" => [FreqNext]_freqVars
         /\ form = "switch" => [SwitchNext]_vlanVars
         /\ form = "legacy" => [LegacyNext]_legacyVars
         /\ form # "save" => UNCHANGED formVars
         /\ form # "tabs" => UNCHANGED tabVars
<1>1. CASE UNCHANGED formsVars
  BY <1>1 DEF formsVars, partsVars, pollVars, browserVars, frameworkVars
<1>2. CASE PartsNext /\ UNCHANGED <<form, pollVars, browserVars, frameworkVars>>
  BY <1>2 DEF PartsNext, pollVars, browserVars, frameworkVars
<1>3. CASE PollNext /\ UNCHANGED <<form, partsVars, browserVars, frameworkVars>>
  BY <1>3 DEF PollNext, partsVars, browserVars, frameworkVars
<1>4. CASE BrowserForms /\ UNCHANGED <<form, partsVars, pollVars, frameworkVars>>
  BY <1>4 DEF BrowserForms, partsVars, pollVars, frameworkVars
<1>5. CASE FrameworkForms /\ UNCHANGED <<form, partsVars, pollVars, browserVars>>
  BY <1>5 DEF FrameworkForms, partsVars, pollVars, browserVars
<1>6. QED
  BY <1>1, <1>2, <1>3, <1>4, <1>5 DEF FormsNext

-----------------------------------------------------------------------------
(* References between sections: every one resolves at any time, also while  *)
(* callbacks are waiting.  What waits is the renaming of a zone and its     *)
(* networks, or one of the five situations of the two chains of a join;     *)
(* once the first has left all zones, the interface is in none.             *)

AllPolicies == [kind : {"forwarding", "rule"}, src : ZoneNames \cup {Absent},
             dest : ZoneNames \cup {Absent}]

Resolved ==
  /\ policies \subseteq AllPolicies
  /\ \A w \in Wifis : wifi[w] # Absent => wifi[w] \subseteq interfaces
  /\ \A r \in Attached : attached[r] \in interfaces \cup {Absent}
  /\ \A z \in ZoneIds : covers[z] \subseteq interfaces
  /\ \A p \in policies : {p.src, p.dest} \subseteq Named \cup {Absent}

Renames == [op : {"rename"}, old : ZoneNames \ {Absent}, new : ZoneNames, after : {1}]
Coverings == [op : {"cover"}, zone : ZoneNames, nets : (SUBSET Networks) \ {{}}, after : {1}]
LeaveJob(n, k) == [op |-> "leave", net |-> n, after |-> k]
EnterJob(n, zone, k) == [op |-> "enter", net |-> n, zone |-> zone, after |-> k]

ZoneForm ==
  /\ asked = Nothing
  /\ \/ \E r \in Renames : chains = <<r>>
     \/ \E c \in Coverings : chains = <<c>>
     \/ \E r \in Renames, c \in Coverings : chains = <<r, c>>

Joining(n, zone) ==
  /\ asked = Wish(n, zone)
  /\ \/ chains = <<LeaveJob(n, 2), EnterJob(n, zone, 3)>>
     \/ chains = <<EnterJob(n, zone, 3), LeaveJob(n, 1)>>
     \/ chains = <<LeaveJob(n, 1), EnterJob(n, zone, 2)>>
     \/ /\ chains \in {<<EnterJob(n, zone, 2)>>, <<EnterJob(n, zone, 1)>>}
        /\ \A z \in ZoneIds : n \notin covers[z]

CallbacksFit ==
  \/ RefIdle
  \/ ZoneForm
  \/ \E n \in interfaces, zone \in ZoneNames \cup {Absent} : Joining(n, zone)

RefIInv == RefTypeOK /\ Resolved /\ CallbacksFit /\ JoinedInZone

\* Min picks the first of some zones.
LEMMA FirstZone ==
  ASSUME NEW S \in SUBSET ZoneIds, S # {}
  PROVE  Min(S) \in S /\ \A z \in S : Min(S) <= z
<1>1. \E z \in S : \A y \in S : z <= y
  BY ZonesAssumption, LeastNumber
<1>2. QED
  BY <1>1 DEF Min

\* A new section is none of the zones there are.
LEMMA NewSection ==
  ASSUME NextZone # {}
  PROVE  Min(NextZone) \in ZoneIds /\ zoneName[Min(NextZone)] = Absent
<1>1. Min(NextZone) \in NextZone
  BY FirstZone DEF NextZone
<1>2. ASSUME NEW z \in NextZone
      PROVE  z \in ZoneIds /\ z \notin ZonesIn
  BY ZonesAssumption DEF NextZone
<1>3. QED
  BY <1>1, <1>2 DEF ZonesIn

LEMMA FirstCalled ==
  ASSUME NEW zone, Called(zone) # {}
  PROVE  Min(Called(zone)) \in Called(zone) /\ Min(Called(zone)) \in ZoneIds
BY FirstZone DEF Called, ZonesIn

\* No reference is lost when a zone gets its first name.
LEMMA NamesGrow ==
  ASSUME NEW z \in ZoneIds, zoneName[z] = Absent, NEW zone,
         zoneName \in [ZoneIds -> ZoneNames \cup {Absent}],
         zoneName' = [zoneName EXCEPT ![z] = zone]
  PROVE  Named \subseteq Named'
<1> SUFFICES ASSUME NEW y \in ZonesIn PROVE zoneName[y] \in Named'
  BY DEF Named
<1>1. y \in ZoneIds /\ y # z /\ zoneName'[y] = zoneName[y] /\ zoneName[y] # Absent
  BY DEF ZonesIn
<1>2. QED
  BY <1>1 DEF Named, ZonesIn

LEMMA RefInitIInv == RefInit => RefIInv
<1> SUFFICES ASSUME RefInit PROVE RefIInv
  OBVIOUS
<1> USE DEF RefInit
<1>1. RefTypeOK
  BY DEF RefTypeOK
<1>2. Resolved
  BY DEF Resolved
<1>3. CallbacksFit /\ JoinedInZone
  BY DEF CallbacksFit, JoinedInZone, RefIdle, Nothing
<1>4. QED
  BY <1>1, <1>2, <1>3 DEF RefIInv

\* Where nothing was joined there is nothing to show.
LEMMA NothingAsked == asked' = Nothing => JoinedInZone'
BY DEF Nothing, JoinedInZone

\* Of interfaces.

LEMMA AddInterfaceStep ==
  ASSUME RefIInv, NEW n \in Networks, AddInterface(n)
  PROVE  RefIInv'
<1> USE DEF AddInterface
<1>1. RefTypeOK'
  BY DEF RefIInv, RefTypeOK
<1>2. Resolved'
  BY DEF RefIInv, Resolved, Named, ZonesIn
<1>3. CallbacksFit'
  BY DEF CallbacksFit, RefIdle
<1>4. QED
  BY <1>1, <1>2, <1>3, NothingAsked DEF RefIInv

LEMMA RemoveInterfaceStep ==
  ASSUME RefIInv, NEW n \in Networks, RemoveInterface(n)
  PROVE  RefIInv'
<1> USE DEF RemoveInterface
<1>1. RefTypeOK'
  BY DEF RefIInv, RefTypeOK, Unattached, WithoutNetwork
<1>2. Resolved'
  <2>1. ASSUME NEW w \in Wifis, wifi'[w] # Absent
        PROVE  wifi'[w] \subseteq interfaces'
    BY <2>1 DEF RefIInv, Resolved, WithoutNetwork
  <2>2. ASSUME NEW r \in Attached
        PROVE  attached'[r] \in interfaces' \cup {Absent}
    BY DEF RefIInv, Resolved, Unattached
  <2>3. ASSUME NEW z \in ZoneIds
        PROVE  covers'[z] \subseteq interfaces'
    BY DEF RefIInv, Resolved
  <2>4. \A p \in policies' : {p.src, p.dest} \subseteq Named' \cup {Absent}
    BY DEF RefIInv, Resolved, Named, ZonesIn
  <2>5. QED
    BY <2>1, <2>2, <2>3, <2>4 DEF RefIInv, Resolved
<1>3. CallbacksFit'
  BY DEF CallbacksFit, RefIdle
<1>4. QED
  BY <1>1, <1>2, <1>3, NothingAsked DEF RefIInv

LEMMA InterfaceZoneStep ==
  ASSUME RefIInv, NEW n \in Networks, NEW zone \in ZoneNames \cup {Absent}, InterfaceZone(n, zone)
  PROVE  RefIInv'
<1> DEFINE old == {z \in ZonesIn : n \in covers[z]}
           without == IF old = {} THEN covers ELSE [covers EXCEPT ![Min(old)] = @ \ {n}]
<1>1. /\ n \in interfaces /\ RefIdle /\ asked' = Nothing
      /\ UNCHANGED <<interfaces, wifi, attached, policies, chains>>
      /\ \/ covers' = without /\ UNCHANGED zoneName
         \/ /\ covers' = [without EXCEPT ![Min(Called(zone))] = @ \cup {n}]
            /\ UNCHANGED zoneName
         \/ /\ NextZone # {}
            /\ covers' = [without EXCEPT ![Min(NextZone)] = {n}]
            /\ zoneName' = [zoneName EXCEPT ![Min(NextZone)] = zone]
  BY DEF InterfaceZone
<1>2. without \in [ZoneIds -> SUBSET Networks] /\ \A z \in ZoneIds : without[z] \subseteq covers[z]
  BY DEF RefIInv, RefTypeOK
<1> HIDE DEF without
<1>3. /\ covers' \in [ZoneIds -> SUBSET Networks]
      /\ \A z \in ZoneIds : covers'[z] \subseteq covers[z] \cup {n}
      /\ zoneName' \in [ZoneIds -> ZoneNames \cup {Absent}]
  BY <1>1, <1>2 DEF RefIInv, RefTypeOK
<1>4. Named \subseteq Named'
  <2>1. CASE UNCHANGED zoneName
    BY <2>1 DEF Named, ZonesIn
  <2>2. CASE NextZone # {} /\ zoneName' = [zoneName EXCEPT ![Min(NextZone)] = zone]
    BY <2>2, NewSection, NamesGrow DEF RefIInv, RefTypeOK
  <2>3. QED
    BY <1>1, <2>1, <2>2
<1>5. RefTypeOK' /\ Resolved'
  BY <1>1, <1>3, <1>4 DEF RefIInv, RefTypeOK, Resolved
<1>6. CallbacksFit'
  BY <1>1 DEF CallbacksFit, RefIdle
<1>7. QED
  BY <1>1, <1>5, <1>6, NothingAsked DEF RefIInv

LEMMA AttachStep ==
  ASSUME RefIInv, NEW r \in Attached, NEW n \in Networks \cup {Absent}, Attach(r, n)
  PROVE  RefIInv'
<1> USE DEF Attach
<1>1. RefTypeOK'
  BY DEF RefIInv, RefTypeOK
<1>2. Resolved'
  BY DEF RefIInv, RefTypeOK, Resolved, Named, ZonesIn
<1>3. CallbacksFit'
  BY DEF CallbacksFit, RefIdle
<1>4. QED
  BY <1>1, <1>2, <1>3, NothingAsked DEF RefIInv

\* Of wireless networks.

LEMMA WifiStep ==
  ASSUME RefIInv, NEW w \in Wifis,
         RemoveWifi(w) \/ \E nets \in SUBSET Networks : WifiNetworks(w, nets)
  PROVE  RefIInv'
<1> USE DEF RemoveWifi, WifiNetworks
<1>1. RefTypeOK'
  BY DEF RefIInv, RefTypeOK
<1>2. Resolved'
  BY DEF RefIInv, RefTypeOK, Resolved, Named, ZonesIn
<1>3. CallbacksFit'
  BY DEF CallbacksFit, RefIdle
<1>4. QED
  BY <1>1, <1>2, <1>3, NothingAsked DEF RefIInv

LEMMA JoinStep ==
  ASSUME RefIInv, NEW w \in Wifis, NEW n \in Networks, NEW zone \in ZoneNames \cup {Absent},
         NEW replace \in BOOLEAN, Join(w, n, zone, replace)
  PROVE  RefIInv'
<1> USE DEF Join
<1>1. RefTypeOK'
  BY DEF RefIInv, RefTypeOK
<1>2. Resolved'
  BY DEF RefIInv, Resolved, Named, ZonesIn
<1>3. n \in interfaces' /\ Joining(n, zone)'
  BY DEF Joining, LeaveJob, EnterJob, LeaveAfter, EnterAfter
<1>4. chains' # <<>>
  OBVIOUS
<1>5. QED
  BY <1>1, <1>2, <1>3, <1>4 DEF RefIInv, CallbacksFit, JoinedInZone, RefIdle

\* Of zones.

LEMMA SaveZoneStep ==
  ASSUME RefIInv, NEW z \in ZoneIds, NEW new \in ZoneNames, NEW nets \in SUBSET Networks,
         NEW out \in SUBSET ZoneNames, NEW inc \in SUBSET ZoneNames,
         SaveZone(z, new, nets, out, inc)
  PROVE  RefIInv'
<1> DEFINE old == zoneName[z]
           r == [op |-> "rename", old |-> old, new |-> new, after |-> 1]
           c == [op |-> "cover", zone |-> old, nets |-> nets, after |-> 1]
<1>1. /\ z \in ZonesIn /\ old \in ZoneNames \ {Absent} /\ old \in Named
      /\ asked' = Nothing /\ UNCHANGED <<interfaces, wifi, attached, zoneName>>
      /\ covers' \in {covers, [covers EXCEPT ![z] = {}]}
      /\ policies' \subseteq policies \cup Outgoing(old, out) \cup Incoming(old, inc)
      /\ chains' = (IF new = old THEN <<>> ELSE <<r>>) \o (IF nets = {} THEN <<>> ELSE <<c>>)
  BY DEF SaveZone, ZonesIn, Named, RefIInv, RefTypeOK
<1>2. ASSUME NEW p \in policies'
      PROVE  /\ p \in AllPolicies
             /\ {p.src, p.dest} \subseteq ZoneNames \cup {Absent}
             /\ {p.src, p.dest} \subseteq Named \cup {Absent}
  <2>1. CASE p \in policies
    BY <2>1 DEF RefIInv, RefTypeOK, Resolved
  <2>2. CASE p \in Outgoing(old, out)
    BY <1>1, <2>2 DEF Outgoing, Forwarding, AllPolicies
  <2>3. CASE p \in Incoming(old, inc)
    BY <1>1, <2>3 DEF Incoming, Forwarding, AllPolicies
  <2>4. QED
    BY <1>1, <2>1, <2>2, <2>3
<1>3. RefTypeOK' /\ Resolved'
  BY <1>1, <1>2 DEF RefIInv, RefTypeOK, Resolved, Named, ZonesIn
<1>4. CallbacksFit'
  <2>1. r \in Renames
    BY <1>1 DEF Renames
  <2>2. nets # {} => c \in Coverings
    BY <1>1 DEF Coverings
  <2> HIDE DEF r, c
  <2>3. chains' \in {<<>>, <<r>>} \/ (nets # {} /\ chains' \in {<<c>>, <<r, c>>})
    <3>1. /\ <<>> \o <<>> = <<>> /\ <<r>> \o <<>> = <<r>>
          /\ <<>> \o <<c>> = <<c>> /\ <<r>> \o <<c>> = <<r, c>>
      BY ShortLists
    <3>2. QED
      BY <1>1, <3>1
  <2>4. QED
    BY <1>1, <2>1, <2>2, <2>3 DEF CallbacksFit, ZoneForm, RefIdle
<1>5. QED
  BY <1>1, <1>3, <1>4, NothingAsked DEF RefIInv

LEMMA NewZoneStep ==
  ASSUME RefIInv, NEW zone \in ZoneNames, NEW nets \in SUBSET Networks, NewZone(zone, nets)
  PROVE  RefIInv'
<1> DEFINE new == Min(NextZone)
           c == [op |-> "cover", zone |-> zone, nets |-> nets, after |-> 1]
<1>1. /\ new \in ZoneIds /\ zoneName[new] = Absent
      /\ asked' = Nothing /\ UNCHANGED <<interfaces, wifi, attached, policies>>
      /\ zoneName' = [zoneName EXCEPT ![new] = zone]
      /\ covers' = [covers EXCEPT ![new] = {}]
      /\ chains' = IF nets = {} THEN <<>> ELSE <<c>>
  BY NewSection DEF NewZone
<1> HIDE DEF new
<1>2. Named \subseteq Named'
  BY <1>1, NamesGrow DEF RefIInv, RefTypeOK
<1>3. RefTypeOK' /\ Resolved'
  BY <1>1, <1>2 DEF RefIInv, RefTypeOK, Resolved
<1>4. CallbacksFit'
  <2>1. nets # {} => c \in Coverings
    BY DEF Coverings
  <2> HIDE DEF c
  <2>2. QED
    BY <1>1, <2>1 DEF CallbacksFit, ZoneForm, RefIdle
<1>5. QED
  BY <1>1, <1>3, <1>4, NothingAsked DEF RefIInv

LEMMA RemoveZoneStep ==
  ASSUME RefIInv, NEW z \in ZoneIds, RemoveZone(z)
  PROVE  RefIInv'
<1> USE DEF RemoveZone
<1>1. \A y \in ZonesIn : zoneName[y] # zoneName[z] => zoneName[y] \in Named'
  BY DEF ZonesIn, Named, RefIInv, RefTypeOK
<1>2. RefTypeOK'
  BY DEF RefIInv, RefTypeOK, PoliciesWithout
<1>3. ASSUME NEW p \in policies'
      PROVE  {p.src, p.dest} \subseteq Named' \cup {Absent}
  BY <1>1 DEF PoliciesWithout, RefIInv, Resolved, Named
<1>4. Resolved'
  BY <1>3 DEF RefIInv, RefTypeOK, Resolved, PoliciesWithout
<1>5. CallbacksFit'
  BY DEF CallbacksFit, RefIdle
<1>6. QED
  BY <1>2, <1>4, <1>5, NothingAsked DEF RefIInv

LEMMA AddRuleStep ==
  ASSUME RefIInv, NEW src \in ZoneNames \cup {Absent}, NEW dest \in ZoneNames \cup {Absent},
         AddRule(src, dest)
  PROVE  RefIInv'
<1>1. /\ UNCHANGED <<interfaces, wifi, attached, zoneName, covers, chains>> /\ asked' = Nothing
      /\ RefIdle /\ policies' = policies \cup {Rule(src, dest)}
      /\ {src, dest} \subseteq Named \cup {Absent}
  BY DEF AddRule
<1>2. ASSUME NEW p \in policies'
      PROVE  /\ p \in AllPolicies
             /\ {p.src, p.dest} \subseteq ZoneNames \cup {Absent}
             /\ {p.src, p.dest} \subseteq Named \cup {Absent}
  BY <1>1 DEF RefIInv, RefTypeOK, Resolved, Rule, AllPolicies
<1>3. RefTypeOK' /\ Resolved'
  BY <1>1, <1>2 DEF RefIInv, RefTypeOK, Resolved, Named, ZonesIn
<1>4. CallbacksFit'
  BY <1>1 DEF CallbacksFit, RefIdle
<1>5. QED
  BY <1>1, <1>3, <1>4, NothingAsked DEF RefIInv

\* Of the callbacks.

LEMMA RenameStep ==
  ASSUME RefIInv, NEW old \in ZoneNames \ {Absent}, NEW new \in ZoneNames, Rename(old, new),
         UNCHANGED <<interfaces, wifi, attached, covers>>
  PROVE  RefTypeOK' /\ Resolved'
<1> DEFINE renamed(zone) == IF zone = old THEN new ELSE zone
<1>1. CASE UNCHANGED <<zoneName, policies>>
  BY <1>1 DEF RefIInv, RefTypeOK, Resolved, Named, ZonesIn
<1>2. CASE /\ zoneName' = [z \in ZoneIds |-> renamed(zoneName[z])]
           /\ policies' = {[p EXCEPT !.src = renamed(@), !.dest = renamed(@)] : p \in policies}
  <2>1. \A zone \in Named : renamed(zone) \in Named' \cup {Absent}
    BY <1>2 DEF Named, ZonesIn
  <2>2. ASSUME NEW q \in policies'
        PROVE  /\ q \in AllPolicies
               /\ {q.src, q.dest} \subseteq ZoneNames \cup {Absent}
               /\ {q.src, q.dest} \subseteq Named' \cup {Absent}
    <3>1. PICK p \in policies : q = [p EXCEPT !.src = renamed(@), !.dest = renamed(@)]
      BY <1>2
    <3>2. p \in AllPolicies /\ {p.src, p.dest} \subseteq Named \cup {Absent}
      BY DEF RefIInv, Resolved
    <3>3. q \in AllPolicies /\ q.src = renamed(p.src) /\ q.dest = renamed(p.dest)
      BY <3>1, <3>2 DEF AllPolicies
    <3>4. renamed(p.src) \in Named' \cup {Absent} /\ renamed(p.dest) \in Named' \cup {Absent}
      BY <2>1, <3>2
    <3>5. QED
      BY <3>3, <3>4 DEF AllPolicies
  <2>3. zoneName' \in [ZoneIds -> ZoneNames \cup {Absent}]
    BY <1>2 DEF RefIInv, RefTypeOK
  <2>4. QED
    BY <2>2, <2>3 DEF RefIInv, RefTypeOK, Resolved
<1>3. QED
  BY <1>1, <1>2 DEF Rename

LEMMA CoverStep ==
  ASSUME RefIInv, NEW zone \in ZoneNames, NEW nets \in SUBSET Networks, Cover(zone, nets),
         UNCHANGED <<wifi, attached, zoneName, policies>>
  PROVE  RefTypeOK' /\ Resolved'
<1> DEFINE missing == nets \ interfaces
<1>1. PICK last \in nets :
        /\ missing # {} => last \in missing
        /\ interfaces' = IF missing = {} THEN interfaces ELSE interfaces \cup {last}
        /\ covers' = IF Called(zone) = {} THEN covers
                     ELSE [covers EXCEPT ![Min(Called(zone))] =
                             @ \cup (nets \cap interfaces) \cup {last}]
  BY DEF Cover
<1>2. interfaces \subseteq interfaces' /\ interfaces' \subseteq Networks /\ last \in interfaces'
  BY <1>1 DEF RefIInv, RefTypeOK
<1>3. /\ covers' \in [ZoneIds -> SUBSET Networks]
      /\ \A z \in ZoneIds : covers'[z] \subseteq interfaces'
  <2>1. CASE Called(zone) = {}
    BY <1>1, <1>2, <2>1 DEF RefIInv, RefTypeOK, Resolved
  <2>2. CASE Called(zone) # {}
    BY <1>1, <1>2, <2>2, FirstCalled DEF RefIInv, RefTypeOK, Resolved
  <2>3. QED
    BY <2>1, <2>2
<1>4. QED
  BY <1>2, <1>3 DEF RefIInv, RefTypeOK, Resolved, Named, ZonesIn

\* The second chain ends: it puts the interface, which is in no zone, into one.
LEMMA EnterStep ==
  ASSUME RefIInv, NEW n \in interfaces, NEW zone \in ZoneNames \cup {Absent}, Enter(n, zone),
         \A z \in ZoneIds : n \notin covers[z], asked = Wish(n, zone),
         UNCHANGED <<interfaces, wifi, attached, policies, asked>>
  PROVE  RefTypeOK' /\ Resolved' /\ JoinedInZone'
<1> SUFFICES RefTypeOK' /\ Resolved' /\ {z \in ZonesIn : n \in covers[z]}' =
                IF Called(zone)' = {} THEN {} ELSE {Min(Called(zone)')}
  BY DEF JoinedInZone, Wish
<1> USE DEF RefIInv
<1>1. CASE UNCHANGED <<zoneName, covers>> /\ Called(zone) = {}
  BY <1>1 DEF RefTypeOK, Resolved, Named, ZonesIn, Called
<1>2. CASE /\ Called(zone) # {} /\ UNCHANGED zoneName
           /\ covers' = [covers EXCEPT ![Min(Called(zone))] = @ \cup {n}]
  <2> DEFINE m == Min(Called(zone))
  <2>1. m \in Called(zone) /\ m \in ZoneIds /\ m \in ZonesIn
    BY <1>2, FirstCalled DEF Called
  <2> HIDE DEF m
  <2>2. covers' = [covers EXCEPT ![m] = @ \cup {n}]
    BY <1>2 DEF m
  <2>3. RefTypeOK' /\ Resolved'
    BY <1>2, <2>1, <2>2 DEF RefTypeOK, Resolved, Named, ZonesIn
  <2>4. Called(zone)' = Called(zone) /\ ZonesIn' = ZonesIn
    BY <1>2 DEF Called, ZonesIn
  <2>5. {z \in ZonesIn : n \in covers'[z]} = {m}
    BY <2>1, <2>2 DEF RefTypeOK, ZonesIn
  <2>6. QED
    BY <1>2, <2>3, <2>4, <2>5 DEF m
<1>3. CASE /\ zone # Absent /\ Called(zone) = {} /\ NextZone # {}
           /\ zoneName' = [zoneName EXCEPT ![Min(NextZone)] = zone]
           /\ covers' = [covers EXCEPT ![Min(NextZone)] = {n}]
  <2> DEFINE m == Min(NextZone)
  <2>1. m \in ZoneIds /\ zoneName[m] = Absent
    BY <1>3, NewSection
  <2> HIDE DEF m
  <2>2. covers' = [covers EXCEPT ![m] = {n}] /\ zoneName' = [zoneName EXCEPT ![m] = zone]
    BY <1>3 DEF m
  <2>3. Named \subseteq Named'
    BY <2>1, <2>2, NamesGrow DEF RefTypeOK
  <2>4. RefTypeOK' /\ Resolved'
    BY <2>1, <2>2, <2>3 DEF RefTypeOK, Resolved
  <2>5. Called(zone)' = {m}
    BY <1>3, <2>1, <2>2 DEF Called, ZonesIn, RefTypeOK
  <2>6. Min(Called(zone)') = m
    BY <2>1, <2>5, FirstZone
  <2>7. {z \in ZonesIn : n \in covers[z]}' = {m}
    BY <1>3, <2>1, <2>2 DEF ZonesIn, RefTypeOK
  <2>8. QED
    BY <2>4, <2>5, <2>6, <2>7
<1>4. Called(Absent) = {}
  BY DEF Called, ZonesIn
<1>5. QED
  BY <1>1, <1>2, <1>3, <1>4 DEF Enter

\* The first callback is put off, or it runs.
LEMMA CallbackWaits ==
  ASSUME Callback, NEW head, Head(chains) = head, head.after \in {2, 3}
  PROVE  /\ chains' = Append(Tail(chains), [head EXCEPT !.after = @ - 1])
         /\ UNCHANGED <<interfaces, zoneName, covers, policies>>
<1>1. Head(chains).after > 1
  OBVIOUS
<1>2. QED
  BY <1>1, Zenon DEF Callback

LEMMA CallbackRuns ==
  ASSUME Callback, NEW head, Head(chains) = head, head.after = 1
  PROVE  /\ chains' = Tail(chains)
         /\ head.op = "rename" => Rename(head.old, head.new) /\ UNCHANGED <<interfaces, covers>>
         /\ head.op = "cover" => Cover(head.zone, head.nets) /\ UNCHANGED <<zoneName, policies>>
         /\ head.op = "leave" => /\ covers' = [z \in ZoneIds |-> covers[z] \ {head.net}]
                                /\ UNCHANGED <<interfaces, zoneName, policies>>
         /\ head.op = "enter" => Enter(head.net, head.zone) /\ UNCHANGED <<interfaces, policies>>
<1>1. chains' = Tail(chains)
  BY DEF Callback
<1>2. \/ /\ head.op = "rename" /\ Rename(head.old, head.new) /\ UNCHANGED <<interfaces, covers>>
      \/ /\ head.op = "cover" /\ Cover(head.zone, head.nets) /\ UNCHANGED <<zoneName, policies>>
      \/ /\ head.op = "leave" /\ covers' = [z \in ZoneIds |-> covers[z] \ {head.net}]
         /\ UNCHANGED <<interfaces, zoneName, policies>>
      \/ /\ head.op = "enter" /\ Enter(head.net, head.zone) /\ UNCHANGED <<interfaces, policies>>
  <2>1. ~(Head(chains).after > 1)
    OBVIOUS
  <2>2. QED
    BY <2>1, Zenon DEF Callback
<1>3. QED
  BY <1>1, <1>2

LEMMA ZoneFormStep ==
  ASSUME RefIInv, ZoneForm, Callback
  PROVE  RefIInv'
<1>1. chains # <<>> /\ UNCHANGED <<wifi, attached, asked>> /\ asked' = Nothing
  BY DEF Callback, ZoneForm
<1>2. ASSUME NEW r \in Renames, Head(chains) = r, NEW rest, Tail(chains) = rest
      PROVE  RefTypeOK' /\ Resolved' /\ chains' = rest
  <2>1. /\ r.op = "rename" /\ r.old \in ZoneNames \ {Absent} /\ r.new \in ZoneNames
        /\ r.after = 1
    BY DEF Renames
  <2>2. chains' = rest /\ Rename(r.old, r.new) /\ UNCHANGED <<interfaces, covers>>
    BY <1>2, <2>1, CallbackRuns
  <2>3. QED
    BY <1>1, <2>1, <2>2, RenameStep
<1>3. ASSUME NEW c \in Coverings, chains = <<c>>
      PROVE  RefTypeOK' /\ Resolved' /\ chains' = <<>>
  <2>1. /\ c.op = "cover" /\ c.zone \in ZoneNames /\ c.nets \in SUBSET Networks /\ c.after = 1
        /\ Head(chains) = c /\ Tail(chains) = <<>>
    BY <1>3 DEF Coverings
  <2>2. chains' = <<>> /\ Cover(c.zone, c.nets) /\ UNCHANGED <<zoneName, policies>>
    BY <2>1, CallbackRuns
  <2>3. QED
    BY <1>1, <2>1, <2>2, CoverStep
<1>4. CASE \E r \in Renames : chains = <<r>>
  <2>1. PICK r \in Renames : chains = <<r>>
    BY <1>4
  <2>2. Head(chains) = r /\ Tail(chains) = <<>>
    BY <2>1
  <2>3. RefTypeOK' /\ Resolved' /\ chains' = <<>>
    BY <1>2, <2>2
  <2>4. QED
    BY <1>1, <2>3, NothingAsked DEF RefIInv, CallbacksFit, RefIdle
<1>5. CASE \E c \in Coverings : chains = <<c>>
  BY <1>1, <1>3, <1>5, NothingAsked DEF RefIInv, CallbacksFit, RefIdle
<1>6. CASE \E r \in Renames, c \in Coverings : chains = <<r, c>>
  <2>1. PICK r \in Renames, c \in Coverings : chains = <<r, c>>
    BY <1>6
  <2>2. Head(chains) = r /\ Tail(chains) = <<c>>
    BY <2>1
  <2>3. RefTypeOK' /\ Resolved' /\ chains' = <<c>>
    BY <1>2, <2>2
  <2>4. ZoneForm'
    BY <1>1, <2>3 DEF ZoneForm
  <2>5. QED
    BY <1>1, <2>3, <2>4, NothingAsked DEF RefIInv, CallbacksFit
<1>7. QED
  BY <1>4, <1>5, <1>6 DEF ZoneForm

LEMMA JoiningStep ==
  ASSUME RefIInv, NEW n \in interfaces, NEW zone \in ZoneNames \cup {Absent},
         Joining(n, zone), Callback
  PROVE  RefIInv'
<1>1. UNCHANGED <<wifi, attached, asked>> /\ asked = Wish(n, zone)
  BY DEF Callback, Joining
<1>2. /\ [LeaveJob(n, 2) EXCEPT !.after = @ - 1] = LeaveJob(n, 1)
      /\ [EnterJob(n, zone, 3) EXCEPT !.after = @ - 1] = EnterJob(n, zone, 2)
      /\ [EnterJob(n, zone, 2) EXCEPT !.after = @ - 1] = EnterJob(n, zone, 1)
  BY DEF LeaveJob, EnterJob
<1>3. ASSUME UNCHANGED <<interfaces, zoneName, covers, policies>>, Joining(n, zone)',
             chains' # <<>>
      PROVE  RefIInv'
  <2>1. RefTypeOK' /\ Resolved'
    BY <1>1, <1>3 DEF RefIInv, RefTypeOK, Resolved, Named, ZonesIn
  <2>2. QED
    BY <1>3, <2>1 DEF RefIInv, CallbacksFit, JoinedInZone, RefIdle
<1>4. CASE chains = <<LeaveJob(n, 2), EnterJob(n, zone, 3)>>
  <2>1. Head(chains) = LeaveJob(n, 2) /\ Tail(chains) = <<EnterJob(n, zone, 3)>>
        /\ LeaveJob(n, 2).after = 2
    BY <1>4 DEF LeaveJob
  <2>2. /\ chains' = Append(<<EnterJob(n, zone, 3)>>, LeaveJob(n, 1))
        /\ UNCHANGED <<interfaces, zoneName, covers, policies>>
    BY <1>2, <2>1, CallbackWaits
  <2>3. chains' = <<EnterJob(n, zone, 3), LeaveJob(n, 1)>>
    BY <2>2, ShortLists
  <2>4. Joining(n, zone)'
    BY <1>1, <2>3 DEF Joining
  <2>5. QED
    BY <1>3, <2>2, <2>3, <2>4
<1>5. CASE chains = <<EnterJob(n, zone, 3), LeaveJob(n, 1)>>
  <2>1. Head(chains) = EnterJob(n, zone, 3) /\ Tail(chains) = <<LeaveJob(n, 1)>>
        /\ EnterJob(n, zone, 3).after = 3
    BY <1>5 DEF EnterJob
  <2>2. /\ chains' = Append(<<LeaveJob(n, 1)>>, EnterJob(n, zone, 2))
        /\ UNCHANGED <<interfaces, zoneName, covers, policies>>
    BY <1>2, <2>1, CallbackWaits
  <2>3. chains' = <<LeaveJob(n, 1), EnterJob(n, zone, 2)>>
    BY <2>2, ShortLists
  <2>4. Joining(n, zone)'
    BY <1>1, <2>3 DEF Joining
  <2>5. QED
    BY <1>3, <2>2, <2>3, <2>4
<1>6. CASE chains = <<LeaveJob(n, 1), EnterJob(n, zone, 2)>>
  <2>1. /\ Head(chains) = LeaveJob(n, 1) /\ Tail(chains) = <<EnterJob(n, zone, 2)>>
        /\ LeaveJob(n, 1).after = 1 /\ LeaveJob(n, 1).op = "leave" /\ LeaveJob(n, 1).net = n
    BY <1>6 DEF LeaveJob
  <2>2. /\ chains' = <<EnterJob(n, zone, 2)>> /\ UNCHANGED <<interfaces, zoneName, policies>>
        /\ covers' = [z \in ZoneIds |-> covers[z] \ {n}]
    <3> DEFINE leaving == LeaveJob(n, 1)
    <3>1. Head(chains) = leaving /\ leaving.after = 1 /\ leaving.op = "leave" /\ leaving.net = n
      BY <2>1
    <3> HIDE DEF leaving
    <3>2. /\ chains' = Tail(chains) /\ UNCHANGED <<interfaces, zoneName, policies>>
          /\ covers' = [z \in ZoneIds |-> covers[z] \ {n}]
      BY <3>1, CallbackRuns
    <3>3. QED
      BY <2>1, <3>2
  <2>3. RefTypeOK' /\ Resolved'
    BY <1>1, <2>2 DEF RefIInv, RefTypeOK, Resolved, Named, ZonesIn
  <2>4. Joining(n, zone)' /\ n \in interfaces' /\ chains' # <<>>
    BY <1>1, <2>2 DEF Joining
  <2>5. QED
    BY <2>3, <2>4 DEF RefIInv, CallbacksFit, JoinedInZone, RefIdle
<1>7. CASE chains = <<EnterJob(n, zone, 2)>> /\ \A z \in ZoneIds : n \notin covers[z]
  <2>1. Head(chains) = EnterJob(n, zone, 2) /\ Tail(chains) = <<>>
        /\ EnterJob(n, zone, 2).after = 2
    BY <1>7 DEF EnterJob
  <2>2. /\ chains' = Append(<<>>, EnterJob(n, zone, 1))
        /\ UNCHANGED <<interfaces, zoneName, covers, policies>>
    BY <1>2, <2>1, CallbackWaits
  <2>3. chains' = <<EnterJob(n, zone, 1)>>
    BY <2>2, ShortLists
  <2>4. QED
    BY <1>1, <1>3, <1>7, <2>2, <2>3 DEF Joining
<1>8. CASE chains = <<EnterJob(n, zone, 1)>> /\ \A z \in ZoneIds : n \notin covers[z]
  <2>1. /\ Head(chains) = EnterJob(n, zone, 1) /\ Tail(chains) = <<>>
        /\ EnterJob(n, zone, 1).after = 1 /\ EnterJob(n, zone, 1).op = "enter"
        /\ EnterJob(n, zone, 1).net = n /\ EnterJob(n, zone, 1).zone = zone
    BY <1>8 DEF EnterJob
  <2>2. chains' = <<>> /\ Enter(n, zone) /\ UNCHANGED <<interfaces, policies>>
    BY <2>1, CallbackRuns
  <2>3. QED
    BY <1>1, <1>8, <2>2, EnterStep DEF RefIInv, CallbacksFit, RefIdle
<1>9. QED
  BY <1>4, <1>5, <1>6, <1>7, <1>8 DEF Joining

LEMMA RefNextIInv == RefIInv /\ [RefNext]_refVars => RefIInv'
<1> SUFFICES ASSUME RefIInv, [RefNext]_refVars PROVE RefIInv'
  OBVIOUS
<1>1. CASE UNCHANGED refVars
  BY <1>1 DEF refVars, RefIInv, RefTypeOK, Resolved, CallbacksFit, JoinedInZone, RefIdle,
              ZoneForm, Joining, Named, ZonesIn, Called
<1>2. CASE Callback
  <2>1. ~RefIdle
    BY <1>2 DEF Callback, RefIdle
  <2>2. QED
    BY <1>2, <2>1, ZoneFormStep, JoiningStep DEF RefIInv, CallbacksFit
<1>3. CASE RefNext /\ ~Callback
  BY <1>3, AddInterfaceStep, RemoveInterfaceStep, InterfaceZoneStep, AttachStep, WifiStep,
     JoinStep, SaveZoneStep, NewZoneStep, RemoveZoneStep, AddRuleStep DEF RefNext
<1>4. QED
  BY <1>1, <1>2, <1>3

LEMMA RefIInvSound == RefIInv => RefsSound
BY DEF RefIInv, RefsSound, RefsResolve, Resolved, ZonesIn

-----------------------------------------------------------------------------
(* A form and its dialog.  While a dialog is open its copies are of the      *)
(* cache as it is, and the cache is as it was before but for a row just     *)
(* added; while a save is under way the cache has what is demanded.         *)

FormTypes ==
  /\ device \in Configs /\ cache \in Configs /\ before \in Configs
  /\ copy \in [Maps -> [Sections -> Settings]]
  /\ input \in [Maps -> [Sections -> [Opts -> Values \cup {Bad, Empty}]]]
  /\ rows \subseteq Sections
  /\ {dialog, added} \subseteq Sections \cup {None}

SavingFits ==
  /\ dialog = None => added = None
  /\ ~FormIdle => saving.map \in Maps /\ (saving.map = "dialog" <=> dialog # None)
  /\ ~FormIdle /\ (failed => saving.map = "dialog") => cache = saving.demanded

DialogFits ==
  FormIdle /\ dialog # None =>
    /\ copy.dialog = Loaded(cache)
    /\ added = None => cache = before
    /\ added # None => before[added] = None /\ cache = [before EXCEPT ![added] = Blank]
    /\ ~failed => rows = In(before) /\ copy.page = Loaded(before)

FormIInv == FormTypes /\ SavingFits /\ DialogFits /\ CopiesFresh

LEMMA LoadedTypes ==
  /\ \A config \in Configs : Loaded(config) \in [Sections -> Settings]
  /\ NoMap \in [Sections -> Settings] /\ Blank \in Settings
BY DEF Loaded, NoMap, Blank, Settings, Configs

\* What a save that is not refused leaves in the cache is what the form shows,
\* if the copies of the sections edited are what the cache has and a section
\* that no row shows is a new one.
LEMMA ParsedAsShown ==
  ASSUME FormTypes, NEW m \in Maps, NEW config \in Configs, ~Refused(m, config),
         \A s \in Edited(m) : config[s] = None \/ config[s] = copy[m][s],
         m = "page" => \A s \in Sections \ rows : config[s] \in {None, Blank}
  PROVE  AfterParse(m, config) = Demanded(m, config)
<1> SUFFICES ASSUME NEW s \in Sections
             PROVE  AfterParse(m, config)[s] = Demanded(m, config)[s]
  BY DEF AfterParse, Demanded
<1>1. CASE config[s] = None
  BY <1>1 DEF AfterParse, Demanded
<1>2. CASE config[s] # None /\ s \in Edited(m)
  <2>1. s \in Parsed(m, config)
    BY <1>2 DEF Parsed, In
  <2>2. ASSUME NEW o \in Opts
        PROVE  (IF o \in OptsOf(m) THEN Written(m, s, o, config[s][o]) ELSE config[s][o])
               = IF o \notin OptsOf(m) THEN config[s][o]
                 ELSE IF Active(m, s, o) THEN input[m][s][o] ELSE Empty
    <3>1. o \in OptsOf(m) => ~Invalid(m, s, o) /\ ~Missing(m, s, o)
      BY <2>1 DEF Refused
    <3>2. config[s][o] = copy[m][s][o]
      BY <1>2
    <3>3. QED
      BY <3>1, <3>2 DEF Written
  <2>3. QED
    BY <1>2, <2>1, <2>2 DEF AfterParse, Demanded
<1>3. CASE config[s] # None /\ s \notin Edited(m)
  <2>1. Demanded(m, config)[s] = config[s]
    BY <1>3 DEF Demanded
  <2>2. CASE s \notin Parsed(m, config)
    BY <2>1, <2>2 DEF AfterParse
  <2>3. CASE s \in Parsed(m, config)
    <3>1. m = "page" /\ config[s] = Blank
      BY <1>3, <2>3 DEF Maps, Parsed, Edited
    <3>2. \A o \in Opts : Written(m, s, o, config[s][o]) = Empty /\ config[s][o] = Empty
      BY <1>3, <3>1 DEF Written, Active, Blank
    <3>3. AfterParse(m, config)[s] = [o \in Opts |-> Empty]
      BY <1>3, <2>3, <3>2 DEF AfterParse
    <3>4. QED
      BY <2>1, <3>1, <3>3 DEF Blank
  <2>4. QED
    BY <2>2, <2>3
<1>4. QED
  BY <1>1, <1>2, <1>3

\* parse() writes no invalid value, also when others are refused.
LEMMA ParsedTypes ==
  ASSUME FormTypes, NEW m \in Maps, NEW config \in Configs
  PROVE  AfterParse(m, config) \in Configs
<1> SUFFICES ASSUME NEW s \in Sections
             PROVE  AfterParse(m, config)[s] \in Settings \cup {None}
  BY DEF AfterParse, Configs
<1>1. CASE config[s] = None \/ s \notin Parsed(m, config)
  BY <1>1 DEF AfterParse, Configs
<1>2. CASE ~(config[s] = None \/ s \notin Parsed(m, config))
  <2>1. config[s] \in Settings
    BY <1>2 DEF Configs
  <2>2. ASSUME NEW o \in Opts
        PROVE  Written(m, s, o, config[s][o]) \in Values \cup {Empty}
    <3>1. config[s][o] \in Values \cup {Empty}
      BY <2>1 DEF Settings
    <3>2. input[m][s][o] \in Values \cup {Bad, Empty}
      BY DEF FormTypes
    <3>3. Active(m, s, o) /\ ~Invalid(m, s, o) => input[m][s][o] \in Values \cup {Empty}
      BY <3>2 DEF Invalid
    <3>4. QED
      BY <3>1, <3>3 DEF Written
  <2>3. \A o \in Opts : config[s][o] \in Values \cup {Empty}
    BY <2>1 DEF Settings
  <2>4. QED
    BY <1>2, <2>2, <2>3 DEF AfterParse, Settings
<1>3. QED
  BY <1>1, <1>2

LEMMA FormInitIInv == FormInit => FormIInv
<1> SUFFICES ASSUME FormInit PROVE FormIInv
  OBVIOUS
<1> USE DEF FormInit
<1>1. device \in Configs /\ cache = device /\ before = device
  BY LoadedTypes DEF Configs
<1>2. /\ copy = [page |-> Loaded(device), dialog |-> NoMap]
      /\ Loaded(device) \in [Sections -> Settings] /\ NoMap \in [Sections -> Settings]
  BY <1>1, LoadedTypes
<1>3. copy \in [Maps -> [Sections -> Settings]]
  BY <1>2 DEF Maps
<1>4. input \in [Maps -> [Sections -> [Opts -> Values \cup {Bad, Empty}]]]
  BY <1>3 DEF Settings
<1>5. FormTypes
  BY <1>1, <1>3, <1>4 DEF FormTypes, In
<1>6. SavingFits /\ DialogFits /\ CopiesFresh
  BY <1>1, <1>2 DEF SavingFits, DialogFits, CopiesFresh, FormIdle
<1>7. QED
  BY <1>5, <1>6 DEF FormIInv

\* The configuration and the form agree, for the sections a map edits.
Agrees(m, config) ==
  /\ \A s \in Edited(m) : config[s] = None \/ config[s] = copy[m][s]
  /\ m = "page" => \A s \in Sections \ rows : config[s] \in {None, Blank}

\* A button of the form or the dialog that saves.
LEMMA SaveFormStep ==
  ASSUME FormIInv, NEW m \in Maps, NEW config \in Configs, FormIdle, SaveForm(m, config),
         m = "dialog" <=> dialog # None, UNCHANGED <<device, rows, before>>,
         copy' \in [Maps -> [Sections -> Settings]],
         input' \in [Maps -> [Sections -> [Opts -> Values \cup {Bad, Empty}]]],
         (failed => m = "dialog") => Agrees(m, config)
  PROVE  FormIInv'
<1>1. cache' \in Configs /\ cache' = AfterParse(m, config)
  BY ParsedTypes DEF SaveForm, FormIInv
<1>2. CASE Refused(m, config)
  <2>1. failed' = TRUE /\ dialog' = None /\ saving' = saving /\ added' = None
    BY <1>2 DEF SaveForm, FormIInv, SavingFits, Maps
  <2>2. FormTypes'
    BY <1>1, <2>1 DEF FormIInv, FormTypes
  <2>3. QED
    BY <2>1, <2>2 DEF FormIInv, SavingFits, DialogFits, CopiesFresh, FormIdle
<1>3. CASE ~Refused(m, config)
  <2>1. /\ saving' = [map |-> m, demanded |-> Demanded(m, config)]
        /\ UNCHANGED <<failed, dialog, added>>
    BY <1>3 DEF SaveForm
  <2>2. saving'.map = m /\ saving'.demanded = Demanded(m, config) /\ ~FormIdle'
    BY <2>1 DEF FormIdle, NotSaving, Maps
  <2>3. (failed => m = "dialog") => cache' = saving'.demanded
    BY <1>1, <1>3, <2>2, ParsedAsShown DEF Agrees, FormIInv
  <2>4. FormTypes'
    BY <1>1, <2>1 DEF FormIInv, FormTypes
  <2>5. SavingFits'
    BY <2>1, <2>2, <2>3 DEF FormIInv, SavingFits
  <2>6. QED
    BY <2>2, <2>4, <2>5 DEF FormIInv, DialogFits, CopiesFresh
<1>4. QED
  BY <1>2, <1>3

\* Closing a dialog does not touch what is typed or copied on the page.
LEMMA WithDialogTypes ==
  ASSUME NEW T, NEW maps \in [Maps -> T], NoMap \in T
  PROVE  /\ WithDialog(maps) \in [Maps -> T]
         /\ WithDialog(maps).page = maps.page
BY DEF WithDialog, Maps

LEMMA MapTypes ==
  ASSUME FormTypes
  PROVE  /\ WithDialog(copy) \in [Maps -> [Sections -> Settings]]
         /\ WithDialog(copy).page = copy.page
         /\ WithDialog(input) \in [Maps -> [Sections -> [Opts -> Values \cup {Bad, Empty}]]]
<1>1. NoMap \in [Sections -> Settings]
  BY LoadedTypes
<1>2. NoMap \in [Sections -> [Opts -> Values \cup {Bad, Empty}]]
  BY <1>1 DEF Settings
<1>3. QED
  BY <1>1, <1>2, WithDialogTypes DEF FormTypes

\* What the page shows and what the cache has, with a section added or removed.
LEMMA PageAgrees ==
  ASSUME FormIInv, FormIdle, dialog = None, ~failed, NEW config \in Configs,
         \A s \in Sections : config[s] = cache[s] \/ config[s] = None
                             \/ (config[s] = Blank /\ cache[s] = None)
  PROVE  Agrees("page", config)
<1>1. rows = In(cache) /\ copy.page = Loaded(cache)
  BY DEF FormIInv, CopiesFresh
<1>2. ASSUME NEW s \in rows
      PROVE  config[s] = None \/ config[s] = copy["page"][s]
  BY <1>1 DEF In, Loaded
<1>3. ASSUME NEW s \in Sections \ rows
      PROVE  config[s] \in {None, Blank}
  BY <1>1 DEF In
<1>4. QED
  BY <1>2, <1>3 DEF Agrees, Edited

LEMMA SaveStep ==
  ASSUME FormIInv, NEW m \in Maps, Save(m)
  PROVE  FormIInv'
<1>1. /\ FormIdle /\ (m = "dialog" <=> dialog # None) /\ SaveForm(m, cache)
      /\ UNCHANGED <<device, rows, before>> /\ cache \in Configs
      /\ copy' \in [Maps -> [Sections -> Settings]]
      /\ input' \in [Maps -> [Sections -> [Opts -> Values \cup {Bad, Empty}]]]
  BY MapTypes DEF Save, FormIInv, FormTypes
<1>2. CASE m = "dialog"
  <2>1. copy["dialog"] = Loaded(cache) /\ Edited(m) = {dialog} /\ dialog \in Sections
    BY <1>1, <1>2 DEF FormIInv, FormTypes, DialogFits, Edited
  <2>2. Agrees(m, cache)
    BY <1>2, <2>1 DEF Agrees, Loaded
  <2>3. QED
    BY <1>1, <2>2, SaveFormStep
<1>3. CASE m = "page"
  BY <1>1, <1>3, PageAgrees, SaveFormStep
<1>4. QED
  BY <1>2, <1>3 DEF Maps

LEMMA RowStep ==
  ASSUME FormIInv, NEW s \in Sections, RemoveRow(s) \/ AddRow(s)
  PROVE  FormIInv'
<1>1. /\ FormIdle /\ dialog = None /\ UNCHANGED <<device, copy, input, rows, before>>
      /\ cache \in [Sections -> Settings \cup {None}]
      /\ copy' \in [Maps -> [Sections -> Settings]]
      /\ input' \in [Maps -> [Sections -> [Opts -> Values \cup {Bad, Empty}]]]
  BY DEF RemoveRow, AddRow, FormIInv, FormTypes, Configs
<1>2. ASSUME NEW setting \in {None, Blank}, SaveForm("page", [cache EXCEPT ![s] = setting]),
             setting = None \/ cache[s] = None
      PROVE  FormIInv'
  <2> DEFINE config == [cache EXCEPT ![s] = setting]
  <2>1. config \in Configs
    BY <1>1, LoadedTypes DEF Configs
  <2>2. \A t \in Sections : config[t] = cache[t] \/ config[t] = None
                            \/ (config[t] = Blank /\ cache[t] = None)
    BY <1>1, <1>2
  <2> HIDE DEF config
  <2>3. ~failed => Agrees("page", config)
    BY <1>1, <2>1, <2>2, PageAgrees
  <2>4. SaveForm("page", config)
    BY <1>2 DEF config
  <2>5. "page" \in Maps /\ ("page" = "dialog" <=> dialog # None)
    BY <1>1 DEF Maps
  <2>6. QED
    BY <1>1, <2>1, <2>3, <2>4, <2>5, SaveFormStep
<1>3. QED
  BY <1>2 DEF RemoveRow, AddRow

LEMMA TypeStep ==
  ASSUME FormIInv, NEW m \in Maps, NEW s \in Sections, NEW o \in Opts,
         NEW v \in Values \cup {Bad, Empty}, Type(m, s, o, v)
  PROVE  FormIInv'
<1>1. /\ input' = [input EXCEPT ![m][s][o] = v]
      /\ UNCHANGED <<device, cache, copy, rows, dialog, added, saving, failed, before>>
  BY DEF Type
<1>2. input' \in [Maps -> [Sections -> [Opts -> Values \cup {Bad, Empty}]]]
  BY <1>1 DEF FormIInv, FormTypes
<1>3. FormTypes'
  BY <1>1, <1>2 DEF FormIInv, FormTypes
<1>4. QED
  BY <1>1, <1>3 DEF FormIInv, SavingFits, DialogFits, CopiesFresh, FormIdle

LEMMA ResetStep ==
  ASSUME FormIInv, Reset
  PROVE  FormIInv'
<1>1. /\ FormIdle /\ dialog = None /\ rows' = In(cache)
      /\ input' = [input EXCEPT !.page = copy.page]
      /\ UNCHANGED <<device, cache, copy, dialog, added, saving, failed, before>>
  BY DEF Reset
<1>2. copy.page \in [Sections -> [Opts -> Values \cup {Bad, Empty}]]
  BY DEF FormIInv, FormTypes, Maps, Settings
<1>3. input' \in [Maps -> [Sections -> [Opts -> Values \cup {Bad, Empty}]]]
  BY <1>1, <1>2 DEF FormIInv, FormTypes
<1>4. FormTypes'
  BY <1>1, <1>3 DEF FormIInv, FormTypes, In
<1>5. QED
  BY <1>1, <1>4 DEF FormIInv, SavingFits, DialogFits, CopiesFresh, FormIdle

\* The map of a dialog just opened.
LEMMA OpenedMap ==
  ASSUME FormTypes, NEW s \in Sections, NEW config \in Configs, OpenDialog(s, config)
  PROVE  /\ copy' \in [Maps -> [Sections -> Settings]]
         /\ copy'.page = copy.page /\ copy'.dialog = Loaded(config)
         /\ input' \in [Maps -> [Sections -> [Opts -> Values \cup {Bad, Empty}]]]
<1>1. /\ Loaded(config) \in [Sections -> Settings]
      /\ Loaded(config) \in [Sections -> [Opts -> Values \cup {Bad, Empty}]]
  BY LoadedTypes DEF Settings
<1>2. QED
  BY <1>1 DEF OpenDialog, FormTypes, Maps

LEMMA EditRowStep ==
  ASSUME FormIInv, NEW s \in Sections, EditRow(s)
  PROVE  FormIInv'
<1>1. /\ FormIdle /\ dialog = None /\ before' = cache /\ OpenDialog(s, cache)
      /\ UNCHANGED <<device, cache, rows, added, saving, failed>>
      /\ cache \in Configs /\ FormTypes
  BY DEF EditRow, FormIInv, FormTypes
<1>2. /\ copy' \in [Maps -> [Sections -> Settings]]
      /\ copy'.page = copy.page /\ copy'.dialog = Loaded(cache)
      /\ input' \in [Maps -> [Sections -> [Opts -> Values \cup {Bad, Empty}]]]
  BY <1>1, OpenedMap
<1>3. dialog' = s /\ dialog' # None /\ added = None
  BY <1>1, NeedsAssumption DEF OpenDialog, FormIInv, SavingFits
<1>4. FormTypes'
  BY <1>1, <1>2, <1>3 DEF FormTypes
<1>5. SavingFits' /\ CopiesFresh'
  BY <1>1, <1>3 DEF SavingFits, CopiesFresh, FormIdle
<1>6. ~failed => rows = In(cache) /\ copy.page = Loaded(cache)
  BY <1>1 DEF FormIInv, CopiesFresh
<1>7. DialogFits'
  BY <1>1, <1>2, <1>3, <1>6 DEF DialogFits, In, Loaded
<1>8. QED
  BY <1>4, <1>5, <1>7 DEF FormIInv

LEMMA AddInDialogStep ==
  ASSUME FormIInv, NEW s \in Sections, AddInDialog(s)
  PROVE  FormIInv'
<1>1. /\ FormIdle /\ dialog = None /\ before' = cache /\ cache[s] = None
      /\ cache' = [cache EXCEPT ![s] = Blank] /\ added' = s /\ OpenDialog(s, cache')
      /\ UNCHANGED <<device, rows, saving, failed>>
      /\ cache \in [Sections -> Settings \cup {None}] /\ FormTypes
  BY DEF AddInDialog, FormIInv, FormTypes, Configs
<1>2. cache' \in Configs /\ cache \in Configs
  BY <1>1, LoadedTypes DEF Configs
<1>3. /\ copy' \in [Maps -> [Sections -> Settings]]
      /\ copy'.page = copy.page /\ copy'.dialog = Loaded(cache')
      /\ input' \in [Maps -> [Sections -> [Opts -> Values \cup {Bad, Empty}]]]
  BY <1>1, <1>2, OpenedMap
<1>4. dialog' = s /\ s # None
  BY <1>1, NeedsAssumption DEF OpenDialog
<1>5. FormTypes'
  BY <1>1, <1>2, <1>3, <1>4 DEF FormTypes
<1>6. SavingFits' /\ CopiesFresh'
  BY <1>1, <1>4 DEF SavingFits, CopiesFresh, FormIdle
<1>7. ~failed => rows = In(cache) /\ copy.page = Loaded(cache)
  BY <1>1 DEF FormIInv, CopiesFresh
<1>8. DialogFits'
  BY <1>1, <1>3, <1>4, <1>7 DEF DialogFits, In, Loaded
<1>9. QED
  BY <1>5, <1>6, <1>8 DEF FormIInv

\* What is left when a dialog is dismissed is what there was before.
LEMMA DismissedAsBefore ==
  ASSUME FormIInv, FormIdle, dialog # None
  PROVE  WithoutAdded = before /\ before \in Configs
<1>1. /\ added = None => cache = before
      /\ added # None => before[added] = None /\ cache = [before EXCEPT ![added] = Blank]
      /\ added \in Sections \cup {None} /\ before \in [Sections -> Settings \cup {None}]
  BY DEF FormIInv, FormTypes, DialogFits, Configs
<1>2. CASE added = None
  BY <1>1, <1>2 DEF WithoutAdded, Configs
<1>3. CASE added # None
  BY <1>1, <1>3 DEF WithoutAdded, Configs
<1>4. QED
  BY <1>2, <1>3

LEMMA DismissStep ==
  ASSUME FormIInv, Dismiss
  PROVE  FormIInv'
<1>1. /\ FormIdle /\ dialog # None /\ dialog' = None /\ added' = None
      /\ cache' = before /\ before \in Configs /\ FormTypes
      /\ UNCHANGED <<device, rows, saving, failed, before>>
      /\ copy' \in [Maps -> [Sections -> Settings]] /\ copy'.page = copy.page
      /\ input' \in [Maps -> [Sections -> [Opts -> Values \cup {Bad, Empty}]]]
  BY DismissedAsBefore, MapTypes DEF Dismiss, FormIInv
<1>2. FormTypes'
  BY <1>1 DEF FormTypes
<1>3. SavingFits' /\ DialogFits'
  BY <1>1 DEF SavingFits, DialogFits, FormIdle
<1>4. CopiesFresh'
  BY <1>1 DEF FormIInv, DialogFits, CopiesFresh, In, Loaded
<1>5. QED
  BY <1>2, <1>3, <1>4 DEF FormIInv

LEMMA SavedStep ==
  ASSUME FormIInv, Saved
  PROVE  FormIInv'
<1> DEFINE m == saving.map
           read == [copy EXCEPT ![m] = Loaded(cache), ![AlsoLoaded] = Loaded(cache)]
           shows == [input EXCEPT ![m] = copy'[m], !.page = copy'.page]
<1>1. /\ ~FormIdle /\ device' = cache /\ dialog' = None /\ copy' = WithDialog(read)
      /\ input' = WithDialog(shows) /\ rows' = In(cache) /\ saving' = NotSaving
      /\ added' = (IF m = "dialog" THEN None ELSE added)
      /\ failed' = FALSE /\ UNCHANGED <<cache, before>>
  BY DEF Saved, AddedWhenSaved
<1>2. m \in Maps /\ cache \in Configs /\ Loaded(cache) \in [Sections -> Settings]
  BY <1>1, LoadedTypes DEF FormIInv, FormTypes, SavingFits
<1>3. NoMap \in [Sections -> Settings] /\ NoMap \in [Sections -> [Opts -> Values \cup {Bad, Empty}]]
  BY LoadedTypes DEF Settings
<1>4. read \in [Maps -> [Sections -> Settings]] /\ read.page = Loaded(cache)
  BY <1>2 DEF AlsoLoaded, FormIInv, FormTypes, Maps
<1>5. copy' \in [Maps -> [Sections -> Settings]] /\ copy'.page = Loaded(cache)
  BY <1>1, <1>3, <1>4, WithDialogTypes
<1>6. shows \in [Maps -> [Sections -> [Opts -> Values \cup {Bad, Empty}]]]
  <2>1. [Sections -> Settings] \subseteq [Sections -> [Opts -> Values \cup {Bad, Empty}]]
    BY DEF Settings
  <2>2. copy'[m] \in [Sections -> [Opts -> Values \cup {Bad, Empty}]]
        /\ copy'.page \in [Sections -> [Opts -> Values \cup {Bad, Empty}]]
    BY <1>2, <1>5, <2>1 DEF Maps
  <2>3. input \in [Maps -> [Sections -> [Opts -> Values \cup {Bad, Empty}]]]
    BY DEF FormIInv, FormTypes
  <2>4. QED
    BY <2>2, <2>3
<1> HIDE DEF read, shows
<1>7. input' \in [Maps -> [Sections -> [Opts -> Values \cup {Bad, Empty}]]]
  BY <1>1, <1>3, <1>6, WithDialogTypes
<1>8. added' = None
  BY <1>1, <1>2 DEF FormIInv, SavingFits, Maps
<1>9. FormTypes'
  BY <1>1, <1>5, <1>7, <1>8 DEF FormIInv, FormTypes, In
<1>10. SavingFits' /\ DialogFits' /\ CopiesFresh'
  BY <1>1, <1>5, <1>8 DEF SavingFits, DialogFits, CopiesFresh, FormIdle, In, Loaded
<1>11. QED
  BY <1>9, <1>10 DEF FormIInv

LEMMA SaveFailsStep ==
  ASSUME FormIInv, SaveFails
  PROVE  FormIInv'
<1>1. /\ ~FormIdle /\ device' \in {device, cache} /\ dialog' = None
      /\ saving' = NotSaving /\ failed' = TRUE /\ UNCHANGED <<cache, rows, before>>
      /\ added' = (IF saving.map = "dialog" THEN None ELSE added)
      /\ copy' \in [Maps -> [Sections -> Settings]]
      /\ input' \in [Maps -> [Sections -> [Opts -> Values \cup {Bad, Empty}]]]
  BY MapTypes DEF SaveFails, FormIInv
<1>2. added' = None
  BY <1>1 DEF FormIInv, SavingFits, Maps
<1>3. FormTypes'
  BY <1>1, <1>2 DEF FormIInv, FormTypes
<1>4. QED
  BY <1>1, <1>2, <1>3 DEF FormIInv, SavingFits, DialogFits, CopiesFresh, FormIdle

LEMMA FormNextIInv == FormIInv /\ [FormNext]_formVars => FormIInv'
<1> SUFFICES ASSUME FormIInv, [FormNext]_formVars PROVE FormIInv'
  OBVIOUS
<1>1. CASE UNCHANGED formVars
  BY <1>1 DEF formVars, FormIInv, FormTypes, SavingFits, DialogFits, CopiesFresh, FormIdle,
              In, Loaded
<1>2. CASE FormNext
  BY <1>2, TypeStep, SaveStep, RowStep, EditRowStep, AddInDialogStep, ResetStep, DismissStep,
     SavedStep, SaveFailsStep DEF FormNext
<1>3. QED
  BY <1>1, <1>2

LEMMA FormIInvSound == FormIInv => FormSound
BY DEF FormIInv, FormTypes, FormSound, FormTypeOK

\* No other step ends a save without failing.
LEMMA SavesAsShown ==
  ASSUME FormIInv, [FormNext]_formVars, ~FormIdle, FormIdle', ~failed',
         failed => saving.map = "dialog"
  PROVE  device' = saving.demanded
<1>1. Saved
  BY DEF FormNext, formVars, FormIdle, Type, Save, RemoveRow, AddRow, EditRow, AddInDialog, Reset,
         Dismiss, SaveFails
<1>2. QED
  BY <1>1 DEF Saved, FormIInv, SavingFits

LEMMA DismissesAsBefore ==
  ASSUME FormIInv, Dismiss
  PROVE  cache' = before
BY DismissedAsBefore DEF Dismiss

-----------------------------------------------------------------------------
(* Tabs.  What the session storage keeps is the position of the tab chosen   *)
(* last, in the layout it was chosen in; the panes on the page are those of  *)
(* that layout, and it is open.                                             *)

ChosenKept ==
  \/ chosen = Unchosen
  \/ /\ chosen.layout \in Layouts
     /\ kept + 1 \in DOMAIN chosen.layout
     /\ chosen.name = chosen.layout[kept + 1]

ChosenOpen ==
  /\ panes = <<>> => ~thrown
  /\ thrown => opened = {}
  /\ panes # <<>> /\ ~thrown => chosen.layout = panes /\ opened = {chosen.name}

TabIInv == /\ kept \in Nat /\ panes \in Layouts \cup {<<>>}
           /\ ChosenKept /\ ChosenOpen

\* A position that the code writes for a pane is that of the pane.
LEMMA PositionOf ==
  ASSUME NEW l \in Layouts, NEW n \in NamesOf(l)
  PROVE  LET i == CHOOSE i \in DOMAIN l : l[i] = n IN
           i \in DOMAIN l /\ l[i] = n /\ i \in Nat \ {0}
<1>1. \E i \in DOMAIN l : l[i] = n
  BY DEF NamesOf
<1>2. DOMAIN l \subseteq Nat \ {0}
  BY TabAssumption
<1>3. QED
  BY <1>1, <1>2

\* The tab that is opened is the one kept, if it has something in it, or one
\* of the panes.
LEMMA SelectedPane ==
  ASSUME kept \in Nat, NEW l \in Layouts, NEW o
  PROVE  /\ Selected(l, o) \in Nat \ {0}
         /\ kept + 1 \in DOMAIN l /\ o[l[kept + 1]].on => Selected(l, o) = kept + 1
<1> DEFINE filled == {i \in DOMAIN l : o[l[i]].on}
<1>1. CASE (kept + 1 \in DOMAIN l /\ o[l[kept + 1]].on) \/ filled = {}
  BY <1>1 DEF Selected
<1>2. CASE ~(kept + 1 \in DOMAIN l /\ o[l[kept + 1]].on) /\ filled # {}
  <2>1. filled \in SUBSET Nat /\ filled \subseteq Nat \ {0}
    BY TabAssumption
  <2>2. \E i \in filled : \A j \in filled : i <= j
    <3> HIDE DEF filled
    <3> QED
      BY <1>2, <2>1, LeastNumber
  <2>3. Selected(l, o) = CHOOSE i \in filled : \A j \in filled : i <= j
    BY <1>2 DEF Selected
  <2>4. (CHOOSE i \in filled : \A j \in filled : i <= j) \in filled
    <3> HIDE DEF filled
    <3> QED
      BY <2>2
  <2>5. QED
    BY <1>2, <2>1, <2>3, <2>4
<1>3. QED
  BY <1>1, <1>2

LEMMA RenderStep ==
  ASSUME TabIInv, Render
  PROVE  TabIInv'
<1> PICK l \in Layouts, o \in OptionStates :
      /\ panes' = l /\ thrown' = (Selected(l, o) \notin DOMAIN l)
      /\ IF Selected(l, o) \in DOMAIN l
         THEN /\ opened' = {l[Selected(l, o)]} /\ kept' = Selected(l, o) - 1
              /\ chosen' = [layout |-> l, name |-> l[Selected(l, o)]]
         ELSE opened' = {} /\ UNCHANGED <<kept, chosen>>
  BY DEF Render
<1>1. Selected(l, o) \in Nat \ {0} /\ l # <<>>
  BY SelectedPane, TabAssumption DEF TabIInv
<1>2. CASE Selected(l, o) \in DOMAIN l
  <2>1. kept' \in Nat /\ kept' + 1 = Selected(l, o)
    BY <1>1, <1>2
  <2>2. /\ panes' = l /\ ~thrown' /\ opened' = {l[Selected(l, o)]}
        /\ chosen' = [layout |-> l, name |-> l[Selected(l, o)]]
    BY <1>2
  <2>3. ChosenKept'
    BY <1>2, <2>1, <2>2 DEF ChosenKept
  <2>4. ChosenOpen'
    BY <1>1, <2>2 DEF ChosenOpen
  <2>5. QED
    BY <2>1, <2>2, <2>3, <2>4 DEF TabIInv
<1>3. CASE Selected(l, o) \notin DOMAIN l
  BY <1>1, <1>3 DEF TabIInv, ChosenKept, ChosenOpen
<1>4. QED
  BY <1>2, <1>3

LEMMA SwitchStep ==
  ASSUME TabIInv, NEW n \in TabNames, Switch(n)
  PROVE  TabIInv'
<1>1. /\ ~thrown /\ n \in NamesOf(panes) /\ opened' = {n} /\ UNCHANGED <<panes, thrown>>
      /\ kept' = (CHOOSE i \in DOMAIN panes : panes[i] = n) - 1
      /\ chosen' = [layout |-> panes, name |-> n]
  BY DEF Switch, OpenedBy, Position
<1>2. panes \in Layouts
  BY <1>1 DEF TabIInv, NamesOf
<1> DEFINE i == CHOOSE i \in DOMAIN panes : panes[i] = n
<1>3. i \in DOMAIN panes /\ panes[i] = n /\ i \in Nat \ {0}
  BY <1>1, <1>2, PositionOf
<1>4. kept' \in Nat /\ kept' + 1 = i
  BY <1>1, <1>3
<1> HIDE DEF i
<1>5. QED
  BY <1>1, <1>2, <1>3, <1>4 DEF TabIInv, ChosenKept, ChosenOpen

LEMMA TabInitIInv == TabsInit => TabIInv
BY DEF TabsInit, TabIInv, ChosenKept, ChosenOpen

LEMMA TabNextIInv == TabIInv /\ [TabsNext]_tabVars => TabIInv'
<1> SUFFICES ASSUME TabIInv, [TabsNext]_tabVars PROVE TabIInv'
  OBVIOUS
<1> USE DEF TabIInv, ChosenKept, ChosenOpen
<1>1. CASE UNCHANGED tabVars \/ TypeInto \/ Change \/ SaveTabs
  <2>1. UNCHANGED <<panes, opened, kept, chosen, thrown>>
    BY <1>1 DEF tabVars, TypeInto, Change, SaveTabs
  <2>2. QED
    BY <2>1
<1>2. CASE Elsewhere
  BY <1>2 DEF Elsewhere
<1>3. CASE Render \/ \E n \in TabNames : Switch(n)
  BY <1>3, RenderStep, SwitchStep
<1>4. QED
  BY <1>1, <1>2, <1>3 DEF TabsNext

\* Only rendering the page changes what is open and what may be in a pane.
LEMMA TabStepRestores ==
  ASSUME TabIInv, [TabsNext]_tabVars, panes = <<>> \/ option' # option, panes' # <<>>,
         panes' = chosen.layout, option'[chosen.name].on
  PROVE  opened' = {chosen.name}
<1>1. CASE Render
  <2> PICK l \in Layouts, o \in OptionStates :
        /\ panes' = l /\ option' = o
        /\ Selected(l, o) \in DOMAIN l => opened' = {l[Selected(l, o)]}
    BY <1>1 DEF Render
  <2>1. chosen.layout = l /\ l # <<>>
    BY TabAssumption
  <2>2. kept + 1 \in DOMAIN l /\ chosen.name = l[kept + 1]
    BY <2>1 DEF TabIInv, ChosenKept, Unchosen
  <2>3. Selected(l, o) = kept + 1
    BY <2>2, SelectedPane DEF TabIInv
  <2>4. QED
    BY <2>2, <2>3
<1>2. CASE TypeInto \/ Change
  <2>1. /\ panes' = panes /\ opened' = opened
        /\ ~thrown \/ opened # {}
    BY <1>2 DEF TypeInto, Change
  <2>2. QED
    BY <2>1 DEF TabIInv, ChosenOpen
<1>3. CASE (\E n \in TabNames : Switch(n)) \/ SaveTabs \/ UNCHANGED tabVars
  <2>1. UNCHANGED <<panes, option>>
    BY <1>3 DEF Switch, SaveTabs, tabVars
  <2>2. QED
    BY <2>1
<1>4. CASE Elsewhere
  BY <1>4 DEF Elsewhere
<1>5. QED
  BY <1>1, <1>2, <1>3, <1>4 DEF TabsNext

\* The menu over the panes: its current entry is that of the pane that is open.
TabEntries == [current : BOOLEAN, hidden : BOOLEAN, errors : BOOLEAN]
CurrentOf(m) == {n \in TabNames : m[n].current}

MenuIInv ==
  /\ menu \in [TabNames -> TabEntries]
  /\ option \in [TabNames -> [on : BOOLEAN, bad : BOOLEAN]]
  /\ panes = <<>> => opened = {}
  /\ panes # <<>> /\ ~thrown => CurrentOf(menu) = opened
  /\ RefusedIsSeen /\ Reachable /\ FailsEmpty

LEMMA MenuUpdated ==
  ASSUME NEW m \in [TabNames -> TabEntries], NEW o \in [TabNames -> [on : BOOLEAN, bad : BOOLEAN]]
  PROVE  /\ MenuOf(m, o) \in [TabNames -> TabEntries]
         /\ \A n \in TabNames \cap NamesOf(panes') :
              /\ MenuOf(m, o)[n].hidden = ~o[n].on /\ MenuOf(m, o)[n].errors = o[n].bad
              /\ MenuOf(m, o)[n].current = m[n].current
         /\ \A n \in TabNames \ NamesOf(panes') : MenuOf(m, o)[n] = NoEntry
BY DEF MenuOf, TabEntries, NoEntry, Hidden

LEMMA PanesNamed == \A l \in Layouts : NamesOf(l) \subseteq TabNames
BY DEF NamesOf, TabNames

\* Whoever is seen to be open is one of the panes.
LEMMA OpenedPane ==
  ASSUME TabIInv, panes # <<>>, ~thrown
  PROVE  panes \in Layouts /\ opened = {chosen.name} /\ chosen.name \in NamesOf(panes)
<1>1. panes \in Layouts /\ chosen.layout = panes /\ opened = {chosen.name}
  BY DEF TabIInv, ChosenOpen
<1>2. kept + 1 \in DOMAIN panes /\ chosen.name = panes[kept + 1]
  BY <1>1 DEF TabIInv, ChosenKept, Unchosen
<1>3. QED
  BY <1>1, <1>2 DEF NamesOf

\* The menu is updated over the same panes.
LEMMA MenuKept ==
  ASSUME TabIInv, MenuIInv, panes # <<>>, ~thrown, panes' = panes, thrown' = thrown, opened' = opened,
         NEW o \in [TabNames -> [on : BOOLEAN, bad : BOOLEAN]], menu' = MenuOf(menu, o), option' = o
  PROVE  /\ menu' \in [TabNames -> TabEntries] /\ CurrentOf(menu') = opened'
         /\ \A n \in NamesOf(panes) : menu'[n].hidden = ~o[n].on /\ menu'[n].errors = o[n].bad
<1>1. NamesOf(panes) \subseteq TabNames /\ opened \subseteq NamesOf(panes)
  BY OpenedPane, PanesNamed
<1>2. /\ menu' \in [TabNames -> TabEntries]
      /\ \A n \in NamesOf(panes) : /\ menu'[n].hidden = ~o[n].on /\ menu'[n].errors = o[n].bad
                                   /\ menu'[n].current = menu[n].current
      /\ \A n \in TabNames \ NamesOf(panes) : ~menu'[n].current
  BY <1>1, MenuUpdated DEF MenuIInv, NoEntry
<1>3. CurrentOf(menu') = CurrentOf(menu)
  BY <1>1, <1>2 DEF CurrentOf, MenuIInv
<1>4. QED
  BY <1>2, <1>3 DEF MenuIInv

LEMMA MenuRenderStep ==
  ASSUME TabIInv, MenuIInv, Render
  PROVE  MenuIInv'
<1> PICK l \in Layouts, o \in OptionStates :
      /\ panes' = l /\ option' = o /\ refused' = FALSE
      /\ thrown' = (Selected(l, o) \notin DOMAIN l)
      /\ IF Selected(l, o) \in DOMAIN l
         THEN opened' = {l[Selected(l, o)]} /\ menu' = MenuOf(Current(menu, l[Selected(l, o)]), o)
         ELSE /\ opened' = {}
              /\ menu' = [n \in TabNames |-> [NoEntry EXCEPT !.hidden = n \in NamesOf(l)]]
  BY DEF Render
<1>1. o \in [TabNames -> [on : BOOLEAN, bad : BOOLEAN]] /\ NamesOf(l) \subseteq TabNames /\ l # <<>>
  BY PanesNamed, TabAssumption DEF OptionStates
<1>2. CASE Selected(l, o) \in DOMAIN l
  <2> DEFINE n == l[Selected(l, o)]
             m == Current(menu, n)
  <2>1. n \in NamesOf(l)
    BY <1>2 DEF NamesOf
  <2>2. m \in [TabNames -> TabEntries] /\ \A x \in TabNames : m[x].current = (x = n)
    BY DEF Current, MenuIInv, TabEntries
  <2> HIDE DEF n
  <2>3. /\ menu' = MenuOf(m, o) /\ opened' = {n} /\ panes' = l /\ ~thrown' /\ ~refused' /\ option' = o
    BY <1>2 DEF n
  <2> HIDE DEF m
  <2>4. /\ menu' \in [TabNames -> TabEntries]
        /\ \A x \in NamesOf(l) : menu'[x].hidden = ~o[x].on /\ menu'[x].current = m[x].current
        /\ \A x \in TabNames \ NamesOf(l) : ~menu'[x].current
    BY <1>1, <2>2, <2>3, MenuUpdated DEF NoEntry
  <2>5. CurrentOf(menu') = {n}
    BY <1>1, <2>1, <2>2, <2>4 DEF CurrentOf
  <2>6. RefusedIsSeen' /\ Reachable' /\ FailsEmpty'
    BY <2>3, <2>4 DEF RefusedIsSeen, Reachable, FailsEmpty
  <2>7. QED
    BY <1>1, <2>3, <2>4, <2>5, <2>6 DEF MenuIInv
<1>3. CASE Selected(l, o) \notin DOMAIN l
  <2>1. \A i \in DOMAIN l : ~o[l[i]].on
    <3> DEFINE filled == {i \in DOMAIN l : o[l[i]].on}
    <3>1. SUFFICES ASSUME filled # {} PROVE FALSE
      OBVIOUS
    <3>2. filled \in SUBSET Nat /\ filled \subseteq DOMAIN l
      BY TabAssumption
    <3>3. \E i \in filled : \A j \in filled : i <= j
      <4> HIDE DEF filled
      <4> QED
        BY <3>1, <3>2, LeastNumber
    <3>4. (CHOOSE i \in filled : \A j \in filled : i <= j) \in filled
      <4> HIDE DEF filled
      <4> QED
        BY <3>3
    <3>5. Selected(l, o) \in DOMAIN l
      BY <3>1, <3>2, <3>4 DEF Selected
    <3>6. QED
      BY <1>3, <3>5
  <2>2. /\ opened' = {} /\ thrown' /\ ~refused' /\ panes' = l /\ option' = o
        /\ menu' = [n \in TabNames |-> [NoEntry EXCEPT !.hidden = n \in NamesOf(l)]]
    BY <1>3
  <2>3. menu' \in [TabNames -> TabEntries]
    <3>1. ASSUME NEW b \in BOOLEAN PROVE [NoEntry EXCEPT !.hidden = b] \in TabEntries
      BY DEF NoEntry, TabEntries
    <3>2. \A n \in TabNames : (n \in NamesOf(l)) \in BOOLEAN
      OBVIOUS
    <3>3. \A n \in TabNames : [NoEntry EXCEPT !.hidden = n \in NamesOf(l)] \in TabEntries
      BY <3>1, <3>2, Zenon
    <3>4. QED
      BY <2>2, <3>3
  <2>4. RefusedIsSeen' /\ Reachable' /\ FailsEmpty'
    BY <2>1, <2>2 DEF RefusedIsSeen, Reachable, FailsEmpty, NamesOf
  <2>5. QED
    BY <1>1, <2>2, <2>3, <2>4 DEF MenuIInv
<1>4. QED
  BY <1>2, <1>3

LEMMA MenuInitIInv == TabsInit => MenuIInv
BY DEF TabsInit, MenuIInv, TabEntries, NoEntry, Off, RefusedIsSeen, Reachable, FailsEmpty, NamesOf

LEMMA MenuNextIInv == TabIInv /\ MenuIInv /\ [TabsNext]_tabVars => MenuIInv'
<1> SUFFICES ASSUME TabIInv, MenuIInv, [TabsNext]_tabVars PROVE MenuIInv'
  OBVIOUS
<1> DEFINE AnyOptions == [TabNames -> [on : BOOLEAN, bad : BOOLEAN]]
<1>1. CASE UNCHANGED tabVars
  BY <1>1 DEF tabVars, MenuIInv, RefusedIsSeen, Reachable, FailsEmpty
<1>2. CASE Render
  BY <1>2, MenuRenderStep
<1>3. CASE TypeInto
  <2>1. PICK n \in opened, b \in BOOLEAN : option' = [option EXCEPT ![n].bad = b]
    BY <1>3 DEF TypeInto
  <2>2. ~refused' /\ UNCHANGED <<panes, menu, opened, thrown>>
    BY <1>3 DEF TypeInto
  <2>3. n \in TabNames /\ NamesOf(panes) \subseteq TabNames
    BY OpenedPane, PanesNamed DEF MenuIInv, TabIInv, ChosenOpen
  <2>4. option' \in AnyOptions /\ \A x \in TabNames : option'[x].on = option[x].on
    BY <2>1, <2>3 DEF MenuIInv
  <2>5. QED
    BY <2>2, <2>3, <2>4 DEF MenuIInv, RefusedIsSeen, Reachable, FailsEmpty
<1>4. CASE Change
  <2>1. /\ panes # <<>> /\ ~thrown /\ ~refused' /\ menu' = MenuOf(menu, option')
        /\ UNCHANGED <<panes, opened, thrown>>
    BY <1>4 DEF Change
  <2>2. option' \in AnyOptions
    BY <1>4 DEF Change, Revalidated, MenuIInv
  <2>3. /\ menu' \in [TabNames -> TabEntries] /\ CurrentOf(menu') = opened'
        /\ \A n \in NamesOf(panes) : menu'[n].hidden = ~option'[n].on
    BY <2>1, <2>2, MenuKept
  <2>4. QED
    BY <2>1, <2>2, <2>3 DEF MenuIInv, RefusedIsSeen, Reachable, FailsEmpty
<1>5. CASE SaveTabs
  <2>1. /\ panes # <<>> /\ ~thrown /\ menu' = MenuOf(menu, option)
        /\ refused' = \E n \in NamesOf(panes) : option[n].on /\ option[n].bad
        /\ UNCHANGED <<panes, opened, thrown, option>>
    BY <1>5 DEF SaveTabs
  <2>2. /\ menu' \in [TabNames -> TabEntries] /\ CurrentOf(menu') = opened'
        /\ \A n \in NamesOf(panes) : menu'[n].hidden = ~option[n].on /\ menu'[n].errors = option[n].bad
    BY <2>1, MenuKept DEF MenuIInv
  <2>3. QED
    BY <2>1, <2>2 DEF MenuIInv, RefusedIsSeen, Reachable, FailsEmpty
<1>6. CASE \E n \in TabNames : Switch(n)
  <2> PICK n \in TabNames : Switch(n)
    BY <1>6
  <2>1. /\ ~thrown /\ n \in NamesOf(panes) /\ menu' = Current(menu, n) /\ opened' = {n} /\ ~refused'
        /\ UNCHANGED <<panes, option, thrown>>
    BY DEF Switch, OpenedBy
  <2>2. /\ menu' \in [TabNames -> TabEntries]
        /\ \A x \in TabNames : menu'[x].current = (x = n) /\ menu'[x].hidden = menu[x].hidden
    BY <2>1 DEF Current, MenuIInv, TabEntries
  <2>3. panes # <<>> /\ NamesOf(panes) \subseteq TabNames
    BY <2>1, PanesNamed DEF NamesOf, TabIInv
  <2>4. CurrentOf(menu') = opened'
    BY <2>1, <2>2, <2>3 DEF CurrentOf
  <2>5. QED
    BY <2>1, <2>2, <2>3, <2>4 DEF MenuIInv, RefusedIsSeen, Reachable, FailsEmpty
<1>7. CASE Elsewhere
  BY <1>7 DEF Elsewhere, MenuIInv, TabEntries, NoEntry, Off, RefusedIsSeen, Reachable, FailsEmpty, NamesOf
<1>8. QED
  BY <1>1, <1>2, <1>3, <1>4, <1>5, <1>6, <1>7 DEF TabsNext

LEMMA MenuSound == TabIInv /\ MenuIInv => TabsSound
<1> SUFFICES ASSUME TabIInv, MenuIInv PROVE TabsSound
  OBVIOUS
<1>1. OneTab
  BY OpenedPane, FS_Singleton DEF OneTab, MenuIInv, CurrentOf
<1>2. QED
  BY <1>1 DEF TabsSound, MenuIInv

-----------------------------------------------------------------------------
(* The table of a switch.  A VLAN that is not on the page is one just added, *)
(* of which no port is untagged.                                             *)

SwitchTypes == /\ vlans \in [Vlans -> Vlan \cup {NoVlan}]
               /\ table \in [Vlans -> Vlan \cup {NoVlan}]

NoneUntagged(vlan) == \A p \in SwitchPorts : vlan.ports[p] # "u"

SwitchIInv ==
  /\ SwitchTypes
  /\ \A s \in Vlans : vlans[s] # NoVlan /\ table[s] = NoVlan => NoneUntagged(vlans[s])
  /\ VlanIdsUnique /\ UntaggedOnce

\* The sections a save starts from: those of the cache, one added or removed.
SavedFrom(config) ==
  /\ config \in [Vlans -> Vlan \cup {NoVlan}]
  /\ \A s \in Vlans : config[s] # NoVlan /\ table[s] # NoVlan => vlans[s] # NoVlan
  /\ \A s \in Vlans : config[s] # NoVlan /\ table[s] = NoVlan => NoneUntagged(config[s])

LEMMA TableTypes ==
  ASSUME SwitchTypes, NEW config, SavedFrom(config)
  PROVE  /\ AfterTable(config) \in [Vlans -> Vlan \cup {NoVlan}]
         /\ Listed(AfterTable(config)) = Listed(config)
         /\ \A s \in Listed(config) : table[s] = NoVlan =>
              AfterTable(config)[s].id = NoId /\ NoneUntagged(AfterTable(config)[s])
<1> SUFFICES ASSUME NEW s \in Vlans
             PROVE  /\ AfterTable(config)[s] \in Vlan \cup {NoVlan}
                    /\ AfterTable(config)[s] # NoVlan <=> config[s] # NoVlan
                    /\ config[s] # NoVlan /\ table[s] = NoVlan =>
                         AfterTable(config)[s].id = NoId /\ NoneUntagged(AfterTable(config)[s])
  BY DEF AfterTable, Listed
<1>1. config[s] \in Vlan \cup {NoVlan} /\ table[s] \in Vlan \cup {NoVlan}
  BY DEF SwitchTypes, SavedFrom
<1>2. CASE config[s] # NoVlan /\ table[s] = NoVlan
  <2>1. AfterTable(config)[s] = [config[s] EXCEPT !.id = NoId]
    BY <1>2 DEF AfterTable
  <2>2. /\ [config[s] EXCEPT !.id = NoId] \in Vlan
        /\ [config[s] EXCEPT !.id = NoId].id = NoId
        /\ [config[s] EXCEPT !.id = NoId].ports = config[s].ports
    BY <1>1, <1>2 DEF Vlan
  <2>3. NoneUntagged(config[s])
    BY <1>2 DEF SavedFrom
  <2>4. QED
    BY <1>2, <2>1, <2>2, <2>3, NoVlanAssumption DEF NoneUntagged
<1>3. CASE ~(config[s] # NoVlan /\ table[s] = NoVlan)
  BY <1>1, <1>3 DEF AfterTable
<1>4. QED
  BY <1>2, <1>3

\* A table that is accepted has no conflict.
LEMMA AcceptedUnique ==
  ASSUME SwitchTypes, NEW config, SavedFrom(config), Accepted(config)
  PROVE  IdsUnique(AfterTable(config)) /\ UntaggedUnique(AfterTable(config))
<1> DEFINE result == AfterTable(config)
<1>1. Listed(result) = Listed(config)
  BY TableTypes
<1>2. \A s \in Listed(config) :
        /\ table[s] = NoVlan => result[s].id = NoId /\ NoneUntagged(result[s])
        /\ table[s] # NoVlan => result[s] = table[s] /\ IdValid(s)
                                /\ \A p \in SwitchPorts : PortValid(s, p)
  <2>1. \A s \in Listed(config) : table[s] # NoVlan =>
          IdValid(s) /\ \A p \in SwitchPorts : PortValid(s, p)
    BY DEF Accepted, Listed
  <2>2. \A s \in Listed(config) : table[s] # NoVlan => result[s] = table[s]
    BY <2>1 DEF AfterTable, Listed
  <2> HIDE DEF result
  <2>3. QED
    BY <2>1, <2>2, TableTypes DEF result
<1>3. \A s \in Listed(config) : table[s] # NoVlan => s \in Listed(table) /\ vlans[s] # NoVlan
  BY DEF SavedFrom, Listed
<1> HIDE DEF result
<1>4. ASSUME NEW s \in Listed(config), NEW t \in Listed(config), s # t
      PROVE  /\ result[s].id # result[t].id \/ result[s].id = NoId
             /\ \A p \in SwitchPorts : result[s].ports[p] # "u" \/ result[t].ports[p] # "u"
  <2>1. CASE table[s] # NoVlan /\ table[t] # NoVlan
    BY <1>2, <1>3, <1>4, <2>1 DEF IdValid, PortValid
  <2>2. CASE table[s] = NoVlan
    BY <1>2, <2>2 DEF NoneUntagged
  <2>3. CASE table[t] = NoVlan
    BY <1>2, <2>3 DEF NoneUntagged
  <2>4. QED
    BY <2>1, <2>2, <2>3
<1>5. QED
  BY <1>1, <1>4 DEF IdsUnique, UntaggedUnique, result

LEMMA SaveTableStep ==
  ASSUME SwitchIInv, NEW config, SavedFrom(config), SaveTable(config)
  PROVE  SwitchIInv'
<1>1. /\ vlans' = AfterTable(config)
      /\ IF Accepted(config) THEN inDevice' = vlans' /\ table' = vlans'
         ELSE UNCHANGED <<inDevice, table>>
  BY DEF SaveTable
<1>2. /\ vlans' \in [Vlans -> Vlan \cup {NoVlan}] /\ Listed(vlans') = Listed(config)
      /\ \A s \in Listed(config) : table[s] = NoVlan => NoneUntagged(vlans'[s])
  BY <1>1, TableTypes DEF SwitchIInv
<1>3. CASE Accepted(config)
  <2>1. IdsUnique(inDevice') /\ UntaggedUnique(inDevice')
    BY <1>1, <1>3, AcceptedUnique DEF SwitchIInv
  <2>2. QED
    BY <1>1, <1>2, <1>3, <2>1 DEF SwitchIInv, SwitchTypes, VlanIdsUnique, UntaggedOnce,
       IdsUnique, UntaggedUnique
<1>4. CASE ~Accepted(config)
  <2>1. \A s \in Vlans : vlans'[s] # NoVlan /\ table[s] = NoVlan => NoneUntagged(vlans'[s])
    BY <1>2 DEF Listed
  <2>2. QED
    BY <1>1, <1>2, <1>4, <2>1 DEF SwitchIInv, SwitchTypes, VlanIdsUnique, UntaggedOnce,
       IdsUnique, UntaggedUnique
<1>5. QED
  BY <1>3, <1>4

LEMMA SwitchInitIInv == SwitchInit => SwitchIInv
BY DEF SwitchInit, SwitchIInv, SwitchTypes, VlanIdsUnique, UntaggedOnce

LEMMA SwitchNextIInv == SwitchIInv /\ [SwitchNext]_vlanVars => SwitchIInv'
<1> SUFFICES ASSUME SwitchIInv, [SwitchNext]_vlanVars PROVE SwitchIInv'
  OBVIOUS
<1> USE DEF SwitchIInv, SwitchTypes
<1>1. CASE UNCHANGED vlanVars
  BY <1>1 DEF vlanVars, VlanIdsUnique, UntaggedOnce, IdsUnique, UntaggedUnique, Listed, NoneUntagged
<1>2. CASE ResetTable
  <2>1. table' = vlans /\ vlans' = vlans /\ inDevice' = inDevice
    BY <1>2 DEF ResetTable
  <2>2. QED
    BY <2>1 DEF VlanIdsUnique, UntaggedOnce, IdsUnique, UntaggedUnique, Listed
<1>3. ASSUME NEW s \in Vlans, NEW vlan, TypeVlan(s, vlan), table[s] \in Vlan => vlan \in Vlan
      PROVE  SwitchIInv'
  <2>1. /\ table[s] # NoVlan /\ table' = [table EXCEPT ![s] = vlan]
        /\ vlans' = vlans /\ inDevice' = inDevice
    BY <1>3 DEF TypeVlan
  <2>2. vlan \in Vlan /\ vlan # NoVlan
    BY <1>3, <2>1, NoVlanAssumption
  <2>3. table' \in [Vlans -> Vlan \cup {NoVlan}]
    BY <2>1, <2>2
  <2>4. \A t \in Vlans : table'[t] = NoVlan => table[t] = NoVlan
    BY <2>1, <2>2
  <2>5. QED
    BY <2>1, <2>3, <2>4 DEF VlanIdsUnique, UntaggedOnce, IdsUnique, UntaggedUnique, Listed, NoneUntagged
<1>4. ASSUME NEW s \in Vlans, NEW id \in Ids, TypeVlan(s, [table[s] EXCEPT !.id = id])
      PROVE  SwitchIInv'
  <2>1. table[s] \in Vlan => [table[s] EXCEPT !.id = id] \in Vlan
    BY DEF Vlan
  <2>2. QED
    BY <1>3, <1>4, <2>1
<1>5. ASSUME NEW s \in Vlans, NEW p \in SwitchPorts, NEW tag \in Tags,
             TypeVlan(s, [table[s] EXCEPT !.ports[p] = tag])
      PROVE  SwitchIInv'
  <2>1. table[s] \in Vlan => [table[s] EXCEPT !.ports[p] = tag] \in Vlan
    BY DEF Vlan
  <2>2. QED
    BY <1>3, <1>5, <2>1
<1>6. ASSUME NEW s \in Vlans, AddVlan(s) \/ RemoveVlan(s)
      PROVE  SwitchIInv'
  <2>1. CASE AddVlan(s)
    <3>1. vlans[s] = NoVlan /\ table[s] = NoVlan /\ SaveTable([vlans EXCEPT ![s] = NewVlan])
      BY <2>1 DEF AddVlan
    <3>2. NewVlan \in Vlan /\ NoneUntagged(NewVlan)
      BY DEF NewVlan, Vlan, Tags, NoneUntagged
    <3>3. SavedFrom([vlans EXCEPT ![s] = NewVlan])
      BY <3>1, <3>2 DEF SavedFrom
    <3>4. QED
      BY <3>1, <3>3, SaveTableStep
  <2>2. CASE RemoveVlan(s)
    <3>1. SaveTable([vlans EXCEPT ![s] = NoVlan])
      BY <2>2 DEF RemoveVlan
    <3>2. SavedFrom([vlans EXCEPT ![s] = NoVlan])
      BY DEF SavedFrom
    <3>3. QED
      BY <3>1, <3>2, SaveTableStep
  <2>3. QED
    BY <1>6, <2>1, <2>2
<1>7. CASE SaveSwitch
  <2>1. SavedFrom(vlans) /\ SaveTable(vlans)
    BY <1>7 DEF SavedFrom, SaveSwitch
  <2>2. QED
    BY <2>1, SaveTableStep
<1>8. QED
  BY <1>1, <1>2, <1>4, <1>5, <1>6, <1>7 DEF SwitchNext

-----------------------------------------------------------------------------
(* The frequency of a radio.  A list of choices has the value the user gave  *)
(* it last, in its select while it is shown and in its memory while it is   *)
(* not; what the four selects do to each other leaves that alone.           *)

Selects == {"mode", "htmode", "band", "channel"}

\* Each select shows a list of its own.
FreqFits(f) ==
  /\ f = [list |-> f.list, value |-> f.value, remembered |-> f.remembered]
  /\ f.list = [sel \in Selects |-> f.list[sel]]
  /\ f.value = [sel \in Selects |-> f.value[sel]]
  /\ f.remembered = [l \in FreqLists |-> f.remembered[l]]
  /\ \A sel \in Selects : f.list[sel][1] = sel

Watching(f, list, v) ==
  v # Never => IF f.list[list[1]] = list THEN f.value[list[1]] = v ELSE f.remembered[list] = v

FreqIInv == /\ FreqFits(freq) /\ watched \in FreqLists
            /\ Watching(freq, watched, picked) /\ UntouchedKept

LEMMA ListsFit == \A l \in FreqLists : l[1] \in Selects
<1> TAKE l \in FreqLists
<1>1. CASE l = <<"mode", "">>
  BY <1>1 DEF Selects
<1>2. CASE l \in {"htmode", "band"} \X Modes
  BY <1>2 DEF Selects
<1>3. CASE l \in {"channel"} \X Bands
  BY <1>3 DEF Selects
<1>4. QED
  BY <1>1, <1>2, <1>3 DEF FreqLists

\* setValues() puts a list into a select and touches no other.
LEMMA SetFits ==
  ASSUME NEW f, FreqFits(f), NEW sel \in Selects, NEW list, list[1] = sel
  PROVE  LET g == FreqSetValues(f, sel, list) IN
           /\ FreqFits(g) /\ g.list[sel] = list
           /\ \A x \in Selects \ {sel} : g.list[x] = f.list[x] /\ g.value[x] = f.value[x]
           /\ g.value[sel] =
                IF list \in FreqLists /\ Remembering(f, sel)[list] # Never
                THEN Remembering(f, sel)[list] ELSE FirstChoice(list)
<1> DEFINE g == FreqSetValues(f, sel, list)
<1>1. /\ f.list = [x \in Selects |-> f.list[x]]
      /\ f.value = [x \in Selects |-> f.value[x]]
      /\ f.remembered = [l \in FreqLists |-> f.remembered[l]]
      /\ \A x \in Selects : f.list[x][1] = x
  BY DEF FreqFits
<1>2. Remembering(f, sel) = [l \in FreqLists |-> Remembering(f, sel)[l]]
  BY <1>1 DEF Remembering
<1>3. g = [list |-> g.list, value |-> g.value, remembered |-> g.remembered]
  BY DEF FreqSetValues
<1>4. /\ g.list = [f.list EXCEPT ![sel] = list]
      /\ g.remembered = Remembering(f, sel)
      /\ g.value = [f.value EXCEPT ![sel] =
                      IF list \in FreqLists /\ Remembering(f, sel)[list] # Never
                      THEN Remembering(f, sel)[list] ELSE FirstChoice(list)]
  BY DEF FreqSetValues
<1> HIDE DEF g
<1>5. g.list = [x \in Selects |-> g.list[x]] /\ g.value = [x \in Selects |-> g.value[x]]
  BY <1>1, <1>4
<1>6. g.list[sel] = list /\ \A x \in Selects : g.list[x][1] = x
  BY <1>1, <1>4
<1>7. FreqFits(g)
  BY <1>2, <1>3, <1>4, <1>5, <1>6 DEF FreqFits
<1>8. QED
  BY <1>1, <1>4, <1>6, <1>7 DEF g

LEMMA SetWatches ==
  ASSUME NEW f, FreqFits(f), NEW sel \in Selects, NEW list, list[1] = sel,
         NEW w \in FreqLists, NEW v, Watching(f, w, v)
  PROVE  Watching(FreqSetValues(f, sel, list), w, v)
<1> SUFFICES ASSUME v # Never
             PROVE  Watching(FreqSetValues(f, sel, list), w, v)
  BY DEF Watching
<1> DEFINE g == FreqSetValues(f, sel, list)
<1>1. /\ g.list[sel] = list
      /\ \A x \in Selects \ {sel} : g.list[x] = f.list[x] /\ g.value[x] = f.value[x]
      /\ g.value[sel] = IF list \in FreqLists /\ Remembering(f, sel)[list] # Never
                        THEN Remembering(f, sel)[list] ELSE FirstChoice(list)
  BY SetFits
<1>2. g.remembered = Remembering(f, sel)
  BY DEF FreqSetValues
<1>3. w[1] \in Selects
  BY ListsFit
<1> HIDE DEF g
<1>4. CASE f.list[w[1]] = w
  <2>1. f.value[w[1]] = v
    BY <1>4 DEF Watching
  <2>2. CASE w[1] = sel
    <3>1. Remembering(f, sel)[w] = v
      BY <1>4, <2>1, <2>2 DEF Remembering, FreqFits
    <3>2. QED
      BY <1>1, <1>2, <2>2, <3>1 DEF Watching, g
  <2>3. CASE w[1] # sel
    BY <1>1, <1>3, <1>4, <2>1, <2>3 DEF Watching, g
  <2>4. QED
    BY <2>2, <2>3
<1>5. CASE f.list[w[1]] # w
  <2>1. f.remembered[w] = v
    BY <1>5 DEF Watching
  <2>2. f.list[sel] # w
    BY <1>3, <1>5 DEF FreqFits
  <2>3. Remembering(f, sel)[w] = v
    BY <2>1, <2>2 DEF Remembering, FreqFits
  <2>4. CASE w[1] = sel
    BY <1>1, <1>2, <2>3, <2>4 DEF Watching, g
  <2>5. CASE w[1] # sel
    BY <1>1, <1>2, <1>3, <1>5, <2>3, <2>5 DEF Watching, g
  <2>6. QED
    BY <2>4, <2>5
<1>6. QED
  BY <1>4, <1>5

\* What follows from a change of the mode or the band.
LEMMA ToggleWatches ==
  ASSUME NEW f, FreqFits(f), NEW w \in FreqLists, NEW v, Watching(f, w, v)
  PROVE  /\ FreqFits(ToggleBand(f)) /\ Watching(ToggleBand(f), w, v)
         /\ FreqFits(ToggleMode(f)) /\ Watching(ToggleMode(f), w, v)
<1>1. ASSUME NEW g, FreqFits(g), Watching(g, w, v)
      PROVE  FreqFits(ToggleBand(g)) /\ Watching(ToggleBand(g), w, v)
  <2> DEFINE list == <<"band", ModeOf(g)>>
             h == FreqSetValues(g, "band", list)
  <2>1. list[1] = "band" /\ "band" \in Selects
    BY DEF Selects
  <2> HIDE DEF list
  <2>2. FreqFits(h) /\ Watching(h, w, v)
    BY <1>1, <2>1, SetFits, SetWatches
  <2>3. ToggleBand(g) = FreqSetValues(h, "channel", <<"channel", h.value["band"]>>)
    BY DEF ToggleBand, ToggleChannel, list
  <2> HIDE DEF h
  <2> DEFINE next == <<"channel", h.value["band"]>>
  <2>4. next[1] = "channel" /\ "channel" \in Selects
    BY DEF Selects
  <2> HIDE DEF next
  <2>5. FreqFits(FreqSetValues(h, "channel", next)) /\ Watching(FreqSetValues(h, "channel", next), w, v)
    BY <2>2, <2>4, SetFits, SetWatches
  <2>6. QED
    BY <2>3, <2>5 DEF next
<1> DEFINE list == <<"htmode", ModeOf(f)>>
<1>2. list[1] = "htmode" /\ "htmode" \in Selects
  BY DEF Selects
<1> HIDE DEF list
<1>3. FreqFits(FreqSetValues(f, "htmode", list)) /\ Watching(FreqSetValues(f, "htmode", list), w, v)
  BY <1>2, SetFits, SetWatches
<1>4. QED
  BY <1>1, <1>3 DEF ToggleMode, list

LEMMA AssignFits ==
  ASSUME NEW f, FreqFits(f), NEW sel \in Selects, NEW v
  PROVE  LET g == Assign(f, sel, v) IN
           /\ FreqFits(g) /\ g.list = f.list /\ g.remembered = f.remembered
           /\ \A x \in Selects \ {sel} : g.value[x] = f.value[x]
           /\ v \in FreqChoices(f.list[sel]) => g.value[sel] = v
<1> DEFINE new == IF v \in FreqChoices(f.list[sel]) THEN v ELSE Unoffered
           g == Assign(f, sel, v)
<1>1. g = [list |-> f.list, value |-> [f.value EXCEPT ![sel] = new], remembered |-> f.remembered]
  <2>1. ASSUME NEW l, NEW x, NEW r, f = [list |-> l, value |-> x, remembered |-> r]
        PROVE  [f EXCEPT !.value[sel] = new] = [list |-> l, value |-> [x EXCEPT ![sel] = new], remembered |-> r]
    <3> HIDE DEF new
    <3> QED
      BY <2>1
  <2>2. g = [f EXCEPT !.value[sel] = new]
    BY DEF Assign
  <2> HIDE DEF g, new
  <2>3. QED
    BY <2>1, <2>2 DEF FreqFits
<1>2. g.list = f.list /\ g.value = [f.value EXCEPT ![sel] = new] /\ g.remembered = f.remembered
  BY <1>1
<1>3. g = [list |-> g.list, value |-> g.value, remembered |-> g.remembered]
  BY <1>1
<1>4. f.value = [x \in Selects |-> f.value[x]]
  BY DEF FreqFits
<1> HIDE DEF g, new
<1>5. g.value = [x \in Selects |-> g.value[x]]
  BY <1>2, <1>4
<1>6. FreqFits(g)
  BY <1>2, <1>3, <1>5 DEF FreqFits
<1>7. \A x \in Selects : g.value[x] = IF x = sel THEN new ELSE f.value[x]
  BY <1>2, <1>4
<1>8. QED
  BY <1>2, <1>6, <1>7 DEF g, new

\* What the user selects is watched from then on, if the list is.
LEMMA PicksWatches ==
  ASSUME FreqIInv, NEW sel \in Selects, NEW v, Picks(sel, v)
  PROVE  /\ FreqFits(Assign(freq, sel, v)) /\ Watching(Assign(freq, sel, v), watched, picked')
         /\ watched' = watched /\ UntouchedKept'
<1> DEFINE g == Assign(freq, sel, v)
<1>1. /\ v \in FreqChoices(freq.list[sel]) /\ watched' = watched /\ touched'
      /\ picked' = IF freq.list[sel] = watched THEN v ELSE picked
  BY DEF Picks
<1>2. /\ FreqFits(g) /\ g.list = freq.list /\ g.remembered = freq.remembered
      /\ \A x \in Selects \ {sel} : g.value[x] = freq.value[x]
      /\ g.value[sel] = v
  BY <1>1, AssignFits DEF FreqIInv
<1>3. watched[1] \in Selects /\ freq.list[sel][1] = sel
  BY ListsFit DEF FreqIInv, FreqFits
<1> HIDE DEF g
<1>4. Watching(g, watched, picked')
  BY <1>1, <1>2, <1>3 DEF FreqIInv, Watching
<1>5. QED
  BY <1>1, <1>2, <1>4 DEF g, UntouchedKept

LEMMA FreqNextIInv == FreqIInv /\ [FreqNext]_freqVars => FreqIInv'
<1> SUFFICES ASSUME FreqIInv, [FreqNext]_freqVars PROVE FreqIInv'
  OBVIOUS
<1>1. CASE UNCHANGED freqVars
  BY <1>1 DEF freqVars, FreqIInv, FreqFits, Watching, UntouchedKept, FreqFormValue, FreqChoices,
              ListEntries, Available, ChannelList
<1>2. ASSUME NEW v, PickMode(v) \/ PickBand(v) \/ PickChannel(v) \/ PickWidth(v) PROVE FreqIInv'
  <2>1. CASE PickMode(v)
    <3>1. Picks("mode", v) /\ freq' = ToggleMode(Assign(freq, "mode", v)) /\ "mode" \in Selects
      BY <2>1 DEF PickMode, Selects
    <3>2. QED
      BY <3>1, PicksWatches, ToggleWatches DEF FreqIInv
  <2>2. CASE PickBand(v)
    <3>1. Picks("band", v) /\ freq' = ToggleBand(Assign(freq, "band", v)) /\ "band" \in Selects
      BY <2>2 DEF PickBand, Selects
    <3>2. QED
      BY <3>1, PicksWatches, ToggleWatches DEF FreqIInv
  <2>3. CASE PickChannel(v)
    <3>1. Picks("channel", v) /\ freq' = Assign(freq, "channel", v) /\ "channel" \in Selects
      BY <2>3 DEF PickChannel, Selects
    <3>2. QED
      BY <3>1, PicksWatches DEF FreqIInv
  <2>4. CASE PickWidth(v)
    <3>1. Picks("htmode", v) /\ freq' = Assign(freq, "htmode", v) /\ "htmode" \in Selects
      BY <2>4 DEF PickWidth, Selects
    <3>2. QED
      BY <3>1, PicksWatches DEF FreqIInv
  <2>5. QED
    BY <1>2, <2>1, <2>2, <2>3, <2>4
<1>3. QED
  BY <1>1, <1>2 DEF FreqNext

LEMMA FreqIInvSound == FreqIInv => FrequencyKept
<1> SUFFICES ASSUME FreqIInv PROVE PickedIsShown
  BY DEF FreqIInv, FrequencyKept
<1>1. DOMAIN freq.list = Selects /\ \A sel \in Selects : freq.list[sel][1] = sel
  BY DEF FreqIInv, FreqFits
<1>2. QED
  BY <1>1 DEF PickedIsShown, FreqIInv, Watching

\* What the selects show after a change: the lists that belong to the mode and
\* the band, the band as it was if its list is shown already.
LEMMA BandShown ==
  ASSUME NEW f, FreqFits(f)
  PROVE  LET g == ToggleBand(f) IN
           /\ FreqFits(g) /\ g.list["channel"] = <<"channel", g.value["band"]>>
           /\ g.list["band"] = <<"band", ModeOf(f)>>
           /\ \A x \in {"mode", "htmode"} : g.list[x] = f.list[x] /\ g.value[x] = f.value[x]
           /\ f.list["band"] = <<"band", ModeOf(f)>> /\ ModeOf(f) \in Modes /\ f.value["band"] # Never
                => g.value["band"] = f.value["band"]
<1> DEFINE list == <<"band", ModeOf(f)>>
           h == FreqSetValues(f, "band", list)
           next == <<"channel", h.value["band"]>>
           g == FreqSetValues(h, "channel", next)
<1>1. ToggleBand(f) = g
  BY DEF ToggleBand, ToggleChannel
<1>2. list[1] = "band" /\ next[1] = "channel" /\ "band" \in Selects /\ "channel" \in Selects
  BY DEF Selects
<1>3. ModeOf(f) \in Modes => list \in FreqLists
  BY DEF FreqLists
<1>4. next = <<"channel", h.value["band"]>>
  OBVIOUS
<1>5. list = <<"band", ModeOf(f)>>
  OBVIOUS
<1> HIDE DEF list, next
<1>6. /\ FreqFits(h) /\ h.list["band"] = list
      /\ \A x \in Selects \ {"band"} : h.list[x] = f.list[x] /\ h.value[x] = f.value[x]
      /\ h.value["band"] =
           IF list \in FreqLists /\ Remembering(f, "band")[list] # Never
           THEN Remembering(f, "band")[list] ELSE FirstChoice(list)
  BY <1>2, SetFits
<1> HIDE DEF h
<1>7. /\ FreqFits(g) /\ g.list["channel"] = next
      /\ \A x \in Selects \ {"channel"} : g.list[x] = h.list[x] /\ g.value[x] = h.value[x]
  BY <1>2, <1>6, SetFits
<1> HIDE DEF g
<1>8. g.value["band"] = h.value["band"] /\ g.list["band"] = list
  BY <1>6, <1>7 DEF Selects
<1>9. \A x \in {"mode", "htmode"} : g.list[x] = f.list[x] /\ g.value[x] = f.value[x]
  BY <1>6, <1>7 DEF Selects
<1>10. ASSUME f.list["band"] = list, ModeOf(f) \in Modes, f.value["band"] # Never
       PROVE  h.value["band"] = f.value["band"]
  <2>1. list \in FreqLists
    BY <1>3, <1>10
  <2>2. Remembering(f, "band")[list] = f.value["band"]
    BY <1>10, <2>1 DEF Remembering, FreqFits
  <2>3. QED
    BY <1>6, <1>10, <2>1, <2>2
<1>11. QED
  BY <1>1, <1>4, <1>5, <1>7, <1>8, <1>9, <1>10

LEMMA ModeShown ==
  ASSUME NEW f, FreqFits(f)
  PROVE  LET g == ToggleMode(f) IN
           /\ FreqFits(g) /\ g.value["mode"] = f.value["mode"]
           /\ g.list["htmode"] = <<"htmode", ModeOf(f)>> /\ g.list["band"] = <<"band", ModeOf(f)>>
<1> DEFINE list == <<"htmode", ModeOf(f)>>
           h == FreqSetValues(f, "htmode", list)
<1>1. list[1] = "htmode" /\ "htmode" \in Selects /\ list = <<"htmode", ModeOf(f)>>
  BY DEF Selects
<1>2. ToggleMode(f) = ToggleBand(h)
  BY DEF ToggleMode
<1> HIDE DEF list
<1>3. FreqFits(h) /\ h.list["htmode"] = list
      /\ \A x \in Selects \ {"htmode"} : h.list[x] = f.list[x] /\ h.value[x] = f.value[x]
  BY <1>1, SetFits
<1> HIDE DEF h
<1>4. h.value["mode"] = f.value["mode"] /\ ModeOf(h) = ModeOf(f)
  BY <1>3 DEF Selects, ModeOf
<1>5. QED
  BY <1>1, <1>2, <1>3, <1>4, BandShown

LEMMA ThreeListed ==
  ASSUME NEW x, NEW y, NEW z
  PROVE  ToSet(<<x, y, z>>) = {x, y, z}
<1> DEFINE s == <<x, y, z>>
<1>1. s \in Seq({x, y, z}) /\ Len(s) = 3 /\ s[1] = x /\ s[2] = y /\ s[3] = z
  OBVIOUS
<1> HIDE DEF s
<1>2. \A e : e \in ToSet(s) <=> \E i \in 1..3 : s[i] = e
  BY <1>1, Membership
<1>3. \A i \in 1..3 : i = 1 \/ i = 2 \/ i = 3
  OBVIOUS
<1>4. \A e : e \in ToSet(s) <=> e \in {x, y, z}
  BY <1>1, <1>2, <1>3
<1>5. QED
  BY <1>4 DEF s

\* Set up one after the other, the selects show what is stored, if each of its
\* parts is offered.
LEMMA FreqInitIInv == FreqInit => FreqIInv
<1> SUFFICES ASSUME FreqInit PROVE FreqIInv
  OBVIOUS
<1> DEFINE ht == stored.ht
           hw == stored.hw
           ch == stored.ch
           M == ModeFor(ht)
           shows == FreqSetValues(NothingShown, "mode", <<"mode", "">>)
           inMode == Assign(shows, "mode", M)
           moded == ToggleMode(inMode)
           inBand == Assign(moded, "band", hw)
           banded == ToggleBand(inBand)
           wide == Assign(banded, "htmode", ht)
<1>1. /\ freq = Assign(wide, "channel", ch)
      /\ watched \in FreqLists /\ picked = Never
      /\ stored \in [ht : WidthNames, hw : Bands, ch : ChannelNames]
  BY DEF FreqInit, InitialValues
<1>2. {"mode", "htmode", "band", "channel"} = Selects
  BY DEF Selects
<1>3. FreqFits(NothingShown)
  BY DEF NothingShown, FreqFits, Selects
<1>4. FreqFits(shows) /\ shows.list["mode"] = <<"mode", "">>
  <2> DEFINE list == <<"mode", "">>
  <2>1. list[1] = "mode" /\ "mode" \in Selects
    BY <1>2
  <2> HIDE DEF list
  <2>2. FreqFits(FreqSetValues(NothingShown, "mode", list))
        /\ FreqSetValues(NothingShown, "mode", list).list["mode"] = list
    BY <1>3, <2>1, SetFits
  <2>3. QED
    BY <2>2 DEF list
<1> HIDE DEF shows
<1>5. FreqFits(inMode) /\ (M \in FreqChoices(<<"mode", "">>) => inMode.value["mode"] = M)
  BY <1>2, <1>4, AssignFits
<1> HIDE DEF inMode
<1>6. /\ FreqFits(moded) /\ moded.value["mode"] = inMode.value["mode"]
      /\ moded.list["htmode"] = <<"htmode", ModeOf(inMode)>>
      /\ moded.list["band"] = <<"band", ModeOf(inMode)>>
  BY <1>5, ModeShown
<1> HIDE DEF moded
<1>7. /\ FreqFits(inBand) /\ inBand.list = moded.list
      /\ inBand.value["mode"] = moded.value["mode"]
      /\ hw \in FreqChoices(moded.list["band"]) => inBand.value["band"] = hw
  BY <1>2, <1>6, AssignFits
<1> HIDE DEF inBand
<1>8. /\ FreqFits(banded) /\ banded.list["channel"] = <<"channel", banded.value["band"]>>
      /\ banded.list["htmode"] = inBand.list["htmode"]
      /\ inBand.list["band"] = <<"band", ModeOf(inBand)>> /\ ModeOf(inBand) \in Modes
           /\ inBand.value["band"] # Never => banded.value["band"] = inBand.value["band"]
  BY <1>7, BandShown
<1> HIDE DEF banded
<1>9. /\ FreqFits(wide) /\ wide.list = banded.list /\ wide.value["band"] = banded.value["band"]
      /\ ht \in FreqChoices(banded.list["htmode"]) => wide.value["htmode"] = ht
  BY <1>2, <1>8, AssignFits
<1> HIDE DEF wide
<1>10. /\ FreqFits(freq) /\ freq.value["band"] = wide.value["band"]
       /\ freq.value["htmode"] = wide.value["htmode"]
       /\ ch \in FreqChoices(wide.list["channel"]) => freq.value["channel"] = ch
  BY <1>1, <1>2, <1>9, AssignFits
<1>11. ht \in FrequencyNames /\ hw \in FrequencyNames /\ ch \in FrequencyNames /\ hw \in Bands
  BY <1>1 DEF FrequencyNames
<1>12. Never \notin FrequencyNames /\ Unoffered \notin FrequencyNames
  BY SelectionAssumption
<1>13. M \in Modes /\ ht \in ToSet(Widths[M])
  BY <1>1 DEF ModeFor, WidthNames
<1>14. ASSUME M \in radio.modes, ht \in radio.widths, hw \in FreqChoices(<<"band", M>>),
              ch \in ToSet(ChannelList(hw))
       PROVE  FreqFormValue = stored
  <2>1. M \in FreqChoices(<<"mode", "">>)
    <3> DEFINE list == <<"mode", "">>
    <3>1. list[1] = "mode"
      OBVIOUS
    <3> HIDE DEF M, list
    <3>2. ListEntries(list) = <<"", "n", "ac">> /\ Available(list, M)
      BY <1>14, <3>1 DEF ListEntries, Available
    <3>3. ToSet(<<"", "n", "ac">>) = Modes
      BY ThreeListed, Zenon DEF Modes
    <3>4. M \in FreqChoices(list)
      BY <1>13, <3>2, <3>3 DEF FreqChoices
    <3>5. QED
      BY <3>4 DEF list
  <2>2. M # Unoffered
    BY <1>12, <1>13 DEF FrequencyNames
  <2> HIDE DEF M
  <2>3. ModeOf(inMode) = M /\ ModeOf(inBand) = M
    BY <1>5, <1>6, <1>7, <2>1, <2>2 DEF ModeOf
  <2>4. inBand.value["band"] = hw /\ inBand.list["band"] = <<"band", M>>
    BY <1>6, <1>7, <1>14, <2>3
  <2>5. banded.value["band"] = hw
    BY <1>8, <1>11, <1>12, <1>13, <2>3, <2>4
  <2>6. banded.list["channel"] = <<"channel", hw>> /\ banded.list["htmode"] = <<"htmode", M>>
    BY <1>6, <1>7, <1>8, <2>3, <2>5
  <2>7. ht \in FreqChoices(<<"htmode", M>>)
    BY <1>13, <1>14 DEF FreqChoices, ListEntries, Available
  <2>8. ch \in FreqChoices(<<"channel", hw>>)
    BY <1>11, <1>14 DEF FreqChoices, ListEntries, Available
  <2>9. freq.value["band"] = hw /\ freq.value["htmode"] = ht /\ freq.value["channel"] = ch
    BY <1>9, <1>10, <2>5, <2>6, <2>7, <2>8
  <2>10. FreqFormValue = [ht |-> ht, hw |-> hw, ch |-> ch]
    BY <1>11, <1>12, <2>9 DEF FreqFormValue
  <2>11. QED
    BY <1>1, <2>10
<1>15. UntouchedKept
  BY <1>14 DEF UntouchedKept
<1>16. QED
  BY <1>1, <1>10, <1>15 DEF FreqIInv, Watching

-----------------------------------------------------------------------------
(* A form of the legacy framework.  While nobody else changes the sections,  *)
(* what was told of changes is what was changed, and an option that was      *)
(* parsed, unless the form is refused, has what was sent.                    *)

PostTypes == [at : {"remove", "options", "done"}, button : {"save", "remove", "add"},
              part : PartSet, apply : BOOLEAN, sent : [PartSet -> FieldInputs],
              todo : SUBSET (PartSet \X FieldSet), again : BOOLEAN,
              save : BOOLEAN, proceed : BOOLEAN, changed : BOOLEAN]

LegacyTypes == /\ staged \in [PartSet -> PartSettings \cup {Gone}]
               /\ post \in PostTypes \cup {NoPost}

\* The option of the section has what was sent, and parsed again it will.
Taken(s, o) ==
  LET given == post.sent[s][o] IN
  /\ given # Wrong
  /\ Meaning(o, staged[s][o]) = Meaning(o, IF given = NotSent THEN Unset ELSE given)
  /\ given = NotSent => staged[s][o] = Unset

ParsedTaken ==
  \A s \in Present(staged) \cap page, o \in FieldSet :
    (~post.again /\ <<s, o>> \in post.todo) \/ Taken(s, o)

PostFits ==
  /\ ~post.changed /\ ~post.proceed => SameMeaning(staged, found)
  /\ post.save /\ (post.again \/ post.at # "remove") => ParsedTaken

LegacyIInv ==
  /\ LegacyTypes
  /\ post # NoPost => /\ post.button = "add" => post.part \notin page
                      /\ post.at = "done" => post.again
                      /\ quiet => PostFits

LEMMA PostsAreNot == NoPost \notin PostTypes
<1>1. \A p \in PostTypes : p.at # "none"
  BY DEF PostTypes
<1>2. NoPost.at = "none"
  BY DEF NoPost
<1>3. QED
  BY <1>1, <1>2

\* A section with an option set is one, and so is one just created.
LEMMA SettingsFit ==
  /\ \A sec \in PartSettings, o \in FieldSet : \A v \in FieldValues(o) \cup {Unset} :
       [sec EXCEPT ![o] = v] \in PartSettings
  /\ Created \in PartSettings
<1> DEFINE V == (UNION {FieldValues(o) : o \in FieldSet}) \cup {Unset}
<1>1. \A o \in FieldSet : \A v \in FieldValues(o) \cup {Unset} : v \in V
  <2>1. ASSUME NEW o \in FieldSet, NEW v \in FieldValues(o)
        PROVE  v \in UNION {FieldValues(x) : x \in FieldSet}
    OBVIOUS
  <2>2. QED
    BY <2>1
<1>2. PartSettings = [FieldSet -> V]
  BY DEF PartSettings
<1>3. \A o \in FieldSet : Default(o) \in FieldValues(o) \cup {Unset}
  BY DEF Default, FieldValues
<1> HIDE DEF V
<1>4. QED
  BY <1>1, <1>2, <1>3 DEF Created

LEMMA LegacyInitIInv == LegacyInit => LegacyIInv
<1> SUFFICES ASSUME LegacyInit PROVE LegacyIInv
  OBVIOUS
<1>1. staged \in [PartSet -> PartSettings \cup {Gone}] /\ post = NoPost
  BY DEF LegacyInit
<1>2. QED
  BY <1>1 DEF LegacyIInv, LegacyTypes

LEMMA SubmitStep ==
  ASSUME LegacyIInv, NEW b \in {"save", "remove", "add"}, NEW s \in PartSet,
         NEW apply \in BOOLEAN, Submit(b, s, apply)
  PROVE  LegacyIInv'
<1> PICK sent \in [page -> FieldInputs] :
      post' = [at |-> "remove", button |-> b, part |-> s, apply |-> apply,
               sent |-> [x \in PartSet |-> IF x \in page THEN sent[x] ELSE NoneSent],
               todo |-> {}, again |-> FALSE,
               save |-> TRUE, proceed |-> FALSE, changed |-> FALSE]
  BY DEF Submit
<1>1. found' = staged /\ UNCHANGED <<staged, page, others, quiet>> /\ (b = "add" => s \notin page)
  BY DEF Submit
<1>2. NoneSent \in FieldInputs
  BY DEF NoneSent, FieldInputs, FieldInput
<1>3. [x \in PartSet |-> IF x \in page THEN sent[x] ELSE NoneSent] \in [PartSet -> FieldInputs]
  BY <1>2
<1>4. post' \in PostTypes
  BY <1>3 DEF PostTypes
<1>5. /\ post'.button = b /\ post'.part = s /\ post'.at = "remove" /\ ~post'.again
      /\ ~post'.changed /\ ~post'.proceed
  OBVIOUS
<1>6. PostFits'
  BY <1>1, <1>5 DEF PostFits, SameMeaning
<1>7. QED
  BY <1>1, <1>4, <1>5, <1>6 DEF LegacyIInv, LegacyTypes

\* A step of the request keeps what was asked for.
LEMMA PostKept ==
  ASSUME post \in PostTypes, NEW at \in {"remove", "options", "done"},
         NEW todo \in SUBSET (PartSet \X FieldSet), NEW again \in BOOLEAN, NEW save \in BOOLEAN,
         NEW proceed \in BOOLEAN, NEW changed \in BOOLEAN
  PROVE  LET p == [post EXCEPT !.at = at, !.todo = todo, !.again = again, !.save = save,
                               !.proceed = proceed, !.changed = changed] IN
           /\ p \in PostTypes
           /\ p.at = at /\ p.todo = todo /\ p.again = again /\ p.save = save
           /\ p.proceed = proceed /\ p.changed = changed
           /\ p.button = post.button /\ p.part = post.part /\ p.sent = post.sent
           /\ p.apply = post.apply
BY DEF PostTypes

LEMMA RemovePartStep ==
  ASSUME LegacyIInv, RemovePart
  PROVE  LegacyIInv'
<1> DEFINE hit == post.button = "remove" /\ staged[post.part] # Gone
           config == IF hit THEN [staged EXCEPT ![post.part] = Gone] ELSE staged
<1>1. /\ post.at = "remove" /\ staged' = config
      /\ post' = [post EXCEPT !.at = "options", !.todo = ToParse(config),
                              !.proceed = IF hit THEN TRUE ELSE @]
      /\ UNCHANGED <<page, others, quiet, found>>
  BY DEF RemovePart, Proceeds
<1>2. post \in PostTypes /\ post # NoPost /\ staged \in [PartSet -> PartSettings \cup {Gone}]
  BY <1>1 DEF LegacyIInv, LegacyTypes, NoPost
<1>3. config \in [PartSet -> PartSettings \cup {Gone}] /\ ToParse(config) \subseteq PartSet \X FieldSet
  BY <1>2 DEF ToParse, Present
<1>4. /\ post' \in PostTypes /\ post'.at = "options" /\ post'.todo = ToParse(config)
      /\ post'.again = post.again /\ post'.save = post.save /\ post'.changed = post.changed
      /\ post'.proceed = (IF hit THEN TRUE ELSE post.proceed)
      /\ post'.button = post.button /\ post'.part = post.part /\ post'.sent = post.sent
  <2> HIDE DEF hit, config
  <2>1. (IF hit THEN TRUE ELSE post.proceed) \in BOOLEAN
    BY <1>2 DEF PostTypes
  <2>2. QED
    BY <1>1, <1>2, <1>3, <2>1 DEF PostTypes
<1>5. Present(config) \subseteq Present(staged) /\ \A s \in Present(config) : config[s] = staged[s]
  BY <1>2 DEF Present
<1>6. ~post'.proceed => staged' = staged /\ ~post.proceed
  BY <1>1, <1>4
<1>7. ASSUME quiet, post.save, post.again PROVE ParsedTaken'
  <2>1. ParsedTaken
    BY <1>2, <1>7 DEF LegacyIInv, PostFits
  <2> HIDE DEF hit, config
  <2>2. QED
    BY <1>1, <1>4, <1>5, <1>7, <2>1 DEF ParsedTaken, Taken
<1>8. ASSUME ~post.again PROVE ParsedTaken'
  <2> HIDE DEF hit, config
  <2>1. QED
    BY <1>1, <1>4, <1>8 DEF ParsedTaken, ToParse
<1>9. quiet' => PostFits'
  <2>1. post'.save => ParsedTaken' \/ ~quiet
    BY <1>2, <1>4, <1>7, <1>8 DEF PostTypes
  <2> HIDE DEF hit, config
  <2>2. QED
    BY <1>1, <1>2, <1>4, <1>6, <2>1 DEF LegacyIInv, PostFits, SameMeaning
<1> HIDE DEF hit, config
<1>10. QED
  BY <1>1, <1>2, <1>3, <1>4, <1>9 DEF LegacyIInv, LegacyTypes

\* What is written has the type of the option, and means what was sent; unless
\* the given is refused, as it never is for one that was taken before.
LEMMA OutcomeTaken ==
  ASSUME NEW o \in FieldSet, NEW given \in FieldInput(o), NEW old,
         Outcome(o, given, old) # Wrong
  PROVE  /\ Outcome(o, given, old) \in FieldValues(o) \cup {Unset}
         /\ given # Wrong
         /\ Meaning(o, Outcome(o, given, old)) =
              Meaning(o, IF given = NotSent THEN Unset ELSE given)
         /\ given = NotSent => Outcome(o, given, old) = Unset
<1>1. CASE o \in Flags
  <2>1. given \in {"0", "1", NotSent}
    BY <1>1 DEF FieldInput, FieldValues
  <2>2. Default(o) = "0"
    BY <1>1 DEF Default
  <2>3. CASE given = "0" \/ given = NotSent
    <3>1. Outcome(o, given, old) = Unset
      BY <1>1, <2>2, <2>3 DEF Outcome
    <3>2. QED
      BY <1>1, <2>3, <3>1, LegacyAssumption DEF Meaning
  <2>4. CASE given = "1" /\ given # NotSent /\ given # "0"
    <3>1. Outcome(o, given, old) = given
      BY <1>1, <2>2, <2>4 DEF Outcome
    <3>2. QED
      BY <1>1, <2>4, <3>1 DEF FieldValues
  <2>5. QED
    BY <2>1, <2>3, <2>4
<1>2. CASE o \notin Flags /\ given = NotSent
  <2>1. Outcome(o, given, old) = Unset
    BY <1>2 DEF Outcome
  <2>2. QED
    BY <1>2, <2>1, LegacyAssumption
<1>3. CASE o \notin Flags /\ given # NotSent
  <2>1. Outcome(o, given, old) = given
    BY <1>3 DEF Outcome
  <2>2. QED
    BY <1>3, <2>1 DEF FieldInput
<1>4. QED
  BY <1>1, <1>2, <1>3

LEMMA ParseOptionStep ==
  ASSUME LegacyIInv, NEW s \in PartSet, NEW o \in FieldSet, ParseOption(s, o)
  PROVE  LegacyIInv'
<1> DEFINE there == staged[s] # Gone
           old == IF there THEN staged[s][o] ELSE Unset
           given == post.sent[s][o]
           new == Outcome(o, given, old)
           staging == there /\ new # Wrong
           told == ToldChange(o, given, new, old, staging)
<1>1. /\ post.at = "options" /\ <<s, o>> \in post.todo
      /\ staged' = IF staging THEN [staged EXCEPT ![s][o] = new] ELSE staged
      /\ post' = [post EXCEPT !.todo = @ \ {<<s, o>>},
                              !.save = @ /\ (new # Wrong \/ post.again),
                              !.changed = @ \/ told]
      /\ UNCHANGED <<page, others, quiet, found>>
  BY DEF ParseOption
<1>2. post \in PostTypes /\ post # NoPost /\ staged \in [PartSet -> PartSettings \cup {Gone}]
  BY <1>1 DEF LegacyIInv, LegacyTypes, NoPost
<1>3. given \in FieldInput(o)
  <2>1. post.sent[s] \in FieldInputs
    BY <1>2 DEF PostTypes
  <2>2. QED
    BY <2>1 DEF FieldInputs
<1>4. new # Wrong =>
        /\ new \in FieldValues(o) \cup {Unset} /\ given # Wrong
        /\ Meaning(o, new) = Meaning(o, IF given = NotSent THEN Unset ELSE given)
        /\ given = NotSent => new = Unset
  BY <1>3, OutcomeTaken
<1>5. told \in BOOLEAN /\ (staging /\ ~told => Meaning(o, new) = Meaning(o, old))
  BY DEF ToldChange
<1>6. staging => old = staged[s][o] /\ staged[s] # Gone
  OBVIOUS
<1>7. new = Wrong /\ ParsedTaken /\ post.again => Outcome(o, given, old) = Wrong
  OBVIOUS
<1>8. /\ given # Wrong /\ (given = NotSent => old = Unset)
      => new # Wrong
  BY LegacyAssumption DEF Outcome, Default
<1> HIDE DEF new, told
<1>9. /\ post' \in PostTypes /\ post'.at = "options" /\ post'.todo = post.todo \ {<<s, o>>}
      /\ post'.again = post.again /\ post'.save = (post.save /\ (new # Wrong \/ post.again))
      /\ post'.changed = (post.changed \/ told) /\ post'.proceed = post.proceed
      /\ post'.button = post.button /\ post'.part = post.part /\ post'.sent = post.sent
  BY <1>1, <1>2, <1>5 DEF PostTypes
<1>10. CASE staging
  <2>1. staged[s] \in PartSettings
    BY <1>2, <1>10
  <2>2. [staged[s] EXCEPT ![o] = new] \in PartSettings
    BY <1>4, <1>10, <2>1, SettingsFit
  <2>3. staged' = [staged EXCEPT ![s] = [staged[s] EXCEPT ![o] = new]]
    BY <1>1, <1>10
  <2>4. staged' \in [PartSet -> PartSettings \cup {Gone}]
    BY <1>2, <2>2, <2>3
  <2>5. Present(staged') = Present(staged)
    BY <1>2, <1>10, <2>2, <2>3, GoneAssumption DEF Present
  <2>6. /\ staged'[s][o] = new
        /\ \A x \in Present(staged), y \in FieldSet : <<x, y>> # <<s, o>> => staged'[x][y] = staged[x][y]
    BY <1>2, <2>1, <2>3 DEF Present, PartSettings
  <2>7. SameMeaning(staged, found) /\ ~told => SameMeaning(staged', found)
    <3>1. ~told => \A x \in Present(staged), y \in FieldSet :
                     Meaning(y, staged'[x][y]) = Meaning(y, staged[x][y])
      BY <1>5, <1>6, <1>10, <2>6
    <3>2. QED
      BY <2>5, <3>1 DEF SameMeaning
  <2>8. post'.save /\ ParsedTaken => ParsedTaken'
    <3> SUFFICES ASSUME ParsedTaken, NEW x \in Present(staged) \cap page, NEW y \in FieldSet,
                        ~(~post.again /\ <<x, y>> \in post'.todo)
                 PROVE  Taken(x, y)'
      BY <1>1, <1>9, <2>5 DEF ParsedTaken
    <3>1. CASE <<x, y>> = <<s, o>>
      <4>1. x = s /\ y = o
        BY <3>1
      <4>2. QED
        BY <1>4, <1>9, <1>10, <2>6, <4>1 DEF Taken
    <3>2. CASE <<x, y>> # <<s, o>>
      <4>1. Taken(x, y)
        BY <1>9, <3>2 DEF ParsedTaken
      <4>2. QED
        BY <1>9, <2>6, <3>2, <4>1 DEF Taken
    <3>3. QED
      BY <3>1, <3>2
  <2>9. PostFits => PostFits'
    BY <1>1, <1>2, <1>9, <2>7, <2>8 DEF PostFits, PostTypes
  <2>10. QED
    BY <1>1, <1>2, <1>9, <2>4, <2>9 DEF LegacyIInv, LegacyTypes
<1>11. CASE ~staging
  <2>1. staged' = staged
    BY <1>1, <1>11
  <2>2. ASSUME post'.save, ParsedTaken, post.save PROVE ParsedTaken'
    <3> SUFFICES ASSUME NEW x \in Present(staged) \cap page, NEW y \in FieldSet,
                        ~(~post.again /\ <<x, y>> \in post'.todo)
                 PROVE  Taken(x, y)'
      BY <1>1, <1>9, <2>1 DEF ParsedTaken
    <3>1. ~(~post.again /\ <<x, y>> \in post.todo)
      <4>1. CASE <<x, y>> = <<s, o>> /\ ~post.again
        <5>1. there /\ new = Wrong
          BY <1>11, <4>1 DEF Present
        <5>2. QED
          BY <1>9, <2>2, <4>1, <5>1
      <4>2. QED
        BY <1>9, <4>1
    <3>2. Taken(x, y)
      BY <2>2, <3>1 DEF ParsedTaken
    <3>3. QED
      BY <1>9, <2>1, <3>2 DEF Taken
  <2>3. PostFits => PostFits'
    BY <1>1, <1>2, <1>9, <2>1, <2>2 DEF PostFits, PostTypes
  <2>4. QED
    BY <1>1, <1>2, <1>9, <2>1, <2>3 DEF LegacyIInv, LegacyTypes
<1>12. QED
  BY <1>10, <1>11

LEMMA CreatePartStep ==
  ASSUME LegacyIInv, CreatePart
  PROVE  LegacyIInv'
<1> DEFINE hit == post.button = "add" /\ staged[post.part] = Gone
           at == IF post.save /\ post.apply /\ ~post.again THEN "remove" ELSE "done"
<1>1. /\ post.at = "options" /\ post.todo = {}
      /\ staged' = IF hit THEN [staged EXCEPT ![post.part] = Created] ELSE staged
      /\ post' = [post EXCEPT !.at = at, !.again = TRUE, !.proceed = IF hit THEN TRUE ELSE @]
      /\ UNCHANGED <<page, others, quiet, found>>
  BY DEF CreatePart, Proceeds
<1>2. post \in PostTypes /\ post # NoPost /\ staged \in [PartSet -> PartSettings \cup {Gone}]
  BY <1>1 DEF LegacyIInv, LegacyTypes, NoPost
<1>3. at \in {"remove", "done"} /\ (IF hit THEN TRUE ELSE post.proceed) \in BOOLEAN
  BY <1>2 DEF PostTypes
<1>4. post.part \in PartSet /\ (hit => post.part \notin page)
  BY <1>2 DEF PostTypes, LegacyIInv
<1> HIDE DEF at
<1>5. /\ post' \in PostTypes /\ post'.at = at /\ post'.again /\ post'.save = post.save
      /\ post'.changed = post.changed /\ post'.proceed = (IF hit THEN TRUE ELSE post.proceed)
      /\ post'.button = post.button /\ post'.part = post.part /\ post'.sent = post.sent
  <2> HIDE DEF hit
  <2>1. QED
    BY <1>1, <1>2, <1>3 DEF PostTypes
<1>6. Created \in PartSettings
  BY SettingsFit
<1>7. /\ staged' \in [PartSet -> PartSettings \cup {Gone}]
      /\ \A s \in page : staged'[s] = staged[s] \/ s \notin PartSet
  BY <1>1, <1>2, <1>4, <1>6
<1>8. quiet => PostFits
  BY <1>2 DEF LegacyIInv
<1>9. quiet /\ post.save => ParsedTaken'
  <2>1. quiet /\ post.save => \A s \in Present(staged) \cap page, o \in FieldSet : Taken(s, o)
    BY <1>1, <1>8 DEF PostFits, ParsedTaken
  <2>2. \A s \in Present(staged') \cap page : s \in Present(staged) /\ staged'[s] = staged[s]
    BY <1>7 DEF Present
  <2> HIDE DEF hit
  <2>3. QED
    BY <1>1, <1>5, <2>1, <2>2 DEF ParsedTaken, Taken
<1>10. quiet' => PostFits'
  BY <1>1, <1>5, <1>8, <1>9 DEF PostFits, SameMeaning
<1> HIDE DEF hit
<1>11. QED
  BY <1>1, <1>2, <1>5, <1>7, <1>10 DEF LegacyIInv, LegacyTypes

LEMMA OthersChangeStep ==
  ASSUME LegacyIInv, NEW s \in PartSet, OthersChange(s)
  PROVE  LegacyIInv'
<1>1. quiet' = FALSE /\ UNCHANGED <<page, post, found>>
  BY DEF OthersChange
<1>2. Created \in PartSettings
  BY SettingsFit
<1>3. staged \in [PartSet -> PartSettings \cup {Gone}]
  BY DEF LegacyIInv, LegacyTypes
<1>4. staged' \in [PartSet -> PartSettings \cup {Gone}]
  <2>1. CASE staged' = [staged EXCEPT ![s] = Created] \/ staged' = [staged EXCEPT ![s] = Gone]
    BY <1>2, <1>3, <2>1
  <2>2. ASSUME staged[s] # Gone, NEW o \in FieldSet, NEW v \in FieldValues(o),
               staged' = [staged EXCEPT ![s][o] = v]
        PROVE  staged' \in [PartSet -> PartSettings \cup {Gone}]
    <3>1. [staged[s] EXCEPT ![o] = v] \in PartSettings
      BY <1>3, <2>2, SettingsFit
    <3>2. staged' = [staged EXCEPT ![s] = [staged[s] EXCEPT ![o] = v]]
      BY <2>2
    <3>3. QED
      BY <1>3, <3>1, <3>2
  <2>3. QED
    BY <2>1, <2>2 DEF OthersChange
<1>5. QED
  BY <1>1, <1>4 DEF LegacyIInv, LegacyTypes

LEMMA LegacyNextIInv == LegacyIInv /\ [LegacyNext]_legacyVars => LegacyIInv'
<1> SUFFICES ASSUME LegacyIInv, [LegacyNext]_legacyVars PROVE LegacyIInv'
  OBVIOUS
<1>1. CASE UNCHANGED legacyVars
  BY <1>1 DEF legacyVars, LegacyIInv, LegacyTypes, PostFits, ParsedTaken, Taken, SameMeaning, Present
<1>2. CASE RenderPage
  <2>1. post = NoPost /\ UNCHANGED <<staged, post>>
    BY <1>2 DEF RenderPage
  <2>2. QED
    BY <2>1 DEF LegacyIInv, LegacyTypes
<1>3. CASE Answered
  <2>1. post' = NoPost /\ UNCHANGED staged
    BY <1>3 DEF Answered
  <2>2. QED
    BY <2>1 DEF LegacyIInv, LegacyTypes
<1>4. CASE RemovePart \/ CreatePart
  BY <1>4, RemovePartStep, CreatePartStep
<1>5. CASE \E b \in {"save", "remove", "add"}, s \in PartSet, apply \in BOOLEAN : Submit(b, s, apply)
  BY <1>5, SubmitStep
<1>6. CASE \E s \in PartSet, o \in FieldSet : ParseOption(s, o)
  BY <1>6, ParseOptionStep
<1>7. CASE \E s \in PartSet : OthersChange(s)
  BY <1>7, OthersChangeStep
<1>8. QED
  BY <1>1, <1>2, <1>3, <1>4, <1>5, <1>6, <1>7 DEF LegacyNext

LEMMA LegacyIInvSound == LegacyIInv => StateTrue
<1> SUFFICES ASSUME LegacyIInv, post # NoPost, post.at = "done", quiet
             PROVE  /\ FormState = "VALID" => SameMeaning(staged, found)
                    /\ FormState # "INVALID" =>
                         \A s \in Present(staged) \cap page, o \in FieldSet :
                           Meaning(o, staged[s][o]) =
                             Meaning(o, IF post.sent[s][o] = NotSent THEN Unset ELSE post.sent[s][o])
  BY DEF StateTrue, ValidChangedNothing, SentIsStaged
<1>1. PostFits /\ post.again
  BY DEF LegacyIInv
<1>2. FormState = "VALID" => ~post.changed /\ ~post.proceed
  BY DEF FormState
<1>3. FormState # "INVALID" => post.save
  BY DEF FormState
<1>4. QED
  BY <1>1, <1>2, <1>3 DEF PostFits, ParsedTaken, Taken

-----------------------------------------------------------------------------
(* The picker of files.  A file is deleted while it is selected only if it   *)
(* was selected with its deletion under way, which is a cause for it to be   *)
(* gone.                                                                     *)

Docs0 == Docs \cup {Nowhere}
Folders == Dirs \cup {Top}
Pickers == [value : Docs0, label : Docs0, stat : Docs0, open : BOOLEAN, dir : Folders,
            rows : SUBSET Entries, mark : Docs0]
Listings == [op : {"open", "list"}, at : Folders, here : BOOLEAN, got : {Nowhere} \cup SUBSET Entries]
Orders == [op : {"delete", "upload"}, at : Entries, here : BOOLEAN, got : {Nowhere} \cup BOOLEAN]
CallTypes == {NoCall} \cup Listings \cup Orders

DeletedForCause ==
  \A c \in CallIds : calls[c].op = "delete" /\ calls[c].at = picker.value => excused

BrowserIInv ==
  /\ disk \subseteq Entries /\ picker \in Pickers /\ calls \in [CallIds -> CallTypes]
  /\ DeletedForCause /\ BrowserSound

LEMMA BrowserInitIInv == BrowserInit => BrowserIInv
<1> SUFFICES ASSUME BrowserInit PROVE BrowserIInv
  OBVIOUS
<1> PICK files \in SUBSET Entries, v \in Docs0 :
      /\ disk = files
      /\ picker = [value |-> v, label |-> v, stat |-> IF v \in files THEN v ELSE Nowhere,
                   open |-> FALSE, dir |-> Top, rows |-> {}, mark |-> Nowhere]
      /\ calls = [c \in CallIds |-> NoCall] /\ another = FALSE /\ excused = (v \notin files)
  BY DEF BrowserInit, Docs0
<1>1. picker \in Pickers
  BY DEF Pickers, Folders, Docs0
<1>2. calls \in [CallIds -> CallTypes] /\ \A c \in CallIds : calls[c].op = "none"
  BY DEF CallTypes, NoCall
<1>3. BrowserSound
  BY DEF BrowserSound, LabelTrue, OneOpen, MarkTrue, GoneForCause
<1>4. QED
  BY <1>1, <1>2, <1>3 DEF BrowserIInv, DeletedForCause

\* A request is told from none by its operation.
LEMMA CallOp ==
  ASSUME NEW x \in CallTypes
  PROVE  /\ x = NoCall <=> x.op = "none"
         /\ x.op \in {"open", "list"} => x \in Listings
         /\ x.op \in {"delete", "upload"} => x \in Orders
BY DEF CallTypes, NoCall, Listings, Orders

\* The elements that were clicked go from the page, and nothing else of the requests.
LEMMA DetachedCalls ==
  ASSUME NEW ops, NEW cs \in [CallIds -> CallTypes]
  PROVE  /\ Detached(ops, cs) \in [CallIds -> CallTypes]
         /\ \A c \in CallIds : /\ Detached(ops, cs)[c].op = cs[c].op
                               /\ cs[c].op = "delete" => Detached(ops, cs)[c].at = cs[c].at
<1>1. ASSUME NEW c \in CallIds
      PROVE  LET d == IF cs[c] # NoCall /\ cs[c].op \in ops THEN [cs[c] EXCEPT !.here = FALSE] ELSE cs[c]
             IN  d \in CallTypes /\ d.op = cs[c].op /\ (cs[c].op = "delete" => d.at = cs[c].at)
  <2>1. CASE cs[c] = NoCall
    BY <2>1 DEF CallTypes
  <2>2. CASE cs[c] \in Listings
    BY <2>2 DEF CallTypes, Listings
  <2>3. CASE cs[c] \in Orders
    BY <2>3 DEF CallTypes, Orders
  <2>4. QED
    BY <2>1, <2>2, <2>3 DEF CallTypes
<1>2. QED
  BY <1>1 DEF Detached

\* The steps that leave the widget and what there is as they are, but for the answer
\* to a request or a new one that deletes nothing.
LEMMA CallChanged ==
  ASSUME BrowserIInv, NEW c \in CallIds, NEW x \in CallTypes, calls' = [calls EXCEPT ![c] = x],
         x.op = "delete" => calls[c].op = "delete" /\ x.at = calls[c].at,
         UNCHANGED <<picker, another, excused>>, disk \subseteq disk', disk' \subseteq Entries
  PROVE  BrowserIInv'
<1>1. calls' \in [CallIds -> CallTypes]
  BY DEF BrowserIInv
<1>2. DeletedForCause'
  BY DEF BrowserIInv, DeletedForCause
<1>3. BrowserSound'
  BY DEF BrowserIInv, BrowserSound, LabelTrue, OneOpen, MarkTrue, GoneForCause
<1>4. QED
  BY <1>1, <1>2, <1>3 DEF BrowserIInv

\* What the router does.
LEMMA RouterListsStep ==
  ASSUME BrowserIInv, NEW c \in CallIds, RouterLists(c)
  PROVE  BrowserIInv'
<1> DEFINE x == [calls[c] EXCEPT !.got = Content(calls[c].at, disk)]
<1>1. /\ calls[c] \in Listings /\ calls' = [calls EXCEPT ![c] = x]
      /\ UNCHANGED <<picker, another, excused, disk>>
  BY CallOp DEF RouterLists, BrowserIInv
<1>2. x \in Listings
  BY <1>1 DEF Listings, Content, BrowserIInv
<1>3. x \in CallTypes /\ x.op # "delete"
  BY <1>2 DEF CallTypes, Listings
<1> HIDE DEF x
<1>4. QED
  BY <1>1, <1>3, CallChanged DEF BrowserIInv

\* A file that is selected goes only by its own deletion or with its directory.
LEMMA RouterDeletesStep ==
  ASSUME BrowserIInv, NEW c \in CallIds, RouterDeletes(c)
  PROVE  BrowserIInv'
<1>1. calls[c] \in Orders /\ calls[c].op = "delete" /\ UNCHANGED <<picker, another>>
  BY CallOp DEF RouterDeletes, BrowserIInv
<1>2. ASSUME NEW b \in BOOLEAN
      PROVE  LET x == [calls[c] EXCEPT !.got = b] IN
             x \in CallTypes /\ x.op = "delete" /\ x.at = calls[c].at
  BY <1>1 DEF Orders, CallTypes
<1>3. CASE /\ calls[c].at \in disk /\ disk' = disk \ Removed(calls[c].at, disk)
           /\ calls' = [calls EXCEPT ![c].got = TRUE]
           /\ excused' = (excused \/ picker.value \in Removed(calls[c].at, disk) \ {calls[c].at})
  <2>1. calls' \in [CallIds -> CallTypes] /\ \A d \in CallIds : calls'[d].op = "delete" =>
          calls[d].op = "delete" /\ calls'[d].at = calls[d].at
    BY <1>1, <1>2, <1>3 DEF BrowserIInv
  <2>2. excused => excused'
    BY <1>3
  <2>3. DeletedForCause'
    BY <1>1, <2>1, <2>2 DEF DeletedForCause, BrowserIInv
  <2>4. GoneForCause'
    BY <1>1, <1>3, <2>2 DEF GoneForCause, BrowserIInv, BrowserSound, DeletedForCause
  <2>5. disk' \subseteq Entries
    BY <1>3 DEF BrowserIInv
  <2>6. QED
    BY <1>1, <2>1, <2>3, <2>4, <2>5 DEF BrowserIInv, BrowserSound, LabelTrue, OneOpen, MarkTrue
<1>4. CASE calls' = [calls EXCEPT ![c].got = FALSE] /\ UNCHANGED <<disk, excused>>
  <2> DEFINE x == [calls[c] EXCEPT !.got = FALSE]
  <2>1. x \in CallTypes /\ x.op = "delete" /\ x.at = calls[c].at
    BY <1>2
  <2>2. calls' = [calls EXCEPT ![c] = x]
    BY <1>4
  <2> HIDE DEF x
  <2>3. QED
    BY <1>1, <1>4, <2>1, <2>2, CallChanged DEF BrowserIInv
<1>5. QED
  BY <1>3, <1>4 DEF RouterDeletes

LEMMA RouterStoresStep ==
  ASSUME BrowserIInv, NEW c \in CallIds, RouterStores(c)
  PROVE  BrowserIInv'
<1>1. calls[c] \in Orders /\ calls[c].op = "upload" /\ UNCHANGED <<picker, another, excused>>
  BY CallOp DEF RouterStores, BrowserIInv
<1>2. PICK b \in BOOLEAN : calls' = [calls EXCEPT ![c].got = b]
  BY DEF RouterStores
<1> DEFINE x == [calls[c] EXCEPT !.got = b]
<1>3. x \in CallTypes /\ x.op = "upload"
  BY <1>1 DEF Orders, CallTypes
<1>4. calls' = [calls EXCEPT ![c] = x]
  BY <1>2
<1>5. disk \subseteq disk' /\ disk' \subseteq Entries
  BY <1>1 DEF RouterStores, Orders, BrowserIInv
<1> HIDE DEF x
<1>6. QED
  BY <1>1, <1>3, <1>4, <1>5, CallChanged

\* The steps of the widget that select no file and delete none.
LEMMA WidgetStep ==
  ASSUME BrowserIInv, disk' = disk, picker' \in Pickers, calls' \in [CallIds -> CallTypes],
         \A d \in CallIds : calls'[d].op = "delete" => calls[d].op = "delete" /\ calls'[d].at = calls[d].at,
         picker'.value = Nowhere \/ (picker'.value = picker.value /\ excused' = excused),
         LabelTrue', OneOpen', MarkTrue'
  PROVE  BrowserIInv'
<1>1. \A d \in CallIds : calls[d].op = "delete" => calls[d].at # Nowhere
  BY CallOp, BrowserAssumption DEF BrowserIInv, Orders, Entries
<1>2. DeletedForCause'
  BY <1>1 DEF DeletedForCause, BrowserIInv
<1>3. GoneForCause'
  BY DEF GoneForCause, BrowserIInv, BrowserSound
<1>4. QED
  BY <1>2, <1>3 DEF BrowserIInv, BrowserSound

LEMMA RequestTyped ==
  /\ \A d \in Folders : Request("open", d) \in CallTypes /\ Request("list", d) \in CallTypes
  /\ \A e \in Entries : Request("delete", e) \in CallTypes /\ Request("upload", e) \in CallTypes
  /\ \A o, d : Request(o, d).op = o /\ Request(o, d).at = d
BY DEF Request, CallTypes, Listings, Orders

LEMMA PickerTyped ==
  ASSUME BrowserIInv
  PROVE  /\ picker.value \in Docs0 /\ picker.stat \in Docs0 /\ picker.dir \in Folders
         /\ picker.label = picker.value
         /\ Waiting(picker) \in Pickers /\ WithoutListing(picker) \in Pickers
         /\ Cleared(picker) \in Pickers
BY DEF BrowserIInv, BrowserSound, LabelTrue, Pickers, Waiting, WithoutListing, Cleared, Docs0, Entries

LEMMA FolderTyped == \A e \in Entries : Folder[e] \in Folders
BY BrowserAssumption DEF Folders, Entries

\* A new request, or none any more, with the rows on the page as they are or not.
LEMMA BrowseSteps ==
  ASSUME BrowserIInv, NEW c \in CallIds,
         handleFileBrowser(c) \/ \E e \in Entries : handleUpload(c, e)
  PROVE  BrowserIInv'
<1>1. CASE handleFileBrowser(c)
  <2> DEFINE d == IF picker.stat = Nowhere THEN Top ELSE Folder[picker.stat]
             x == Request("open", d)
  <2>1. d \in Folders
    BY PickerTyped, FolderTyped DEF Docs0, Entries, Folders
  <2>2. /\ calls' = [calls EXCEPT ![c] = x] /\ UNCHANGED <<picker, another, excused, disk>>
    BY <1>1 DEF handleFileBrowser
  <2>3. x \in CallTypes /\ x.op # "delete"
    BY <2>1, RequestTyped
  <2> HIDE DEF x
  <2>4. QED
    BY <2>2, <2>3, CallChanged DEF BrowserIInv
<1>2. CASE \E e \in Entries : handleUpload(c, e)
  <2> PICK e \in Entries : handleUpload(c, e)
    BY <1>2
  <2> DEFINE x == Request("upload", e)
  <2>2. /\ calls' = [calls EXCEPT ![c] = x] /\ UNCHANGED <<picker, another, excused, disk>>
    BY DEF handleUpload
  <2>3. x \in CallTypes /\ x.op # "delete"
    BY RequestTyped
  <2> HIDE DEF x
  <2>4. QED
    BY <2>2, <2>3, CallChanged DEF BrowserIInv
<1>3. QED
  BY <1>1, <1>2

LEMMA ListAnswerStep ==
  ASSUME BrowserIInv, NEW c \in CallIds, ListAnswer(c)
  PROVE  BrowserIInv'
<1> DEFINE listed == ListingOf(picker, calls[c].at, calls[c].got)
           cs == [calls EXCEPT ![c] = NoCall]
<1>1. calls[c] \in Listings /\ calls[c].got \in SUBSET Entries
  BY CallOp DEF ListAnswer, BrowserIInv, Listings
<1>2. /\ listed \in Pickers /\ listed.value = picker.value /\ listed.label = picker.value
      /\ listed.mark \in {picker.value, Nowhere} /\ listed.open = picker.open
  BY <1>1, PickerTyped DEF ListingOf, Pickers, Listings, BrowserIInv, Docs0
<1>3. cs \in [CallIds -> CallTypes] /\ \A d \in CallIds : cs[d].op = "delete" => cs[d] = calls[d]
  BY DEF BrowserIInv, CallTypes, NoCall
<1>4. calls' = Detached({"delete", "upload"}, cs) /\ disk' = disk /\ excused' = excused
  BY DEF ListAnswer, ListingGone
<1>5. IF calls[c].op = "open" THEN picker' = [listed EXCEPT !.open = TRUE] /\ another' = FALSE
      ELSE picker' = listed /\ another' = another
  BY DEF ListAnswer
<1> HIDE DEF cs, listed
<1>6. /\ calls' \in [CallIds -> CallTypes]
      /\ \A d \in CallIds : calls'[d].op = "delete" => calls[d].op = "delete" /\ calls'[d].at = calls[d].at
  BY <1>3, <1>4, DetachedCalls
<1>7. /\ picker' \in Pickers /\ picker'.value = picker.value /\ picker'.label = picker.value
      /\ picker'.mark \in {picker.value, Nowhere}
      /\ (picker'.open /\ another' => picker.open /\ another)
  BY <1>2, <1>5 DEF Pickers
<1>8. LabelTrue' /\ OneOpen' /\ MarkTrue'
  BY <1>7 DEF LabelTrue, OneOpen, MarkTrue, BrowserIInv, BrowserSound
<1>9. QED
  BY <1>4, <1>6, <1>7, <1>8, WidgetStep

LEMMA ClosingSteps ==
  ASSUME BrowserIInv, handleCancel \/ handleReset \/ AnotherOpened \/ AnotherClosed
  PROVE  BrowserIInv'
<1>1. disk' = disk /\ calls' = calls /\ calls \in [CallIds -> CallTypes]
  BY DEF handleCancel, handleReset, AnotherOpened, AnotherClosed, BrowserIInv
<1>2. CASE handleCancel \/ AnotherOpened \/ AnotherClosed
  <2>1. /\ picker' \in Pickers /\ picker'.value = picker.value /\ picker'.label = picker.label
        /\ picker'.mark = picker.mark /\ excused' = excused
        /\ picker'.open => picker.open /\ ~another'
    BY <1>2, PickerTyped DEF handleCancel, AnotherOpened, AnotherClosed, WithoutListing, Pickers, BrowserIInv
  <2>2. LabelTrue' /\ OneOpen' /\ MarkTrue'
    BY <2>1 DEF LabelTrue, OneOpen, MarkTrue, BrowserIInv, BrowserSound
  <2>3. QED
    BY <1>1, <2>1, <2>2, WidgetStep
<1>3. CASE handleReset
  <2>1. /\ picker' \in Pickers /\ picker'.value = Nowhere /\ picker'.label = Nowhere /\ ~picker'.open
    BY <1>3 DEF handleReset, WithoutListing, Cleared, Pickers, BrowserIInv, Docs0
  <2>2. LabelTrue' /\ OneOpen' /\ MarkTrue'
    BY <2>1 DEF LabelTrue, OneOpen, MarkTrue
  <2>3. QED
    BY <1>1, <2>1, <2>2, WidgetStep
<1>4. QED
  BY <1>2, <1>3

LEMMA SelectFileStep ==
  ASSUME BrowserIInv, NEW f \in Docs, SelectFile(f)
  PROVE  BrowserIInv'
<1>1. /\ picker' \in Pickers /\ picker'.value = f /\ picker'.label = f /\ ~picker'.open
  BY DEF SelectFile, WithoutListing, Pickers, BrowserIInv, Docs0
<1>2. /\ UNCHANGED <<disk, calls, another>>
      /\ excused' = (f \notin disk \/ Under("delete", f))
  BY DEF SelectFile
<1>3. DeletedForCause'
  BY <1>1, <1>2, CallOp DEF DeletedForCause, Under, BrowserIInv
<1>4. BrowserSound'
  BY <1>1, <1>2 DEF BrowserSound, LabelTrue, OneOpen, MarkTrue, GoneForCause
<1>5. QED
  BY <1>1, <1>2, <1>3, <1>4 DEF BrowserIInv

\* The listing of a directory is asked for, in the place of another one.
LEMMA ListAgain ==
  ASSUME BrowserIInv, NEW c \in CallIds, NEW d \in Folders, picker' = Waiting(picker),
         calls' = [RowsGone(calls) EXCEPT ![c] = Request("list", d)], UNCHANGED <<disk, another, excused>>
  PROVE  BrowserIInv'
<1> DEFINE cs == Detached({"delete"}, calls)
<1>1. /\ cs \in [CallIds -> CallTypes]
      /\ \A e \in CallIds : cs[e].op = "delete" => calls[e].op = "delete" /\ cs[e].at = calls[e].at
  BY DetachedCalls DEF BrowserIInv
<1> DEFINE x == Request("list", d)
<1>2. calls' = [cs EXCEPT ![c] = x] /\ x \in CallTypes /\ x.op # "delete"
  BY RequestTyped DEF RowsGone
<1> HIDE DEF cs, x
<1>3. /\ calls' \in [CallIds -> CallTypes]
      /\ \A e \in CallIds : calls'[e].op = "delete" => calls[e].op = "delete" /\ calls'[e].at = calls[e].at
  BY <1>1, <1>2
<1>4. /\ picker' \in Pickers /\ picker'.value = picker.value /\ picker'.label = picker.value
      /\ picker'.mark = Nowhere /\ picker'.open = picker.open
  BY PickerTyped DEF Waiting, Pickers, BrowserIInv
<1>5. LabelTrue' /\ OneOpen' /\ MarkTrue'
  BY <1>4 DEF LabelTrue, OneOpen, MarkTrue, BrowserIInv, BrowserSound
<1>6. QED
  BY <1>3, <1>4, <1>5, WidgetStep

LEMMA EnterDirectoryStep ==
  ASSUME BrowserIInv, NEW c \in CallIds, NEW d \in Folders, EnterDirectory(c, d)
  PROVE  BrowserIInv'
BY ListAgain DEF EnterDirectory

LEMMA DoneStep ==
  ASSUME BrowserIInv, NEW c \in CallIds, Done(c)
  PROVE  BrowserIInv'
<1>1. calls[c] \in Orders /\ UNCHANGED <<disk, another, excused>>
  BY CallOp DEF Done, BrowserIInv
<1>2. CASE calls[c].here /\ (calls[c].got \/ calls[c].op = "upload")
  <2>1. Folder[calls[c].at] \in Folders
    BY <1>1, FolderTyped DEF Orders
  <2>2. /\ picker' = Waiting(picker)
        /\ calls' = [RowsGone(calls) EXCEPT ![c] = Request("list", Folder[calls[c].at])]
    BY <1>2 DEF Done
  <2>3. QED
    BY <1>1, <2>1, <2>2, ListAgain
<1>3. CASE ~(calls[c].here /\ (calls[c].got \/ calls[c].op = "upload"))
  <2>1. calls' = [calls EXCEPT ![c] = NoCall] /\ picker' = picker
    BY <1>3 DEF Done
  <2>2. NoCall \in CallTypes /\ NoCall.op # "delete"
    BY DEF CallTypes, NoCall
  <2>3. QED
    BY <1>1, <2>1, <2>2, CallChanged DEF BrowserIInv
<1>4. QED
  BY <1>2, <1>3

LEMMA DeleteStep ==
  ASSUME BrowserIInv, NEW c \in CallIds, NEW e \in Entries, handleDelete(c, e)
  PROVE  BrowserIInv'
<1>1. /\ picker' = Forgotten(e) /\ calls' = [calls EXCEPT ![c] = Request("delete", e)]
      /\ excused' = (excused /\ e # picker.value) /\ UNCHANGED <<disk, another>>
  BY DEF handleDelete
<1>2. /\ calls' \in [CallIds -> CallTypes]
      /\ \A d \in CallIds : calls'[d].op = "delete" =>
           calls'[d].at = e \/ (calls[d].op = "delete" /\ calls'[d].at = calls[d].at)
  BY <1>1, RequestTyped DEF BrowserIInv
<1>3. \A d \in CallIds : calls[d].op = "delete" => calls[d].at # Nowhere
  BY CallOp, BrowserAssumption DEF BrowserIInv, Orders, Entries
<1>4. e # Nowhere
  BY BrowserAssumption DEF Entries
<1>5. CASE e = picker.value
  <2>1. /\ picker' \in Pickers /\ picker'.value = Nowhere /\ picker'.label = Nowhere
        /\ picker'.open = picker.open
    BY <1>1, <1>5 DEF Forgotten, Cleared, Pickers, BrowserIInv, Docs0
  <2>2. BrowserSound'
    BY <1>1, <2>1 DEF BrowserSound, LabelTrue, OneOpen, MarkTrue, GoneForCause, BrowserIInv
  <2>3. DeletedForCause'
    BY <1>2, <1>3, <1>4, <2>1 DEF DeletedForCause
  <2>4. QED
    BY <1>1, <1>2, <2>1, <2>2, <2>3 DEF BrowserIInv
<1>6. CASE e # picker.value
  <2>1. picker' = picker /\ (excused' <=> excused)
    BY <1>1, <1>6 DEF Forgotten
  <2>2. BrowserSound'
    BY <1>1, <2>1 DEF BrowserSound, LabelTrue, OneOpen, MarkTrue, GoneForCause, BrowserIInv
  <2>3. DeletedForCause'
    BY <1>2, <1>6, <2>1 DEF DeletedForCause, BrowserIInv
  <2>4. QED
    BY <1>1, <1>2, <2>1, <2>2, <2>3 DEF BrowserIInv
<1>7. QED
  BY <1>5, <1>6

LEMMA BrowserNextIInv == BrowserIInv /\ [BrowserNext]_pickerVars => BrowserIInv'
<1> SUFFICES ASSUME BrowserIInv, [BrowserNext]_pickerVars PROVE BrowserIInv'
  OBVIOUS
<1>1. CASE UNCHANGED pickerVars
  BY <1>1 DEF pickerVars, BrowserIInv, DeletedForCause, BrowserSound, LabelTrue, OneOpen, MarkTrue, GoneForCause
<1>2. CASE \E c \in CallIds : RouterLists(c) \/ RouterDeletes(c) \/ RouterStores(c)
  BY <1>2, RouterListsStep, RouterDeletesStep, RouterStoresStep
<1>3. CASE \E c \in CallIds : handleFileBrowser(c) \/ ListAnswer(c) \/ Done(c)
  BY <1>3, BrowseSteps, ListAnswerStep, DoneStep
<1>4. CASE \E c \in CallIds : \/ \E d \in Dirs \cup {Top} : EnterDirectory(c, d)
                              \/ \E e \in Entries : handleDelete(c, e) \/ handleUpload(c, e)
  BY <1>4, EnterDirectoryStep, DeleteStep, BrowseSteps DEF Folders
<1>5. CASE handleCancel \/ handleReset \/ AnotherOpened \/ AnotherClosed
  BY <1>5, ClosingSteps
<1>6. CASE \E f \in Docs : SelectFile(f)
  BY <1>6, SelectFileStep
<1>7. QED
  BY <1>1, <1>2, <1>3, <1>4, <1>5, <1>6 DEF BrowserNext

-----------------------------------------------------------------------------
(* Flashing.  Until another session meddles with it, what lies in /tmp is    *)
(* what the page sent, and once it was checked what the dialog describes.    *)

Stages == {"idle", "picking", "uploading", "checking", "testing", "asking", "sent", "waiting", "stuck"}

FlashIInv ==
  /\ stage \in Stages /\ job \in {"flash", "restore"}
  /\ uploaded \in Files \cup {NoFile} /\ tmp \in Files \cup {NoFile}
  /\ stage # "waiting" => router.up
  /\ stage \in Stages \ {"idle", "waiting", "stuck"} => uploaded # NoFile
  /\ stage = "checking" /\ ~meddled => tmp = uploaded
  /\ stage \in {"testing", "asking", "sent"} /\ ~meddled => tmp = described
  /\ stage \in {"testing", "asking", "sent"} /\ job = "flash" /\ ~meddled => described = uploaded
  /\ stage \in {"asking", "sent"} /\ job = "flash" /\ keep => MayKeep
  /\ stage = "sent" /\ job = "flash" => Continues
  /\ FlashSound

LEMMA FlashInitIInv == FlashInit => FlashIInv
BY DEF FlashInit, FlashIInv, Stages, FlashSound, FlashedAsAgreed, ComesBack, Up

LEMMA FlashStep ==
  ASSUME FlashIInv, Flash
  PROVE  FlashIInv'
<1>1. /\ stage = "sent" /\ job = "flash" /\ router.up /\ stage' = "waiting"
      /\ UNCHANGED <<job, keep, force, uploaded, described, meddled>>
  BY DEF Flash, Page
<1>2. tmp' \in Files \cup {NoFile}
  BY DEF Flash, FlashIInv
<1>3. CASE Takes
  <2>1. router' = [address |-> IF keep THEN Own ELSE DefaultAddress, up |-> FALSE,
                   runs |-> tmp, kept |-> keep, forced |-> force]
    BY <1>3 DEF Flash
  <2>2. ~meddled => tmp = described /\ tmp = uploaded /\ tmp # NoFile
    BY <1>1 DEF FlashIInv
  <2>3. FlashedAsAgreed'
    BY <1>1, <2>1, <2>2 DEF FlashedAsAgreed, FlashIInv, Continues, Valid, MayKeep
  <2>4. ComesBack'
    BY <1>1, <2>1 DEF ComesBack, Awaited
  <2>5. QED
    BY <1>1, <1>2, <2>3, <2>4 DEF FlashIInv, Stages, FlashSound
<1>4. CASE ~Takes
  BY <1>1, <1>2, <1>4 DEF Flash, FlashIInv, Stages, FlashSound, FlashedAsAgreed, ComesBack
<1>5. QED
  BY <1>3, <1>4

\* Before the router is flashed there is nothing that FlashSound is about.
LEMMA BeforeFlashing ==
  ASSUME FlashIInv, FlashNext, ~Flash
  PROVE  FlashSound'
<1>1. CASE stage = "waiting" /\ stage' = "waiting"
  <2>1. ~PickFile /\ ~Upload /\ ~Stored /\ ~Check /\ ~Test /\ ~Tick /\ ~Cancel /\ ~Confirm /\ ~Restore
        /\ ~Meddle /\ ~Reconnected /\ ~Reload
    BY <1>1 DEF PickFile, Upload, Stored, Check, Test, Tick, Cancel, Confirm, Restore, Meddle,
                Reconnected, Reload, Opened
  <2>2. Boot
    BY <2>1 DEF FlashNext
  <2>3. stage = "waiting" /\ router' = [router EXCEPT !.up = TRUE]
    BY <1>1, <2>2 DEF Boot
  <2>4. QED
    BY <2>3 DEF FlashSound, FlashedAsAgreed, ComesBack
<1>2. CASE stage # "waiting" /\ stage' = "waiting"
  <2>1. /\ ~PickFile /\ ~Upload /\ ~Stored /\ ~Check /\ ~Test /\ ~Tick /\ ~Cancel /\ ~Confirm
        /\ ~Boot /\ ~Meddle /\ ~Reconnected /\ ~Reload
    BY <1>2 DEF PickFile, Upload, Stored, Check, Test, Tick, Cancel, Confirm, Boot, Meddle,
                Reconnected, Reload, Opened
  <2>2. Restore
    BY <2>1 DEF FlashNext
  <2>3. job' = "restore"
    BY <2>2 DEF Restore, Page
  <2>4. QED
    BY <2>3 DEF FlashSound, FlashedAsAgreed, ComesBack
<1>3. CASE stage' # "waiting"
  BY <1>3 DEF FlashSound, FlashedAsAgreed, ComesBack
<1>4. QED
  BY <1>1, <1>2, <1>3

LEMMA FlashNextIInv == FlashIInv /\ [FlashNext]_flashVars => FlashIInv'
<1> SUFFICES ASSUME FlashIInv, [FlashNext]_flashVars PROVE FlashIInv'
  OBVIOUS
<1>1. CASE UNCHANGED flashVars
  BY <1>1 DEF flashVars, FlashIInv, FlashSound, FlashedAsAgreed, ComesBack, MayKeep, Continues, Valid, Awaited
<1>2. CASE PickFile
  BY <1>2, FirmwareAssumption, BeforeFlashing DEF PickFile, FlashNext, Flash, FlashIInv, Stages, Page
<1>3. CASE Upload
  BY <1>3, BeforeFlashing DEF Upload, FlashNext, Flash, FlashIInv, Stages, Page
<1>4. CASE Stored
  <2>1. FlashSound'
    BY <1>4, BeforeFlashing DEF Stored, FlashNext, Flash
  <2>2. stage' \in {"checking", "idle"} /\ UNCHANGED <<job, keep, force, uploaded, described, router>>
    BY <1>4 DEF Stored, Page
  <2>3. tmp' \in Files \cup {NoFile} /\ (stage' = "checking" => tmp' = uploaded)
    BY <1>4, <2>2 DEF Stored, FlashIInv
  <2>4. uploaded # NoFile /\ router.up
    BY <1>4 DEF Stored, FlashIInv, Stages
  <2>5. QED
    BY <2>1, <2>2, <2>3, <2>4 DEF FlashIInv, Stages
<1>5. CASE Check
  BY <1>5, BeforeFlashing DEF Check, TmpRemoved, FlashNext, Flash, FlashIInv, Stages, Page
<1>6. CASE Test
  BY <1>6, BeforeFlashing DEF Test, MayKeep, FlashNext, Flash, FlashIInv, Stages
<1>7. CASE Tick
  BY <1>7, BeforeFlashing DEF Tick, MayKeep, FlashNext, Flash, FlashIInv, Stages
<1>8. CASE Cancel
  BY <1>8, BeforeFlashing DEF Cancel, TmpRemoved, FlashNext, Flash, FlashIInv, Stages, Page
<1>9. CASE Confirm
  BY <1>9, BeforeFlashing DEF Confirm, Continues, Valid, MayKeep, FlashNext, Flash, FlashIInv, Stages, Page
<1>10. CASE Flash
  BY <1>10, FlashStep
<1>11. CASE Restore
  BY <1>11, BeforeFlashing DEF Restore, FlashNext, Flash, FlashIInv, Stages, Page
<1>12. CASE Boot
  BY <1>12, BeforeFlashing DEF Boot, MayKeep, FlashNext, Flash, FlashIInv, Stages, Page
<1>13. CASE Meddle
  BY <1>13, BeforeFlashing DEF Meddle, MayKeep, Continues, Valid, FlashNext, Flash, FlashIInv, Stages, Page
<1>14. CASE Reconnected \/ Reload
  <2>1. FlashSound'
    BY <1>14, BeforeFlashing DEF Reconnected, Reload, Opened, FlashNext, Flash
  <2>2. /\ stage' = "idle" /\ tmp' = tmp /\ job' = job /\ uploaded' = NoFile
        /\ router' = Up(router.address, router.runs, router.kept)
    BY <1>14 DEF Reconnected, Reload, Opened
  <2>3. QED
    BY <2>1, <2>2 DEF FlashIInv, Stages, Up
<1>15. QED
  BY <1>1, <1>2, <1>3, <1>4, <1>5, <1>6, <1>7, <1>8, <1>9, <1>10, <1>11, <1>12, <1>13, <1>14 DEF FlashNext

-----------------------------------------------------------------------------
(* The table of the interfaces.  A row spins for one of its buttons, and     *)
(* neither can be pressed then: a mark is that of the button, and while an   *)
(* answer or the user's consent is still to come there is none.              *)

Marks == {"none", "set", "done"}
RowTypes == [reconnect : Marks, disconnect : Marks, spinning : {{}, {"reconnect"}, {"down"}},
             disabled : SUBSET Buttons, drawn : {0, 1}]

IfaceTypes == /\ inbound \subseteq Ifaces /\ row \in [Ifaces -> RowTypes]
              /\ asking \subseteq Row /\ question \in Row \cup {NoRow}
              /\ wish \in [Ifaces -> {"none", "up", "down"}]

\* A row that spins cannot be pressed.
RowFits(r) ==
  /\ r.spinning # {} => r.disabled = Buttons
  /\ r.reconnect # "none" => r.spinning = {"reconnect"}
  /\ r.disconnect # "none" => r.spinning = {"down"}

\* What was asked for is marked and nothing else is, and an interface in use that
\* is to be stopped is one that the user has agreed to stop.
MarkFits(r, w) ==
  /\ r.reconnect = "set" <=> w = "up"
  /\ r.disconnect = "set" <=> w = "down"

\* The rows that an answer or the user's consent is still to come for.
Undecided == asking \cup ({question} \ {NoRow})
Here(i, r) == [iface |-> i, drawn |-> r.drawn]
AwaitsAnswer(r) == r.reconnect = "none" /\ r.disconnect = "none" /\ r.spinning = {"down"}
HasMark(r) == r.reconnect # "none" \/ r.disconnect # "none"

RowsIInv ==
  /\ IfaceTypes /\ commands
  /\ \A i \in Ifaces : RowFits(row[i]) /\ MarkFits(row[i], wish[i])
  /\ \A i \in inbound : row[i].disconnect = "set" => i \in agreed
  /\ \A a \in Undecided : /\ a.drawn = 1 => row[a.iface].drawn = 1
                          /\ StillDrawn(a) => AwaitsAnswer(row[a.iface])
  /\ question \notin asking
  /\ ~replaced => \A i \in Ifaces : row[i].spinning # {} => HasMark(row[i]) \/ Here(i, row[i]) \in Undecided
  /\ \A i, j \in Ifaces : row[i].drawn = row[j].drawn

LEMMA RowsInitIInv == RowsInit => RowsIInv
<1> SUFFICES ASSUME RowsInit PROVE RowsIInv
  OBVIOUS
<1> USE DEF RowsInit
<1>1. \A i \in Ifaces :
        /\ row[i] = Fresh(i \in up, 0) /\ row[i] \in RowTypes /\ RowFits(row[i])
        /\ row[i].reconnect = "none" /\ row[i].disconnect = "none" /\ row[i].spinning = {}
        /\ row[i].drawn = 0
  BY DEF Fresh, RowTypes, Buttons, Marks, RowFits
<1>2. row \in [Ifaces -> RowTypes]
  BY <1>1
<1>3. IfaceTypes
  BY <1>2 DEF IfaceTypes
<1>4. \A i \in Ifaces : MarkFits(row[i], wish[i])
  BY <1>1 DEF MarkFits
<1>5. Undecided = {}
  BY DEF Undecided
<1>6. QED
  BY <1>1, <1>3, <1>4, <1>5 DEF RowsIInv, IfaceTypes

\* A step that changes one row, and what it must see to.
LEMMA RowChanged ==
  ASSUME RowsIInv, NEW i \in Ifaces, NEW r \in RowTypes, NEW w \in {"none", "up", "down"},
         row' = [row EXCEPT ![i] = r], wish' = [wish EXCEPT ![i] = w], RowFits(r), MarkFits(r, w),
         r.drawn = row[i].drawn, commands' = commands, inbound' = inbound,
         asking' \subseteq Row, question' \in Row \cup {NoRow}, question' \notin asking',
         i \in inbound /\ r.disconnect = "set" => i \in agreed',
         \A j \in agreed : j = i \/ j \in agreed',
         Undecided' \subseteq Undecided \cup {Here(i, r)},
         Here(i, r) \in Undecided' => AwaitsAnswer(r),
         replaced => replaced',
         ~replaced' => Undecided \subseteq Undecided' \cup {Here(i, r)},
         ~replaced' /\ r.spinning # {} => HasMark(r) \/ Here(i, r) \in Undecided'
  PROVE  RowsIInv'
<1> DEFINE pending == Undecided'
<1>1. row' \in [Ifaces -> RowTypes] /\ wish' \in [Ifaces -> {"none", "up", "down"}]
  BY DEF RowsIInv, IfaceTypes
<1>2. /\ row'[i] = r /\ wish'[i] = w
      /\ \A j \in Ifaces \ {i} : row'[j] = row[j] /\ wish'[j] = wish[j]
  BY DEF RowsIInv, IfaceTypes
<1>3. \A j \in Ifaces : row'[j].drawn = row[j].drawn
  BY <1>2
<1>4. \A j \in Ifaces : RowFits(row'[j]) /\ MarkFits(row'[j], wish'[j])
  BY <1>2 DEF RowsIInv
<1>5. \A j \in inbound : row'[j].disconnect = "set" => j \in agreed'
  BY <1>2 DEF RowsIInv, IfaceTypes
<1>6. pending \subseteq Row /\ \A a \in Row : a.iface \in Ifaces /\ a = [iface |-> a.iface, drawn |-> a.drawn]
  BY DEF Undecided, Row
<1>7. ASSUME NEW a \in pending
      PROVE  /\ a.drawn = 1 => row'[a.iface].drawn = 1
             /\ row'[a.iface].drawn = a.drawn => AwaitsAnswer(row'[a.iface])
  <2>1. CASE a \in Undecided /\ a.iface # i
    BY <1>2, <1>6, <2>1 DEF RowsIInv, StillDrawn
  <2>2. CASE a = Here(i, r)
    BY <1>2, <2>2 DEF Here
  <2>3. CASE a \in Undecided /\ a.iface = i
    <3>1. a.drawn = 1 => row'[i].drawn = 1
      BY <1>3, <2>3 DEF RowsIInv
    <3>2. a.drawn = r.drawn => a = Here(i, r)
      BY <1>6, <2>3 DEF Here
    <3>3. QED
      BY <1>2, <2>3, <3>1, <3>2
  <2>4. QED
    BY <2>1, <2>2, <2>3
<1>8. ASSUME ~replaced', NEW j \in Ifaces, row'[j].spinning # {}
      PROVE  HasMark(row'[j]) \/ Here(j, row'[j]) \in pending
  <2>1. CASE j = i
    BY <1>2, <1>8, <2>1
  <2>2. CASE j # i
    <3>1. Here(j, row[j]) # Here(i, r)
      BY <2>2 DEF Here
    <3>2. HasMark(row[j]) \/ Here(j, row[j]) \in Undecided
      BY <1>2, <1>8, <2>2 DEF RowsIInv
    <3>3. QED
      BY <1>2, <1>8, <2>2, <3>1, <3>2
  <2>3. QED
    BY <2>1, <2>2
<1>9. \A j, k \in Ifaces : row'[j].drawn = row'[k].drawn
  BY <1>3 DEF RowsIInv
<1>10. IfaceTypes' /\ commands' /\ inbound' \subseteq Ifaces
  BY <1>1 DEF RowsIInv, IfaceTypes
<1>11. \A a \in pending : StillDrawn(a)' <=> row'[a.iface].drawn = a.drawn
  BY DEF StillDrawn
<1>12. QED
  BY <1>4, <1>5, <1>7, <1>8, <1>9, <1>10 DEF RowsIInv, StillDrawn

\* A step that changes none, because the row was drawn again in the meantime.
LEMMA RowsAsTheyWere ==
  ASSUME RowsIInv, UNCHANGED <<row, wish, inbound, commands>>,
         asking' \subseteq Row, question' \in Row \cup {NoRow}, question' \notin asking',
         agreed \subseteq agreed', Undecided' \subseteq Undecided, replaced => replaced',
         ~replaced' => \A a \in Undecided \ Undecided' : ~StillDrawn(a)
  PROVE  RowsIInv'
<1> DEFINE pending == Undecided'
<1>1. ASSUME NEW i \in Ifaces PROVE ~replaced' /\ Here(i, row[i]) \in Undecided => Here(i, row[i]) \in pending
  BY DEF Here, StillDrawn
<1>2. \A i \in Ifaces : ~replaced' /\ row[i].spinning # {} => HasMark(row[i]) \/ Here(i, row[i]) \in pending
  BY <1>1 DEF RowsIInv
<1>3. IfaceTypes' /\ commands'
  BY DEF RowsIInv, IfaceTypes
<1>4. \A i \in inbound : row[i].disconnect = "set" => i \in agreed'
  BY DEF RowsIInv
<1>5. \A a \in pending : /\ a.drawn = 1 => row[a.iface].drawn = 1
                         /\ row[a.iface].drawn = a.drawn => AwaitsAnswer(row[a.iface])
  BY DEF RowsIInv, StillDrawn
<1>6. QED
  BY <1>2, <1>3, <1>4, <1>5 DEF RowsIInv, StillDrawn

LEMMA PressStep ==
  ASSUME RowsIInv, NEW i \in Ifaces, PressReconnect(i) \/ PressDown(i)
  PROVE  RowsIInv'
<1>1. row[i] \in RowTypes /\ RowFits(row[i]) /\ MarkFits(row[i], wish[i]) /\ row \in [Ifaces -> RowTypes]
  BY DEF RowsIInv, IfaceTypes
<1>2. /\ question = NoRow /\ row[i].spinning = {}
      /\ row[i].reconnect = "none" /\ row[i].disconnect = "none"
  BY <1>1 DEF PressReconnect, PressDown, MayPress, RowFits, Buttons
<1>3. Here(i, row[i]) \notin Undecided
  BY <1>2 DEF RowsIInv, AwaitsAnswer, StillDrawn, Here
<1>4. wish[i] = "none" /\ wish \in [Ifaces -> {"none", "up", "down"}] /\ row[i].drawn \in {0, 1}
  BY <1>1, <1>2 DEF RowsIInv, IfaceTypes, MarkFits, RowTypes
<1>5. CASE PressReconnect(i)
  <2> DEFINE r == [row[i] EXCEPT !.spinning = {"reconnect"}, !.disabled = Buttons, !.reconnect = "set"]
  <2>1. /\ r \in RowTypes /\ RowFits(r) /\ MarkFits(r, "up") /\ r.drawn = row[i].drawn
        /\ r.disconnect = "none" /\ r.reconnect = "set"
    BY <1>1, <1>2 DEF RowTypes, RowFits, MarkFits, Marks
  <2>2. row' = [row EXCEPT ![i] = r]
    BY <1>1, <1>2, <1>5 DEF PressReconnect, Pressed, RowTypes
  <2>3. wish' = [wish EXCEPT ![i] = "up"] /\ UNCHANGED <<inbound, asking, question, agreed, commands, replaced>>
    BY <1>5 DEF PressReconnect
  <2>4. Undecided' = Undecided
    BY <2>3 DEF Undecided
  <2>5. Here(i, r) \notin Undecided' /\ HasMark(r)
    BY <1>3, <2>1, <2>4 DEF Here, HasMark
  <2>6. asking' \subseteq Row /\ question' \in Row \cup {NoRow} /\ question' \notin asking'
    BY <2>3 DEF RowsIInv, IfaceTypes
  <2> HIDE DEF r
  <2>7. QED
    BY <2>1, <2>2, <2>3, <2>4, <2>5, <2>6, RowChanged
<1>6. CASE PressDown(i)
  <2> DEFINE r == [row[i] EXCEPT !.spinning = {"down"}, !.disabled = Buttons]
             a == Here(i, r)
  <2>1. /\ r \in RowTypes /\ RowFits(r) /\ MarkFits(r, wish[i]) /\ r.drawn = row[i].drawn
        /\ r.disconnect = "none" /\ r.reconnect = "none" /\ r.spinning = {"down"}
    BY <1>1, <1>2, <1>4 DEF RowTypes, RowFits, MarkFits, Marks
  <2>2. row' = [row EXCEPT ![i] = r]
    BY <1>1, <1>2, <1>6 DEF PressDown, Pressed, RowTypes
  <2>3. /\ wish' = wish /\ asking' = asking \cup {a} /\ agreed' = agreed \ {i}
        /\ UNCHANGED <<inbound, question, commands, replaced>>
    BY <1>6, <2>1 DEF PressDown, Here
  <2>4. a \in Row
    BY <1>4, <2>1 DEF Row, Here
  <2>5. wish' = [wish EXCEPT ![i] = wish[i]]
    BY <1>4, <2>3
  <2>6. Undecided' = Undecided \cup {a} /\ AwaitsAnswer(r)
    BY <1>2, <2>1, <2>3 DEF Undecided, AwaitsAnswer
  <2>7. asking' \subseteq Row /\ question' \in Row \cup {NoRow} /\ question' \notin asking'
    BY <1>2, <2>3, <2>4, IfaceAssumption DEF RowsIInv, IfaceTypes
  <2> HIDE DEF r
  <2>8. QED
    BY <1>4, <2>1, <2>2, <2>3, <2>5, <2>6, <2>7, RowChanged
<1>7. QED
  BY <1>5, <1>6

\* The row of an answer or of the user's decision, if it is still drawn.
LEMMA RowOf ==
  ASSUME RowsIInv, NEW a \in Undecided
  PROVE  /\ a \in Row /\ a.iface \in Ifaces /\ a = [iface |-> a.iface, drawn |-> a.drawn]
         /\ row[a.iface] \in RowTypes /\ RowFits(row[a.iface])
         /\ MarkFits(row[a.iface], wish[a.iface]) /\ wish[a.iface] \in {"none", "up", "down"}
         /\ StillDrawn(a) => AwaitsAnswer(row[a.iface]) /\ Here(a.iface, row[a.iface]) = a
                             /\ wish[a.iface] = "none"
<1>1. a \in Row
  BY DEF RowsIInv, IfaceTypes, Undecided
<1>2. /\ a.iface \in Ifaces /\ a = [iface |-> a.iface, drawn |-> a.drawn]
      /\ row[a.iface] \in RowTypes /\ RowFits(row[a.iface])
      /\ MarkFits(row[a.iface], wish[a.iface]) /\ wish[a.iface] \in {"none", "up", "down"}
  BY <1>1 DEF RowsIInv, IfaceTypes, Row
<1>3. ASSUME StillDrawn(a)
      PROVE  /\ AwaitsAnswer(row[a.iface]) /\ Here(a.iface, row[a.iface]) = a
             /\ wish[a.iface] = "none"
  BY <1>2, <1>3 DEF RowsIInv, StillDrawn, Here, AwaitsAnswer, MarkFits
<1>4. QED
  BY <1>1, <1>2, <1>3

\* What is done with a row once it is decided whether to stop the interface.
LEMMA RowMarked ==
  ASSUME RowsIInv, NEW a \in Undecided, row' = Marked(a), wish' = Wished(a), a \notin Undecided',
         Undecided' \subseteq Undecided, Undecided \ {a} \subseteq Undecided',
         asking' \subseteq Row, question' \in Row \cup {NoRow}, question' \notin asking',
         UNCHANGED <<commands, inbound, replaced>>, agreed \subseteq agreed',
         a.iface \in inbound => a.iface \in agreed'
  PROVE  RowsIInv'
<1> DEFINE i == a.iface
           r == [row[i] EXCEPT !.disconnect = "set"]
<1>1. CASE StillDrawn(a)
  <2>1. /\ r \in RowTypes /\ RowFits(r) /\ MarkFits(r, "down") /\ r.drawn = row[i].drawn /\ HasMark(r)
        /\ Here(i, r) = a
    BY <1>1, RowOf DEF RowTypes, RowFits, MarkFits, Marks, AwaitsAnswer, HasMark, Here
  <2>2. row' = [row EXCEPT ![i] = r] /\ wish' = [wish EXCEPT ![i] = "down"]
    BY <1>1, RowOf DEF Marked, Wished, RowsIInv, IfaceTypes
  <2>3. i \in Ifaces
    BY RowOf
  <2> HIDE DEF i, r
  <2>4. i \in inbound => i \in agreed'
    BY DEF i
  <2>5. QED
    BY <2>1, <2>2, <2>3, <2>4, RowChanged
<1>2. CASE ~StillDrawn(a)
  BY <1>2, RowsAsTheyWere DEF Marked, Wished
<1>3. QED
  BY <1>1, <1>2

LEMMA AnswerStep ==
  ASSUME RowsIInv, NEW a \in asking, PeerAddr(a) \/ Unheard(a)
  PROVE  RowsIInv'
<1>1. a \in Undecided /\ a \in Row /\ asking' = asking \ {a} /\ asking' \subseteq Row /\ NoRow \notin asking
  BY IfaceAssumption DEF PeerAddr, Unheard, Undecided, RowsIInv, IfaceTypes
<1>2. question # a /\ question \in Row \cup {NoRow} /\ question \notin asking
  BY DEF RowsIInv, IfaceTypes
<1>3. CASE IsInbound(a.iface) /\ PeerAddr(a)
  <2>1. /\ question' = a /\ replaced' = (replaced \/ question # NoRow)
        /\ UNCHANGED <<row, wish, inbound, commands, agreed>>
    BY <1>3 DEF PeerAddr
  <2>2. Undecided' \subseteq Undecided /\ (~replaced' => Undecided' = Undecided)
    BY <1>1, <1>2, <2>1 DEF Undecided
  <2>3. QED
    BY <1>1, <2>1, <2>2, RowsAsTheyWere
<1>4. CASE ~(IsInbound(a.iface) /\ PeerAddr(a))
  <2>1. /\ row' = Marked(a) /\ wish' = Wished(a) /\ question' = question /\ agreed \subseteq agreed'
        /\ UNCHANGED <<commands, inbound, replaced>> /\ (a.iface \in inbound => a.iface \in agreed')
    BY <1>4 DEF PeerAddr, Unheard, IsInbound
  <2>2. Undecided' = Undecided \ {a}
    BY <1>1, <1>2, <2>1 DEF Undecided
  <2>3. QED
    BY <1>1, <1>2, <2>1, <2>2, RowMarked
<1>5. QED
  BY <1>3, <1>4

LEMMA DisconnectStep ==
  ASSUME RowsIInv, Disconnect
  PROVE  RowsIInv'
<1>1. /\ question \in Undecided /\ question # NoRow /\ question' = NoRow /\ asking' = asking
      /\ asking \subseteq Row /\ question \notin asking /\ NoRow \notin asking
  BY IfaceAssumption DEF Disconnect, Undecided, RowsIInv, IfaceTypes
<1>2. Undecided' = Undecided \ {question}
  BY <1>1 DEF Undecided
<1>3. /\ row' = Marked(question) /\ wish' = Wished(question) /\ agreed' = agreed \cup {question.iface}
      /\ UNCHANGED <<commands, inbound, replaced>>
  BY DEF Disconnect
<1>4. QED
  BY <1>1, <1>2, <1>3, RowMarked

LEMMA CancelStopStep ==
  ASSUME RowsIInv, CancelStop
  PROVE  RowsIInv'
<1> DEFINE i == question.iface
           r == [row[i] EXCEPT !.spinning = @ \ {"down"}, !.disabled = {}]
<1>1. /\ question \in Undecided /\ question # NoRow /\ question' = NoRow /\ asking' = asking
      /\ asking \subseteq Row /\ question \notin asking /\ NoRow \notin asking
  BY IfaceAssumption DEF CancelStop, Undecided, RowsIInv, IfaceTypes
<1>2. Undecided' = Undecided \ {question}
  BY <1>1 DEF Undecided
<1>3. UNCHANGED <<wish, commands, inbound, replaced, agreed>>
  BY DEF CancelStop
<1>4. CASE StillDrawn(question)
  <2>1. AwaitsAnswer(row[i]) /\ Here(i, row[i]) = question /\ row[i] \in RowTypes /\ i \in Ifaces
        /\ MarkFits(row[i], wish[i])
    BY <1>1, <1>4, RowOf
  <2>2. /\ r \in RowTypes /\ RowFits(r) /\ MarkFits(r, wish[i]) /\ r.drawn = row[i].drawn
        /\ r.spinning = {} /\ r.disconnect = "none" /\ Here(i, r) = question
    BY <2>1 DEF AwaitsAnswer, RowTypes, RowFits, MarkFits, Marks, Here
  <2>3. row' = [row EXCEPT ![i] = r] /\ wish' = [wish EXCEPT ![i] = wish[i]]
        /\ wish[i] \in {"none", "up", "down"}
    BY <1>3, <1>4, <2>1 DEF CancelStop, RowsIInv, IfaceTypes
  <2> HIDE DEF r, i
  <2>4. QED
    BY <1>1, <1>2, <1>3, <2>1, <2>2, <2>3, RowChanged
<1>5. CASE ~StillDrawn(question)
  BY <1>1, <1>2, <1>3, <1>5, RowsAsTheyWere DEF CancelStop
<1>6. QED
  BY <1>4, <1>5

\* The table is drawn again while it is the first: no answer is about a row of the
\* second.
LEMMA DrawAgainStep ==
  ASSUME RowsIInv, DrawAgain
  PROVE  RowsIInv'
<1>1. /\ row' = [i \in Ifaces |-> Fresh(i \in up, 1)] /\ wish' = [i \in Ifaces |-> "none"]
      /\ UNCHANGED <<inbound, asking, question, agreed, commands, replaced>>
  BY DEF DrawAgain
<1>2. \A i \in Ifaces : /\ row'[i] \in RowTypes /\ RowFits(row'[i]) /\ MarkFits(row'[i], wish'[i])
                        /\ row'[i].disconnect = "none" /\ row'[i].spinning = {} /\ row'[i].drawn = 1
  BY <1>1 DEF Fresh, RowTypes, Buttons, Marks, RowFits, MarkFits
<1>3. \A i \in Ifaces : row[i].drawn = 0
  BY DEF RowsIInv, DrawAgain
<1>4. \A a \in Undecided : a.drawn = 0
  BY <1>3, RowOf DEF Row, RowsIInv
<1>5. IfaceTypes'
  BY <1>1, <1>2 DEF RowsIInv, IfaceTypes
<1>6. Undecided' = Undecided /\ \A a \in Undecided : a.iface \in Ifaces
  BY <1>1, RowOf DEF Undecided
<1>7. \A a \in Undecided : (a.drawn = 1 => row'[a.iface].drawn = 1) /\ row'[a.iface].drawn # a.drawn
  BY <1>2, <1>4, <1>6
<1>8. inbound' \subseteq Ifaces /\ commands' /\ question' \notin asking'
  BY <1>1 DEF RowsIInv, IfaceTypes
<1>9. QED
  BY <1>2, <1>5, <1>6, <1>7, <1>8 DEF RowsIInv, StillDrawn

\* A step that may change every row, but none that is decided upon.
LEMMA RowsRefreshed ==
  ASSUME RowsIInv, row' \in [Ifaces -> RowTypes], wish' \in [Ifaces -> {"none", "up", "down"}],
         UNCHANGED <<asking, question, inbound, replaced>>, commands',
         \A i \in Ifaces : /\ RowFits(row'[i]) /\ MarkFits(row'[i], wish'[i])
                           /\ row'[i].drawn = row[i].drawn
                           /\ AwaitsAnswer(row[i]) => AwaitsAnswer(row'[i])
                           /\ row'[i].spinning # {} => HasMark(row'[i])
                                                       \/ (row[i].spinning # {} /\ ~HasMark(row[i])),
         \A i \in inbound : row'[i].disconnect = "set" => i \in agreed'
  PROVE  RowsIInv'
<1>1. Undecided' = Undecided /\ \A a \in Undecided : a.iface \in Ifaces
  BY RowOf DEF Undecided
<1>2. \A i \in Ifaces : Here(i, row'[i]) = Here(i, row[i])
  BY DEF Here
<1>3. IfaceTypes' /\ question' \notin asking' /\ commands'
  BY DEF RowsIInv, IfaceTypes
<1>4. \A a \in Undecided : /\ a.drawn = 1 => row'[a.iface].drawn = 1
                           /\ row'[a.iface].drawn = a.drawn => AwaitsAnswer(row'[a.iface])
  BY <1>1 DEF RowsIInv, StillDrawn
<1>5. \A i \in Ifaces : ~replaced' /\ row'[i].spinning # {} => HasMark(row'[i]) \/ Here(i, row'[i]) \in Undecided
  BY <1>2 DEF RowsIInv
<1>6. \A i, j \in Ifaces : row'[i].drawn = row'[j].drawn
  BY DEF RowsIInv
<1>7. QED
  BY <1>1, <1>3, <1>4, <1>5, <1>6 DEF RowsIInv, StillDrawn

LEMMA CarriedFits ==
  ASSUME NEW r \in RowTypes, RowFits(r), NEW w \in {"none", "up", "down"}, MarkFits(r, w)
  PROVE  /\ Carried(r) \in RowTypes /\ RowFits(Carried(r)) /\ Carried(r).drawn = r.drawn
         /\ MarkFits(Carried(r), IF Starts(r) \/ Stops(r) THEN "none" ELSE w)
         /\ Carried(r).disconnect # "set"
         /\ AwaitsAnswer(r) => AwaitsAnswer(Carried(r))
         /\ Carried(r).spinning # {} => HasMark(Carried(r)) \/ (r.spinning # {} /\ ~HasMark(r))
         /\ (Starts(r) => w = "up") /\ (Stops(r) => w = "down")
<1> USE DEF RowTypes, RowFits, MarkFits, Starts, Stops, AwaitsAnswer, HasMark, Marks
<1>1. CASE r.reconnect = "set"
  <2>1. Carried(r) = [r EXCEPT !.reconnect = "done"]
    BY <1>1 DEF Carried
  <2>2. QED
    BY <1>1, <2>1
<1>2. CASE r.disconnect = "set"
  <2>1. Carried(r) = [r EXCEPT !.disconnect = "done"]
    BY <1>2 DEF Carried
  <2>2. QED
    BY <1>2, <2>1
<1>3. CASE r.reconnect = "done"
  <2>1. Carried(r) = [r EXCEPT !.reconnect = "none", !.spinning = @ \ {"reconnect"},
                              !.disabled = @ \ {"reconnect"}]
    BY <1>3 DEF Carried
  <2>2. r.spinning \ {"reconnect"} = {} /\ r.disconnect = "none"
    BY <1>3
  <2>3. QED
    BY <1>3, <2>1, <2>2
<1>4. CASE r.disconnect = "done"
  <2>1. Carried(r) = [r EXCEPT !.disconnect = "none", !.spinning = @ \ {"down"},
                              !.disabled = @ \ {"down"}]
    BY <1>4 DEF Carried
  <2>2. r.spinning \ {"down"} = {} /\ r.reconnect = "none"
    BY <1>4
  <2>3. QED
    BY <1>4, <2>1, <2>2
<1>5. CASE r.reconnect = "none" /\ r.disconnect = "none"
  <2>1. Carried(r) = r
    BY <1>5 DEF Carried
  <2>2. QED
    BY <1>5, <2>1
<1>6. QED
  BY <1>1, <1>2, <1>3, <1>4, <1>5

LEMMA PollRowsStep ==
  ASSUME RowsIInv, PollRows
  PROVE  RowsIInv'
<1>1. \A i \in Ifaces : /\ row[i] \in RowTypes /\ RowFits(row[i]) /\ wish[i] \in {"none", "up", "down"}
                        /\ MarkFits(row[i], wish[i])
  BY DEF RowsIInv, IfaceTypes
<1>2. /\ row' = [i \in Ifaces |-> Carried(row[i])]
      /\ wish' = [i \in Ifaces |-> IF Starts(row[i]) \/ Stops(row[i]) THEN "none" ELSE wish[i]]
      /\ UNCHANGED <<inbound, asking, question, replaced>>
  BY DEF PollRows
<1>3. commands'
  <2>1. \A i \in Ifaces : Stops(row[i]) /\ i \in inbound => i \in agreed
    BY DEF RowsIInv, Stops
  <2>2. commands /\ \A i \in Ifaces : (Starts(row[i]) => wish[i] = "up") /\ (Stops(row[i]) => wish[i] = "down")
    BY <1>1, CarriedFits DEF RowsIInv
  <2>3. QED
    BY <2>1, <2>2 DEF PollRows
<1>4. row' \in [Ifaces -> RowTypes] /\ wish' \in [Ifaces -> {"none", "up", "down"}]
  BY <1>1, <1>2, CarriedFits
<1>5. \A i \in Ifaces : /\ RowFits(row'[i]) /\ MarkFits(row'[i], wish'[i])
                        /\ row'[i].drawn = row[i].drawn
                        /\ row'[i].disconnect # "set"
                        /\ AwaitsAnswer(row[i]) => AwaitsAnswer(row'[i])
                        /\ row'[i].spinning # {} => HasMark(row'[i])
                                                    \/ (row[i].spinning # {} /\ ~HasMark(row[i]))
  BY <1>1, <1>2, CarriedFits
<1>6. inbound \subseteq Ifaces
  BY DEF RowsIInv, IfaceTypes
<1>7. QED
  BY <1>2, <1>3, <1>4, <1>5, <1>6, RowsRefreshed

LEMMA PollStatusStep ==
  ASSUME RowsIInv, PollStatus
  PROVE  RowsIInv'
<1>1. \A i \in Ifaces : row[i] \in RowTypes /\ RowFits(row[i]) /\ MarkFits(row[i], wish[i])
  BY DEF RowsIInv, IfaceTypes
<1>2. /\ row' = [i \in Ifaces |-> Shown(row[i], i \in states)]
      /\ UNCHANGED <<inbound, asking, question, wish, agreed, commands, replaced>>
  BY DEF PollStatus
<1>3. ASSUME NEW r \in RowTypes, RowFits(r), NEW d \in SUBSET Buttons, r.spinning # {} => d = Buttons
      PROVE  LET s == [r EXCEPT !.disabled = d] IN
             /\ s \in RowTypes /\ RowFits(s)
             /\ s.reconnect = r.reconnect /\ s.disconnect = r.disconnect
             /\ s.spinning = r.spinning /\ s.drawn = r.drawn
  BY <1>3 DEF RowTypes, RowFits
<1>4. \A i \in Ifaces : /\ row'[i] \in RowTypes /\ RowFits(row'[i])
                        /\ row'[i].reconnect = row[i].reconnect /\ row'[i].disconnect = row[i].disconnect
                        /\ row'[i].spinning = row[i].spinning /\ row'[i].drawn = row[i].drawn
  <2> SUFFICES ASSUME NEW i \in Ifaces
               PROVE  LET r == row'[i] IN
                      /\ r \in RowTypes /\ RowFits(r)
                      /\ r.reconnect = row[i].reconnect /\ r.disconnect = row[i].disconnect
                      /\ r.spinning = row[i].spinning /\ r.drawn = row[i].drawn
    OBVIOUS
  <2> DEFINE d == IF row[i].spinning # {} THEN Buttons ELSE IF i \in states THEN {} ELSE {"down"}
  <2>1. row'[i] = [row[i] EXCEPT !.disabled = d]
    BY <1>2 DEF Shown
  <2>2. d \in SUBSET Buttons /\ (row[i].spinning # {} => d = Buttons)
    BY DEF Buttons
  <2> HIDE DEF d
  <2>3. QED
    BY <1>1, <1>3, <2>1, <2>2
<1>5. row' \in [Ifaces -> RowTypes] /\ wish' \in [Ifaces -> {"none", "up", "down"}] /\ commands'
  BY <1>2, <1>4 DEF RowsIInv, IfaceTypes
<1>6. \A i \in Ifaces : /\ RowFits(row'[i]) /\ MarkFits(row'[i], wish'[i])
                        /\ row'[i].drawn = row[i].drawn
                        /\ AwaitsAnswer(row[i]) => AwaitsAnswer(row'[i])
                        /\ row'[i].spinning # {} => HasMark(row'[i])
                                                    \/ (row[i].spinning # {} /\ ~HasMark(row[i]))
  BY <1>1, <1>2, <1>4 DEF MarkFits, AwaitsAnswer, HasMark
<1>7. \A i \in inbound : row'[i].disconnect = "set" => i \in agreed'
  BY <1>2, <1>4 DEF RowsIInv, IfaceTypes
<1>8. QED
  BY <1>2, <1>5, <1>6, <1>7, RowsRefreshed

LEMMA RowsNextIInv == RowsIInv /\ [RowsNext]_rowVars => RowsIInv'
<1> SUFFICES ASSUME RowsIInv, [RowsNext]_rowVars PROVE RowsIInv'
  OBVIOUS
<1>1. CASE UNCHANGED <<row, inbound, asking, question, wish, agreed, commands, replaced>>
  BY <1>1 DEF RowsIInv, IfaceTypes, Undecided, StillDrawn
<1>2. CASE UNCHANGED rowVars \/ ReadStates
  BY <1>1, <1>2 DEF rowVars, ReadStates
<1>3. CASE RowsNext
  BY <1>2, <1>3, PressStep, AnswerStep, DisconnectStep, CancelStopStep, DrawAgainStep, PollRowsStep,
     PollStatusStep DEF RowsNext
<1>4. QED
  BY <1>2, <1>3

LEMMA RowsIInvSound == RowsIInv => RowsSound
<1> SUFFICES ASSUME RowsIInv PROVE RowsSound
  OBVIOUS
<1>1. \A i \in Ifaces : row[i] \in RowTypes /\ RowFits(row[i]) /\ MarkFits(row[i], wish[i])
  BY DEF RowsIInv, IfaceTypes
<1>2. OneCommand /\ WishIsMarked
  BY <1>1 DEF OneCommand, WishIsMarked, RowFits, MarkFits
<1>3. BusyForCause
  BY <1>1 DEF BusyForCause, RowsIInv, HasMark, Here, Undecided
<1>4. QED
  BY <1>2, <1>3 DEF RowsSound, CommandsWanted, RowsIInv

-----------------------------------------------------------------------------
(* The attended upgrade.  As long as no search is started before an earlier  *)
(* one has ended there is one request under way at a time, and the button    *)
(* tells which it can be; from the request to the restart the packages stay. *)

FactsKnown == \A f \in {"packages", "release"} : facts[f] \in {"known", "unknown"}
NothingSent == \A x \in Exchanges : exchange[x].path = "none"
RequestOf(list) == [installed |-> NoList, packages |-> list]

UpgradeTypes ==
  /\ facts \in [{"packages", "release"} -> {"asked", "known", "unknown", "silent"}]
  /\ button \in [does : {"search", "request", "flash", "reload"}, on : BOOLEAN]
  /\ dict = [installed |-> dict.installed, packages |-> dict.packages]
  /\ exchange = [x \in Exchanges |-> exchange[x]]
  /\ \A x \in Exchanges :
       /\ exchange[x] = [path |-> exchange[x].path, at |-> exchange[x].at, body |-> exchange[x].body]
       /\ exchange[x].path = "none" => exchange[x] = NoExchange
  /\ pings \in 0 .. MaxPings

\* What may be under way while the page shows a button.
ButtonFits(e) ==
  \/ e.path = "none"
  \/ button.does = "search" /\ e.path = "check" /\ e.body.packages = NoList
  \/ button.does = "request" /\ ~button.on /\ e.path = "request" /\ e.body = RequestOf(Requested)
  \/ button.does = "flash" /\ ~button.on /\ e.path \in {"download", "upload"} /\ e.body = Requested
     /\ flashed = <<>>
  \/ button.does = "flash" /\ ~button.on /\ e.path = "ping" /\ flashed # <<>>

\* What is known of the packages and the router by then.
PageFits ==
  /\ button.does = "search" => dict.packages = NoList
  /\ button.does # "reload" /\ (button.does = "flash" => button.on) => flashed = <<>>
  /\ button.does = "request" /\ ~button.on => ~editable /\ dict = RequestOf(Requested)
  /\ button.does = "flash" => ~editable /\ built = Requested
  /\ button.does = "reload" => ~editable /\ pings < MaxPings
  /\ flashed \in {<<>>, <<Requested>>}

RouterFits ==
  /\ flashed = <<>> => machine = "up" /\ ~prompt
  /\ prompt => machine \in {"down", "new"}
  /\ prompt /\ button.does = "reload" => machine = "new"

OneByOne ==
  /\ \A x, y \in Exchanges : exchange[x].path # "none" /\ exchange[y].path # "none" => x = y
  /\ \A x \in Exchanges : ButtonFits(exchange[x])
  /\ PageFits /\ RouterFits

UpgradeIInv ==
  /\ UpgradeTypes
  /\ begun => FactsKnown
  /\ ~begun => NothingSent /\ button = [does |-> "search", on |-> FALSE] /\ ~doubled
  /\ ~doubled => OneByOne

LEMMA UpgradeInitIInv == UpgradeInit => UpgradeIInv
<1> SUFFICES ASSUME UpgradeInit PROVE UpgradeIInv
  OBVIOUS
<1> USE DEF UpgradeInit
<1>1. \A x \in Exchanges : exchange[x] = NoExchange /\ exchange[x].path = "none"
  BY DEF NoExchange
<1>2. UpgradeTypes
  BY <1>1, UpgradeAssumption DEF UpgradeTypes, NoExchange
<1>3. OneByOne
  BY <1>1 DEF OneByOne, ButtonFits, PageFits, RouterFits
<1>4. QED
  BY <1>1, <1>2, <1>3 DEF UpgradeIInv, NothingSent

\* One request changes: the others are as they were.
LEMMA ExchangeChanged ==
  ASSUME UpgradeTypes, NEW x \in Exchanges, NEW p, NEW a, NEW b,
         Exchange(x, [path |-> p, at |-> a, body |-> b]),
         p = "none" => a = "none" /\ b = NoList
  PROVE  /\ exchange' = [y \in Exchanges |-> exchange'[y]]
         /\ \A y \in Exchanges :
              /\ exchange'[y] = [path |-> exchange'[y].path, at |-> exchange'[y].at, body |-> exchange'[y].body]
              /\ exchange'[y].path = "none" => exchange'[y] = NoExchange
              /\ y # x => exchange'[y] = exchange[y]
         /\ exchange'[x] = [path |-> p, at |-> a, body |-> b]
BY DEF UpgradeTypes, Exchange, NoExchange

LEMMA AnswerCallStep ==
  ASSUME UpgradeIInv, NEW f \in {"packages", "release"}, AnswerCall(f)
  PROVE  UpgradeIInv'
<1>1. ~begun /\ NothingSent /\ button.does = "search" /\ ~button.on /\ ~doubled
  BY DEF UpgradeIInv, FactsKnown, AnswerCall
<1>2. UNCHANGED <<begun, button, editable, edited, dict, exchange, built, file, flashed, machine, pings,
                  prompt, doubled>>
  BY DEF AnswerCall, firmwareVars
<1>3. facts' \in [{"packages", "release"} -> {"asked", "known", "unknown", "silent"}]
  BY DEF AnswerCall, UpgradeIInv, UpgradeTypes
<1>4. UpgradeTypes'
  BY <1>2, <1>3 DEF UpgradeIInv, UpgradeTypes
<1>5. OneByOne'
  <2>1. flashed = <<>> /\ dict.packages = NoList /\ machine = "up" /\ ~prompt
    BY <1>1 DEF UpgradeIInv, OneByOne, PageFits, RouterFits
  <2>2. PageFits' /\ RouterFits'
    BY <1>1, <1>2, <2>1 DEF PageFits, RouterFits
  <2>3. \A x \in Exchanges : exchange'[x].path = "none" /\ ButtonFits(exchange[x])'
    BY <1>1, <1>2 DEF NothingSent, ButtonFits
  <2>4. QED
    BY <2>2, <2>3 DEF OneByOne
<1>6. QED
  BY <1>1, <1>2, <1>4, <1>5 DEF UpgradeIInv, NothingSent

\* A search that is started, or not because the release is not known.
LEMMA SearchStep ==
  ASSUME UpgradeIInv, UpgradeCheck, FactsKnown, begun', facts' = facts,
         button.does = "search", button'.does = "search", button' \in [does : {"search"}, on : BOOLEAN],
         UNCHANGED <<editable, edited, packages, firmwareVars>>
  PROVE  UpgradeIInv'
<1>1. UNCHANGED <<built, file, flashed, machine, pings, prompt>>
  BY DEF firmwareVars
<1>2. CASE facts["release"] # "known"
  <2>1. UNCHANGED <<dict, exchange, doubled>>
    BY <1>2 DEF UpgradeCheck
  <2>2. UpgradeTypes'
    BY <1>1, <2>1 DEF UpgradeIInv, UpgradeTypes
  <2>3. OneByOne => OneByOne'
    BY <1>1, <2>1 DEF OneByOne, ButtonFits, PageFits, RouterFits, Requested
  <2>4. QED
    BY <2>1, <2>2, <2>3 DEF UpgradeIInv, FactsKnown
<1>3. CASE facts["release"] = "known"
  <2>1. PICK x \in Exchanges : exchange[x] = NoExchange /\ Exchange(x, Sent("check", dict'))
    BY <1>3 DEF UpgradeCheck
  <2>2. /\ dict' = [dict EXCEPT !.installed = packages]
        /\ doubled' = (doubled \/ \E y \in Exchanges : exchange[y] # NoExchange)
    BY <1>3 DEF UpgradeCheck
  <2>3. dict' = [installed |-> packages, packages |-> dict.packages]
    BY <2>2 DEF UpgradeIInv, UpgradeTypes
  <2>4. Exchange(x, [path |-> "check", at |-> "way", body |-> dict'])
    BY <2>1 DEF Sent
  <2>5. /\ exchange' = [y \in Exchanges |-> exchange'[y]]
        /\ \A y \in Exchanges :
             /\ exchange'[y] = [path |-> exchange'[y].path, at |-> exchange'[y].at, body |-> exchange'[y].body]
             /\ exchange'[y].path = "none" => exchange'[y] = NoExchange
             /\ y # x => exchange'[y] = exchange[y]
        /\ exchange'[x] = [path |-> "check", at |-> "way", body |-> dict']
    BY <2>4, ExchangeChanged DEF UpgradeIInv
  <2>6. UpgradeTypes'
    BY <1>1, <2>3, <2>5 DEF UpgradeIInv, UpgradeTypes
  <2>7. ASSUME ~doubled' PROVE OneByOne'
    <3>1. ~doubled /\ \A y \in Exchanges : exchange[y].path = "none"
      <4>1. ~doubled /\ \A y \in Exchanges : exchange[y] = NoExchange
        BY <2>2, <2>7, Zenon
      <4>2. QED
        BY <4>1 DEF NoExchange
    <3>2. \A y \in Exchanges : y # x => exchange'[y].path = "none"
      BY <2>5, <3>1
    <3>3. PageFits' /\ RouterFits'
      BY <1>1, <2>3, <3>1 DEF UpgradeIInv, OneByOne, PageFits, RouterFits, Requested
    <3>4. dict'.packages = NoList
      BY <3>3 DEF PageFits
    <3>5. \A y \in Exchanges : ButtonFits(exchange[y])'
      BY <2>5, <3>2, <3>4 DEF ButtonFits
    <3>6. QED
      BY <3>2, <3>3, <3>5 DEF OneByOne
  <2>8. QED
    BY <2>6, <2>7 DEF UpgradeIInv, FactsKnown
<1>4. QED
  BY <1>2, <1>3

LEMMA SetupSteps ==
  ASSUME UpgradeIInv, SetupReady \/ PressSearch
  PROVE  UpgradeIInv'
<1>1. CASE PressSearch
  <2>1. /\ button = [does |-> "search", on |-> TRUE] /\ UpgradeCheck
        /\ UNCHANGED <<facts, begun, button, editable, edited, packages, firmwareVars>>
    BY <1>1 DEF PressSearch, pageFacts
  <2>2. begun /\ FactsKnown
    BY <2>1 DEF UpgradeIInv
  <2>3. QED
    BY <2>1, <2>2, SearchStep
<1>2. CASE SetupReady
  <2>1. /\ ~begun /\ begun' /\ FactsKnown /\ facts' = facts
        /\ UNCHANGED <<editable, edited, packages, firmwareVars>>
    BY <1>2 DEF SetupReady, FactsKnown, CountedAsClosed, UpgradeIInv, UpgradeTypes
  <2>2. button = [does |-> "search", on |-> FALSE]
    BY <2>1 DEF UpgradeIInv
  <2>3. CASE prefs.auto
    <3>1. UpgradeCheck /\ button' = button
      BY <1>2, <2>3 DEF SetupReady
    <3>2. QED
      BY <2>1, <2>2, <3>1, SearchStep
  <2>4. CASE ~prefs.auto
    <3>1. button' = [does |-> "search", on |-> TRUE] /\ UNCHANGED <<dict, exchange, doubled>>
      BY <1>2, <2>2, <2>4 DEF SetupReady
    <3>2. UNCHANGED <<built, file, flashed, machine, pings, prompt>>
      BY <2>1 DEF firmwareVars
    <3>3. UpgradeTypes'
      BY <2>1, <3>1, <3>2 DEF UpgradeIInv, UpgradeTypes
    <3>4. OneByOne => OneByOne'
      BY <2>1, <2>2, <3>1, <3>2 DEF OneByOne, ButtonFits, PageFits, RouterFits, Requested
    <3>5. QED
      BY <2>1, <3>1, <3>3, <3>4 DEF UpgradeIInv, FactsKnown
  <2>5. QED
    BY <2>3, <2>4
<1>3. QED
  BY <1>1, <1>2

\* A step of one request, with all others idle as long as no searches overlap.
LEMMA ExchangeStep ==
  ASSUME UpgradeIInv, NEW x \in Exchanges, NEW p, NEW a, NEW b,
         Exchange(x, [path |-> p, at |-> a, body |-> b]), p = "none" => a = "none" /\ b = NoList,
         button' \in [does : {"search", "request", "flash", "reload"}, on : BOOLEAN],
         dict' = [installed |-> dict'.installed, packages |-> dict'.packages],
         facts' = facts, pings' \in 0 .. MaxPings,
         exchange[x].path # "none" \/ (~doubled => \A y \in Exchanges : exchange[y].path = "none")
  PROVE  /\ UpgradeTypes' /\ exchange'[x] = [path |-> p, at |-> a, body |-> b]
         /\ ~doubled => \A y \in Exchanges \ {x} : exchange'[y].path = "none"
<1>1. /\ exchange' = [y \in Exchanges |-> exchange'[y]]
      /\ \A y \in Exchanges :
           /\ exchange'[y] = [path |-> exchange'[y].path, at |-> exchange'[y].at, body |-> exchange'[y].body]
           /\ exchange'[y].path = "none" => exchange'[y] = NoExchange
           /\ y # x => exchange'[y] = exchange[y]
      /\ exchange'[x] = [path |-> p, at |-> a, body |-> b]
  BY ExchangeChanged DEF UpgradeIInv
<1>2. UpgradeTypes'
  BY <1>1 DEF UpgradeIInv, UpgradeTypes
<1>3. ~doubled => \A y \in Exchanges \ {x} : exchange[y].path = "none"
  BY DEF UpgradeIInv, OneByOne
<1>4. QED
  BY <1>1, <1>2, <1>3

\* What is under way once a step of one request is done.
LEMMA OneUnderWay ==
  ASSUME NEW x \in Exchanges, \A y \in Exchanges \ {x} : exchange'[y].path = "none",
         ButtonFits(exchange[x])', PageFits', RouterFits'
  PROVE  OneByOne'
<1>1. \A y \in Exchanges : ButtonFits(exchange[y])'
  <2> TAKE y \in Exchanges
  <2>1. CASE y = x
    BY <2>1 DEF ButtonFits
  <2>2. CASE y # x
    BY <2>2 DEF ButtonFits
  <2>3. QED
    BY <2>1, <2>2
<1>2. QED
  BY <1>1 DEF OneByOne

\* A request that is put off, sent again or lost.
LEMMA ServerSteps ==
  ASSUME UpgradeIInv, NEW x \in Exchanges, PutOff(x) \/ SendAgain(x) \/ Fails(x) \/ UploadImage(x)
  PROVE  UpgradeIInv'
<1>1. /\ UNCHANGED <<facts, begun, button, editable, edited, packages, dict, doubled>>
      /\ UNCHANGED <<built, flashed, machine, pings, prompt>>
      /\ exchange[x].path # "none"
  BY DEF PutOff, SendAgain, Fails, UploadImage, pageFacts, firmwareVars
<1>2. begun
  BY <1>1 DEF UpgradeIInv, NothingSent
<1>3. PICK p, a, b : /\ Exchange(x, [path |-> p, at |-> a, body |-> b])
                     /\ p = "none" => a = "none" /\ b = NoList
                     /\ ButtonFits(exchange[x]) /\ PageFits => ButtonFits([path |-> p, at |-> a, body |-> b])
  <2>1. CASE PutOff(x)
    <3>1. Exchange(x, [path |-> exchange[x].path, at |-> "timer", body |-> exchange[x].body])
      BY <2>1 DEF PutOff, UpgradeIInv, UpgradeTypes
    <3>2. QED
      BY <1>1, <3>1 DEF ButtonFits
  <2>2. CASE SendAgain(x)
    <3>1. Exchange(x, [path |-> exchange[x].path, at |-> "way", body |-> dict])
          /\ exchange[x].path \in {"check", "request"}
      BY <2>2 DEF SendAgain, Sent
    <3>2. QED
      BY <1>1, <3>1 DEF ButtonFits, PageFits
  <2>3. CASE Fails(x)
    BY <2>3 DEF Fails, NoExchange, ButtonFits
  <2>4. CASE UploadImage(x)
    <3>1. Exchange(x, [path |-> "upload", at |-> "way", body |-> exchange[x].body])
          /\ exchange[x].path = "download"
      BY <2>4 DEF UploadImage, Sent
    <3>2. QED
      BY <3>1 DEF ButtonFits
  <2>5. QED
    BY <2>1, <2>2, <2>3, <2>4
<1>4. /\ UpgradeTypes' /\ exchange'[x] = [path |-> p, at |-> a, body |-> b]
      /\ ~doubled => \A y \in Exchanges \ {x} : exchange'[y].path = "none"
  BY <1>1, <1>3, ExchangeStep DEF UpgradeIInv, UpgradeTypes
<1>5. ASSUME ~doubled PROVE OneByOne'
  <2>1. ButtonFits(exchange[x]) /\ PageFits /\ RouterFits
    BY <1>5 DEF UpgradeIInv, OneByOne
  <2>2. PageFits' /\ RouterFits'
    BY <1>1, <2>1 DEF PageFits, RouterFits, Requested
  <2>3. ButtonFits([path |-> p, at |-> a, body |-> b])
    BY <1>3, <2>1
  <2>4. ButtonFits(exchange[x])'
    BY <1>1, <1>4, <2>3 DEF ButtonFits, Requested
  <2>5. QED
    BY <1>4, <1>5, <2>2, <2>4, OneUnderWay
<1>6. QED
  BY <1>1, <1>2, <1>4, <1>5 DEF UpgradeIInv, FactsKnown

LEMMA UpgradeCheckCallbackStep ==
  ASSUME UpgradeIInv, NEW x \in Exchanges, UpgradeCheckCallback(x)
  PROVE  UpgradeIInv'
<1>1. /\ UNCHANGED <<facts, begun, edited, dict, doubled, built, flashed, machine, pings, prompt>>
      /\ exchange[x].path = "check" /\ button' = [does |-> "request", on |-> TRUE]
      /\ Exchange(x, [path |-> "none", at |-> "none", body |-> NoList])
  BY DEF UpgradeCheckCallback, pageFacts, firmwareVars, NoExchange
<1>2. begun
  BY <1>1 DEF UpgradeIInv, NothingSent
<1>3. /\ UpgradeTypes' /\ exchange'[x].path = "none"
      /\ ~doubled => \A y \in Exchanges \ {x} : exchange'[y].path = "none"
  BY <1>1, ExchangeStep DEF UpgradeIInv, UpgradeTypes
<1>4. ASSUME ~doubled PROVE OneByOne'
  <2>1. button.does = "search" /\ PageFits /\ RouterFits
    BY <1>1, <1>4 DEF UpgradeIInv, OneByOne, ButtonFits
  <2>2. flashed = <<>> /\ machine = "up" /\ ~prompt
    BY <2>1 DEF PageFits, RouterFits
  <2>3. PageFits' /\ RouterFits'
    BY <1>1, <2>2 DEF PageFits, RouterFits
  <2>4. ButtonFits(exchange[x])'
    BY <1>3 DEF ButtonFits
  <2>5. QED
    BY <1>3, <1>4, <2>3, <2>4, OneUnderWay
<1>5. QED
  BY <1>1, <1>2, <1>3, <1>4 DEF UpgradeIInv, FactsKnown

\* With the button to go on enabled nothing is under way.
LEMMA EditPackagesStep ==
  ASSUME UpgradeIInv, EditPackages
  PROVE  UpgradeIInv'
<1>1. /\ UNCHANGED <<facts, begun, button, packages, dict, exchange, doubled>>
      /\ UNCHANGED <<built, flashed, machine, pings, prompt>> /\ editable
  BY DEF EditPackages, pageFacts, firmwareVars
<1>2. UpgradeTypes'
  BY <1>1 DEF UpgradeIInv, UpgradeTypes
<1>3. ASSUME OneByOne PROVE OneByOne'
  <2>1. button.does = "search" \/ (button.does = "request" /\ button.on)
    BY <1>1, <1>3 DEF OneByOne, PageFits, UpgradeIInv, UpgradeTypes
  <2>2. PageFits' /\ RouterFits'
    BY <1>1, <1>3, <2>1 DEF OneByOne, PageFits, RouterFits
  <2>3. \A y \in Exchanges : ButtonFits(exchange[y])'
    BY <1>1, <1>3, <2>1 DEF OneByOne, ButtonFits
  <2>4. QED
    BY <1>1, <1>3, <2>2, <2>3 DEF OneByOne
<1>4. QED
  BY <1>1, <1>2, <1>3 DEF UpgradeIInv, NothingSent, FactsKnown

LEMMA UpgradeRequestStep ==
  ASSUME UpgradeIInv, UpgradeRequest
  PROVE  UpgradeIInv'
<1>1. PICK x \in Exchanges : exchange[x] = NoExchange /\ Exchange(x, Sent("request", dict'))
  BY DEF UpgradeRequest
<1>2. /\ UNCHANGED <<facts, begun, edited, packages, doubled, built, flashed, machine, pings, prompt>>
      /\ button = [does |-> "request", on |-> TRUE] /\ button' = [button EXCEPT !.on = FALSE]
      /\ ~editable' /\ dict' = RequestOf(Requested)
  BY DEF UpgradeRequest, pageFacts, firmwareVars, RequestOf
<1>3. button' = [does |-> "request", on |-> FALSE] /\ begun
  BY <1>2 DEF UpgradeIInv
<1>4. Exchange(x, [path |-> "request", at |-> "way", body |-> dict'])
  BY <1>1 DEF Sent
<1>5. ~doubled => \A y \in Exchanges : exchange[y].path = "none"
  BY <1>2 DEF UpgradeIInv, OneByOne, ButtonFits
<1>6. /\ UpgradeTypes' /\ exchange'[x] = [path |-> "request", at |-> "way", body |-> dict']
      /\ ~doubled => \A y \in Exchanges \ {x} : exchange'[y].path = "none"
  <2>1. dict' = [installed |-> dict'.installed, packages |-> dict'.packages]
    BY <1>2 DEF RequestOf
  <2>2. facts' = facts /\ pings' \in 0 .. MaxPings
    BY <1>2 DEF UpgradeIInv, UpgradeTypes
  <2>3. button' \in [does : {"search", "request", "flash", "reload"}, on : BOOLEAN]
    BY <1>3
  <2>4. "request" = "none" => "way" = "none" /\ dict' = NoList
    OBVIOUS
  <2>5. QED
    BY <1>4, <1>5, <2>1, <2>2, <2>3, <2>4, ExchangeStep
<1>7. ASSUME ~doubled PROVE OneByOne'
  <2>1. flashed = <<>> /\ machine = "up" /\ ~prompt
    BY <1>2, <1>7 DEF UpgradeIInv, OneByOne, PageFits, RouterFits
  <2>2. PageFits' /\ RouterFits'
    BY <1>2, <1>3, <2>1 DEF PageFits, RouterFits, Requested
  <2>3. ButtonFits(exchange[x])'
    BY <1>2, <1>3, <1>6 DEF ButtonFits, Requested
  <2>4. QED
    BY <1>6, <1>7, <2>2, <2>3, OneUnderWay
<1>8. QED
  BY <1>2, <1>3, <1>6, <1>7 DEF UpgradeIInv, FactsKnown


LEMMA UpgradeRequestCallbackStep ==
  ASSUME UpgradeIInv, NEW x \in Exchanges, UpgradeRequestCallback(x)
  PROVE  UpgradeIInv'
<1>1. /\ UNCHANGED <<facts, begun, editable, edited, packages, dict, doubled, flashed, machine, pings, prompt>>
      /\ exchange[x].path = "request" /\ button' = [does |-> "flash", on |-> TRUE]
      /\ built' = exchange[x].body.packages
      /\ Exchange(x, [path |-> "none", at |-> "none", body |-> NoList])
  BY DEF UpgradeRequestCallback, pageFacts, NoExchange
<1>2. begun
  BY <1>1 DEF UpgradeIInv, NothingSent
<1>3. /\ UpgradeTypes' /\ exchange'[x].path = "none"
      /\ ~doubled => \A y \in Exchanges \ {x} : exchange'[y].path = "none"
  BY <1>1, ExchangeStep DEF UpgradeIInv, UpgradeTypes
<1>4. ASSUME ~doubled PROVE OneByOne'
  <2>1. /\ button.does = "request" /\ ~button.on /\ PageFits /\ RouterFits
        /\ exchange[x].body = RequestOf(Requested)
    BY <1>1, <1>4 DEF UpgradeIInv, OneByOne, ButtonFits
  <2>2. flashed = <<>> /\ machine = "up" /\ ~prompt /\ ~editable
    BY <2>1 DEF PageFits, RouterFits
  <2>3. built' = Requested /\ Requested' = Requested
    BY <1>1, <2>1 DEF RequestOf, Requested
  <2>4. PageFits' /\ RouterFits'
    BY <1>1, <2>2, <2>3 DEF PageFits, RouterFits
  <2>5. ButtonFits(exchange[x])'
    BY <1>3 DEF ButtonFits
  <2>6. QED
    BY <1>3, <1>4, <2>4, <2>5, OneUnderWay
<1>5. QED
  BY <1>1, <1>2, <1>3, <1>4 DEF UpgradeIInv, FactsKnown

LEMMA DownloadImageStep ==
  ASSUME UpgradeIInv, DownloadImage
  PROVE  UpgradeIInv'
<1>1. PICK x \in Exchanges : exchange[x] = NoExchange /\ Exchange(x, Sent("download", built))
  BY DEF DownloadImage
<1>2. /\ UNCHANGED <<facts, begun, editable, edited, packages, dict, doubled>>
      /\ UNCHANGED <<built, flashed, machine, pings, prompt>>
      /\ button = [does |-> "flash", on |-> TRUE] /\ button' = [button EXCEPT !.on = FALSE]
  BY DEF DownloadImage, pageFacts, firmwareVars
<1>3. button' = [does |-> "flash", on |-> FALSE] /\ begun
  BY <1>2 DEF UpgradeIInv
<1>4. Exchange(x, [path |-> "download", at |-> "way", body |-> built])
  BY <1>1 DEF Sent
<1>5. ~doubled => \A y \in Exchanges : exchange[y].path = "none"
  BY <1>2 DEF UpgradeIInv, OneByOne, ButtonFits
<1>6. /\ UpgradeTypes' /\ exchange'[x] = [path |-> "download", at |-> "way", body |-> built]
      /\ ~doubled => \A y \in Exchanges \ {x} : exchange'[y].path = "none"
  <2>1. facts' = facts /\ pings' \in 0 .. MaxPings /\ dict' = [installed |-> dict'.installed, packages |-> dict'.packages]
    BY <1>2 DEF UpgradeIInv, UpgradeTypes
  <2>2. button' \in [does : {"search", "request", "flash", "reload"}, on : BOOLEAN]
    BY <1>3
  <2>3. "download" = "none" => "way" = "none" /\ built = NoList
    OBVIOUS
  <2>4. QED
    BY <1>4, <1>5, <2>1, <2>2, <2>3, ExchangeStep
<1>7. ASSUME ~doubled PROVE OneByOne'
  <2>1. /\ flashed = <<>> /\ machine = "up" /\ ~prompt
        /\ ~editable /\ built = Requested
    BY <1>2, <1>7 DEF UpgradeIInv, OneByOne, PageFits, RouterFits
  <2>2. Requested' = Requested
    BY <1>2 DEF Requested
  <2>3. PageFits' /\ RouterFits'
    BY <1>2, <1>3, <2>1, <2>2 DEF PageFits, RouterFits
  <2>4. ButtonFits(exchange[x])'
    BY <1>2, <1>3, <1>6, <2>1, <2>2 DEF ButtonFits
  <2>5. QED
    BY <1>6, <1>7, <2>3, <2>4, OneUnderWay
<1>8. QED
  BY <1>2, <1>3, <1>6, <1>7 DEF UpgradeIInv, FactsKnown

\* Only the one upload of a page without overlapping searches is flashed.
LEMMA FlashImageStep ==
  ASSUME UpgradeIInv, NEW x \in Exchanges, FlashImage(x)
  PROVE  UpgradeIInv'
<1>1. /\ UNCHANGED <<facts, begun, button, editable, edited, packages, dict, built, doubled, prompt>>
      /\ exchange[x].path = "upload" /\ flashed' = Append(flashed, exchange[x].body)
      /\ machine' = "starting" /\ pings' = MaxPings
      /\ Exchange(x, [path |-> "ping", at |-> "timer", body |-> NoList])
  BY DEF FlashImage, pageFacts
<1>2. begun
  BY <1>1 DEF UpgradeIInv, NothingSent
<1>3. /\ UpgradeTypes' /\ exchange'[x] = [path |-> "ping", at |-> "timer", body |-> NoList]
      /\ ~doubled => \A y \in Exchanges \ {x} : exchange'[y].path = "none"
  BY <1>1, UpgradeAssumption, ExchangeStep DEF UpgradeIInv, UpgradeTypes
<1>4. ASSUME ~doubled PROVE OneByOne'
  <2>1. /\ button.does = "flash" /\ ~button.on /\ exchange[x].body = Requested /\ flashed = <<>>
        /\ PageFits /\ RouterFits
    BY <1>1, <1>4 DEF UpgradeIInv, OneByOne, ButtonFits
  <2>2. ~prompt /\ ~editable /\ built = Requested
    BY <2>1 DEF PageFits, RouterFits
  <2>3. flashed' = <<Requested>> /\ Requested' = Requested /\ flashed' # <<>>
    BY <1>1, <2>1 DEF Requested
  <2>4. PageFits' /\ RouterFits'
    BY <1>1, <2>1, <2>2, <2>3 DEF PageFits, RouterFits
  <2>5. ButtonFits(exchange[x])'
    BY <1>1, <1>3, <2>1, <2>3 DEF ButtonFits
  <2>6. QED
    BY <1>3, <1>4, <2>4, <2>5, OneUnderWay
<1>5. QED
  BY <1>1, <1>2, <1>3, <1>4 DEF UpgradeIInv, FactsKnown

\* The router goes down only after firmware has reached it, and before the
\* button offers the reload if it does so before the first ping.
LEMMA RouterSteps ==
  ASSUME UpgradeIInv, GoesDown \/ Boots
  PROVE  UpgradeIInv'
<1>1. /\ UNCHANGED <<facts, begun, button, editable, edited, packages, dict, exchange, doubled>>
      /\ UNCHANGED <<built, flashed, pings>>
  BY DEF GoesDown, Boots, pageFacts
<1>2. UpgradeTypes'
  BY <1>1 DEF UpgradeIInv, UpgradeTypes
<1>3. ASSUME OneByOne PROVE OneByOne'
  <2>1. machine # "up"
    BY DEF GoesDown, Boots
  <2>2. flashed # <<>>
    BY <1>3, <2>1 DEF OneByOne, RouterFits
  <2>3. PageFits'
    BY <1>1, <1>3 DEF OneByOne, PageFits, Requested
  <2>4. RouterFits'
    <3>1. CASE GoesDown
      <4>1. machine' = "down" /\ prompt' = (pings = MaxPings)
        BY <3>1 DEF GoesDown
      <4>2. button.does = "reload" => pings < MaxPings
        BY <1>3 DEF OneByOne, PageFits
      <4>3. pings < MaxPings => pings # MaxPings
        BY UpgradeAssumption DEF UpgradeIInv, UpgradeTypes
      <4>4. QED
        BY <1>1, <2>2, <4>1, <4>2, <4>3 DEF RouterFits
    <3>2. CASE Boots
      BY <1>1, <2>2, <3>2 DEF Boots, RouterFits
    <3>3. QED
      BY <3>1, <3>2
  <2>5. \A y \in Exchanges : ButtonFits(exchange[y])'
    BY <1>1, <1>3 DEF OneByOne, ButtonFits, Requested
  <2>6. QED
    BY <1>1, <1>3, <2>3, <2>4, <2>5 DEF OneByOne
<1>4. QED
  BY <1>1, <1>2, <1>3 DEF UpgradeIInv, NothingSent, FactsKnown

LEMMA PingUbusStep ==
  ASSUME UpgradeIInv, NEW x \in Exchanges, PingUbus(x)
  PROVE  UpgradeIInv'
<1>1. /\ UNCHANGED <<facts, begun, editable, edited, packages, dict, built, flashed, machine, doubled, prompt>>
      /\ exchange[x].path = "ping" /\ pings' = IF pings > 0 THEN pings - 1 ELSE pings
  BY DEF PingUbus, pageFacts
<1>2. begun
  BY <1>1 DEF UpgradeIInv, NothingSent
<1>3. pings \in 0 .. MaxPings /\ pings' \in 0 .. MaxPings /\ pings' <= pings /\ MaxPings \in Nat
  BY <1>1, UpgradeAssumption DEF UpgradeIInv, UpgradeTypes
<1>4. ~doubled => /\ button.does = "flash" /\ ~button.on /\ flashed # <<>>
                  /\ PageFits /\ RouterFits
  BY <1>1 DEF UpgradeIInv, OneByOne, ButtonFits
<1>5. Requested' = Requested
  BY <1>1 DEF Requested
<1>6. CASE pings > 0 /\ Answers
  <2>1. /\ button' = [does |-> "reload", on |-> TRUE]
        /\ Exchange(x, [path |-> "none", at |-> "none", body |-> NoList])
    BY <1>6 DEF PingUbus, NoExchange
  <2>2. /\ UpgradeTypes' /\ exchange'[x].path = "none"
        /\ ~doubled => \A y \in Exchanges \ {x} : exchange'[y].path = "none"
    BY <1>1, <1>3, <2>1, ExchangeStep DEF UpgradeIInv, UpgradeTypes
  <2>3. ASSUME ~doubled PROVE OneByOne'
    <3>1. ~editable /\ flashed \in {<<>>, <<Requested>>}
      BY <1>4, <2>3 DEF PageFits
    <3>2. pings' < MaxPings
      BY <1>1, <1>3, <1>6
    <3>3. PageFits'
      BY <1>1, <1>3, <1>5, <2>1, <3>1, <3>2 DEF PageFits
    <3>4. prompt => machine = "new"
      BY <1>4, <1>6, <2>3 DEF RouterFits, Answers
    <3>5. RouterFits'
      BY <1>1, <1>4, <2>3, <3>4 DEF RouterFits
    <3>6. ButtonFits(exchange[x])'
      BY <2>2 DEF ButtonFits
    <3>7. QED
      BY <2>2, <2>3, <3>3, <3>5, <3>6, OneUnderWay
  <2>4. QED
    BY <1>1, <1>2, <2>2, <2>3 DEF UpgradeIInv, FactsKnown
<1>7. CASE ~(pings > 0 /\ Answers)
  <2>1. button' = button /\ (exchange' = exchange
          \/ Exchange(x, [path |-> "none", at |-> "none", body |-> NoList]))
    BY <1>7 DEF PingUbus, NoExchange
  <2>2. ASSUME ~doubled PROVE PageFits' /\ RouterFits'
    <3>1. PageFits'
      BY <1>1, <1>3, <1>4, <1>5, <2>1, <2>2 DEF PageFits
    <3>2. RouterFits'
      BY <1>1, <1>4, <2>1, <2>2 DEF RouterFits
    <3>3. QED
      BY <3>1, <3>2
  <2>3. CASE exchange' = exchange
    <3>1. UpgradeTypes'
      BY <1>1, <1>3, <2>1, <2>3 DEF UpgradeIInv, UpgradeTypes
    <3>2. ASSUME ~doubled PROVE OneByOne'
      <4>1. \A y \in Exchanges : ButtonFits(exchange[y])'
        BY <1>1, <1>5, <2>1, <2>3, <3>2 DEF UpgradeIInv, OneByOne, ButtonFits
      <4>2. QED
        BY <2>2, <2>3, <3>2, <4>1 DEF UpgradeIInv, OneByOne
    <3>3. QED
      BY <1>1, <1>2, <3>1, <3>2 DEF UpgradeIInv, FactsKnown
  <2>4. CASE Exchange(x, [path |-> "none", at |-> "none", body |-> NoList])
    <3>1. /\ UpgradeTypes' /\ exchange'[x].path = "none"
          /\ ~doubled => \A y \in Exchanges \ {x} : exchange'[y].path = "none"
      BY <1>1, <1>3, <2>1, <2>4, ExchangeStep DEF UpgradeIInv, UpgradeTypes
    <3>2. ButtonFits(exchange[x])'
      BY <3>1 DEF ButtonFits
    <3>3. ~doubled => OneByOne'
      BY <2>2, <3>1, <3>2, OneUnderWay
    <3>4. QED
      BY <1>1, <1>2, <3>1, <3>3 DEF UpgradeIInv, FactsKnown
  <2>5. QED
    BY <2>1, <2>3, <2>4
<1>8. QED
  BY <1>6, <1>7

LEMMA UpgradeNextIInv == UpgradeIInv /\ [UpgradeNext]_upgradeVars => UpgradeIInv'
<1> SUFFICES ASSUME UpgradeIInv, [UpgradeNext]_upgradeVars PROVE UpgradeIInv'
  OBVIOUS
<1>1. ASSUME NEW f \in DOMAIN facts, AnswerCall(f) PROVE UpgradeIInv'
  <2>1. f \in {"packages", "release"}
    BY <1>1 DEF UpgradeIInv, UpgradeTypes
  <2>2. QED
    BY <1>1, <2>1, AnswerCallStep
<1>2. ASSUME NEW x \in Exchanges,
             \/ PutOff(x) \/ SendAgain(x) \/ Fails(x)
             \/ UpgradeCheckCallback(x) \/ UpgradeRequestCallback(x)
             \/ UploadImage(x) \/ FlashImage(x) \/ PingUbus(x)
      PROVE UpgradeIInv'
  BY <1>2, ServerSteps, UpgradeCheckCallbackStep, UpgradeRequestCallbackStep, FlashImageStep, PingUbusStep
<1>3. CASE UNCHANGED upgradeVars
  <2>1. /\ UNCHANGED <<facts, begun, button, editable, edited, packages, dict, exchange, built>>
        /\ UNCHANGED <<flashed, machine, pings, doubled, prompt>>
    BY <1>3 DEF upgradeVars
  <2>2. UpgradeTypes' /\ (FactsKnown => FactsKnown') /\ (NothingSent => NothingSent')
    BY <2>1 DEF UpgradeIInv, UpgradeTypes, FactsKnown, NothingSent
  <2>3. OneByOne => OneByOne'
    <3>1. (PageFits => PageFits') /\ (RouterFits => RouterFits')
      BY <2>1 DEF PageFits, RouterFits, Requested
    <3>2. \A y \in Exchanges : ButtonFits(exchange[y]) => ButtonFits(exchange[y])'
      BY <2>1 DEF ButtonFits, Requested
    <3>3. QED
      BY <2>1, <3>1, <3>2 DEF OneByOne
  <2>4. QED
    BY <2>1, <2>2, <2>3 DEF UpgradeIInv
<1>4. QED
  BY <1>1, <1>2, <1>3, SetupSteps, EditPackagesStep, UpgradeRequestStep, DownloadImageStep, RouterSteps
  DEF UpgradeNext

LEMMA UpgradeIInvSound == UpgradeIInv => UpgradeSound
<1> SUFFICES ASSUME UpgradeIInv PROVE UpgradeSound
  OBVIOUS
<1>1. AskedWhenKnown
  <2>1. ASSUME NEW x \in Exchanges, exchange[x] # NoExchange PROVE begun
    BY <2>1 DEF UpgradeIInv, NothingSent, UpgradeTypes
  <2>2. DOMAIN facts = {"packages", "release"}
    BY DEF UpgradeIInv, UpgradeTypes
  <2>3. QED
    BY <2>1, <2>2 DEF UpgradeIInv, FactsKnown, AskedWhenKnown
<1>2. BuiltAsAsked
  <2> SUFFICES ASSUME ~doubled, OneByOne
               PROVE /\ \A i \in DOMAIN flashed : flashed[i] = Requested
                     /\ \A x \in Exchanges :
                          /\ exchange[x].path = "request" => exchange[x].body.installed = NoList
                          /\ exchange[x].path = "check" => exchange[x].body.packages = NoList
    BY DEF BuiltAsAsked, Requested, UpgradeIInv
  <2>1. \A i \in DOMAIN flashed : flashed[i] = Requested
    BY DEF OneByOne, PageFits
  <2>2. QED
    BY <2>1 DEF OneByOne, ButtonFits, RequestOf
<1>3. FlashedOnce
  BY DEF FlashedOnce, UpgradeIInv, OneByOne, PageFits
<1>4. ReloadWhenNew
  BY DEF ReloadWhenNew, UpgradeIInv, OneByOne, RouterFits
<1>5. QED
  BY <1>1, <1>2, <1>3, <1>4 DEF UpgradeSound


-----------------------------------------------------------------------------
(* The polls of the wireless page.  A restart still to come is marked unless *)
(* it was asked for during the poll under way; the cache of a scan has the   *)
(* stations heard, all of them stale between two answers.                    *)

ScanFields == /\ scan = [known |-> scan.known, table |-> scan.table, refreshing |-> scan.refreshing,
                         entry |-> scan.entry, asked |-> scan.asked, waiting |-> scan.waiting,
                         heard |-> scan.heard, last |-> scan.last]
              /\ scan.heard \subseteq Stations /\ scan.last \subseteq scan.heard
              /\ scan.refreshing \in BOOLEAN /\ scan.waiting \in BOOLEAN

CacheFits == scan.known = [s \in Stations |-> IF s \in scan.heard THEN "stale" ELSE "no"]

TablesIInv ==
  /\ mark \in [RadioRows -> {"none", "set", "done"}] /\ polling \in BOOLEAN
  /\ ~unasked /\ due \subseteq RadioRows
  /\ \A r \in RadioRows : mark[r] = "set" => r \in due
  /\ \A r \in due \ late : mark[r] = "set"
  /\ polling => due \subseteq late
  /\ scan # NoScan => ScanFields /\ CacheFits
  /\ ScanListed /\ ScanRepeats

\* A set as a list: everything in it once.
LEMMA SetListed ==
  ASSUME NEW S, IsFiniteSet(S)
  PROVE  /\ SetToSeq(S) \in [1..Cardinality(S) -> S]
         /\ Cardinality(S) \in Nat
         /\ \A e \in S : \E i \in 1..Cardinality(S) : SetToSeq(S)[i] = e
<1> DEFINE n == Cardinality(S)
           D == 1..n
<1>1. n \in Nat /\ Bijection(D, S) # {}
  BY FS_CardinalityType DEF ExistsBijection
<1>2. PICK g \in Bijection(D, S) : TRUE
  BY <1>1
<1>3. g \in [D -> S] /\ IsInjective(g)
  BY <1>2 DEF Bijection, Injection
<1>4. SetToSeq(S) \in [D -> S] /\ IsInjective(SetToSeq(S))
  BY <1>3 DEF SetToSeq
<1>5. IsFiniteSet(D) /\ Cardinality(D) = n
  BY <1>1, FS_Interval
<1>6. SetToSeq(S) \in Injection(D, S)
  BY <1>4 DEF Injection
<1>7. SetToSeq(S) \in Surjection(D, S)
  BY <1>5, <1>6, FS_Injection
<1>8. QED
  BY <1>1, <1>4, <1>7 DEF Surjection

\* The rows of stations, all of them stale or none.
RowsFor(stations, stale) ==
  LET seq == SetToSeq(stations) IN [i \in DOMAIN seq |-> [station |-> seq[i], stale |-> stale]]

LEMMA StationRows ==
  ASSUME NEW S, IsFiniteSet(S), NEW b
  PROVE  /\ RowsFor(S, b) \in Seq([station : S, stale : {b}])
         /\ Len(RowsFor(S, b)) = Cardinality(S)
         /\ ToSet(RowsFor(S, b)) = {[station |-> s, stale |-> b] : s \in S}
<1> DEFINE n == Cardinality(S)
           q == SetToSeq(S)
           r == RowsFor(S, b)
<1>1. /\ q \in [1..n -> S] /\ n \in Nat
      /\ \A e \in S : \E i \in 1..n : q[i] = e
  BY SetListed
<1> HIDE DEF n, q
<1>2. r = [i \in 1..n |-> [station |-> q[i], stale |-> b]]
  BY <1>1 DEF RowsFor, q
<1> HIDE DEF r
<1>3. r \in Seq([station : S, stale : {b}]) /\ Len(r) = n
  BY <1>1, <1>2
<1>4. ToSet(r) = {[station |-> s, stale |-> b] : s \in S}
  <2>1. ASSUME NEW i \in 1..n PROVE \E s \in S : r[i] = [station |-> s, stale |-> b]
    BY <1>1, <1>2
  <2>2. ASSUME NEW s \in S PROVE \E i \in 1..n : r[i] = [station |-> s, stale |-> b]
    <3>1. PICK i \in 1..n : q[i] = s
      BY <1>1
    <3>2. QED
      BY <1>2, <3>1
  <2>3. \A e : e \in ToSet(r) <=> \E i \in 1..n : r[i] = e
    BY <1>3, Membership
  <2>4. ASSUME NEW e \in ToSet(r) PROVE \E s \in S : e = [station |-> s, stale |-> b]
    BY <2>1, <2>3
  <2>5. ASSUME NEW s \in S PROVE [station |-> s, stale |-> b] \in ToSet(r)
    BY <2>2, <2>3
  <2>6. QED
    BY <2>4, <2>5
<1>5. QED
  BY <1>3, <1>4 DEF n, r

LEMMA TablesInitIInv == TableInit => TablesIInv
BY DEF TableInit, TablesIInv, ScanListed, ScanRepeats

LEMMA RadioRestartStep ==
  ASSUME TablesIInv, NEW r \in RadioRows, RadioRestart(r)
  PROVE  TablesIInv'
<1>1. /\ mark' = [mark EXCEPT ![r] = "set"] /\ due' = due \cup {r} /\ scan' = NoScan /\ scan = NoScan
      /\ late' = IF polling THEN late \cup {r} ELSE late \ {r}
      /\ UNCHANGED <<polling, unasked>>
  BY DEF RadioRestart
<1>2. ScanListed' /\ ScanRepeats'
  BY <1>1 DEF ScanListed, ScanRepeats
<1>3. QED
  BY <1>1, <1>2 DEF TablesIInv

LEMMA PollSteps ==
  ASSUME TablesIInv, StartPoll \/ EndPoll \/ PollFails
  PROVE  TablesIInv'
<1>1. scan' = scan
  BY DEF StartPoll, EndPoll, PollFails
<1>2. (scan # NoScan => ScanFields /\ CacheFits)' /\ ScanListed' /\ ScanRepeats'
  BY <1>1 DEF TablesIInv, ScanFields, CacheFits, ScanListed, ScanRepeats
<1>3. CASE StartPoll
  <2> DEFINE run == {r \in RadioRows : mark[r] = "set"}
  <2>1. /\ mark' = [r \in RadioRows |-> NextMark(mark[r])] /\ polling'
        /\ unasked' = (unasked \/ ~(run \subseteq due))
        /\ due' = due \ run /\ late' = late \ run
    BY <1>3 DEF StartPoll
  <2>2. run \subseteq due /\ ~unasked
    BY DEF TablesIInv
  <2>3. due' \subseteq late'
    BY <2>1 DEF TablesIInv
  <2>4. /\ mark' \in [RadioRows -> {"none", "set", "done"}]
        /\ \A r \in RadioRows : mark'[r] # "set"
    BY <2>1 DEF NextMark
  <2>5. ~unasked' /\ due' \subseteq RadioRows /\ polling' \in BOOLEAN
    BY <2>1, <2>2 DEF TablesIInv, StartPoll
  <2>6. QED
    BY <1>2, <2>3, <2>4, <2>5 DEF TablesIInv
<1>4. CASE EndPoll
  BY <1>2, <1>4 DEF TablesIInv, EndPoll
<1>5. CASE PollFails
  BY <1>2, <1>5 DEF TablesIInv, PollFails
<1>6. QED
  BY <1>3, <1>4, <1>5

\* Steps of the scan dialog that leave what it lists as it is.
LEMMA ScanListKept ==
  ASSUME TablesIInv, TableUnchanged, scan # NoScan,
         NEW ref \in BOOLEAN, NEW wait \in BOOLEAN, NEW ent, NEW ask, wait => ref,
         scan' = [known |-> scan.known, table |-> scan.table, refreshing |-> ref, entry |-> ent,
                  asked |-> ask, waiting |-> wait, heard |-> scan.heard, last |-> scan.last]
  PROVE  TablesIInv'
<1>1. ScanFields' /\ CacheFits'
  BY DEF TablesIInv, ScanFields, CacheFits
<1>2. ScanListed' /\ ScanRepeats'
  BY DEF TablesIInv, ScanListed, ScanRepeats
<1>3. QED
  BY <1>1, <1>2 DEF TablesIInv, TableUnchanged

LEMMA ScanControlStep ==
  ASSUME TablesIInv, AskScan \/ HandleScanStartStop \/ \E entry \in 1..2 : ScanFails(entry)
  PROVE  TablesIInv'
<1>1. scan # NoScan /\ TableUnchanged /\ ScanFields /\ ScanRepeats
  BY DEF TablesIInv, AskScan, HandleScanStartStop, ScanFails
<1>2. CASE AskScan
  <2>1. scan' = [known |-> scan.known, table |-> scan.table, refreshing |-> scan.refreshing,
                 entry |-> scan.entry, asked |-> scan.asked \cup {scan.entry}, waiting |-> scan.waiting,
                 heard |-> scan.heard, last |-> scan.last]
    BY <1>1, <1>2 DEF AskScan, ScanFields
  <2>2. scan.refreshing \in BOOLEAN /\ scan.waiting \in BOOLEAN /\ (scan.waiting => scan.refreshing)
    BY <1>1 DEF ScanFields, ScanRepeats
  <2>3. QED
    BY <1>1, <2>1, <2>2, ScanListKept
<1>3. CASE HandleScanStartStop
  <2>1. CASE scan.refreshing
    <3>1. scan' = [known |-> scan.known, table |-> scan.table, refreshing |-> FALSE,
                   entry |-> scan.entry, asked |-> scan.asked, waiting |-> FALSE,
                   heard |-> scan.heard, last |-> scan.last]
      BY <1>1, <1>3, <2>1 DEF HandleScanStartStop, ScanFields
    <3>2. QED
      BY <1>1, <3>1, ScanListKept
  <2>2. CASE ~scan.refreshing
    <3>1. scan' = [known |-> scan.known, table |-> scan.table, refreshing |-> TRUE,
                   entry |-> 3 - scan.entry, asked |-> scan.asked, waiting |-> TRUE,
                   heard |-> scan.heard, last |-> scan.last]
      BY <1>1, <1>3, <2>2 DEF HandleScanStartStop, ScanFields
    <3>2. QED
      BY <1>1, <3>1, ScanListKept
  <2>3. QED
    BY <2>1, <2>2
<1>4. CASE \E entry \in 1..2 : ScanFails(entry)
  <2>1. PICK entry \in 1..2 : scan' = [scan EXCEPT !.asked = @ \ {entry}]
    BY <1>4 DEF ScanFails
  <2>2. scan' = [known |-> scan.known, table |-> scan.table, refreshing |-> scan.refreshing,
                 entry |-> scan.entry, asked |-> scan.asked \ {entry}, waiting |-> scan.waiting,
                 heard |-> scan.heard, last |-> scan.last]
    BY <1>1, <2>1 DEF ScanFields
  <2>3. scan.refreshing \in BOOLEAN /\ scan.waiting \in BOOLEAN /\ (scan.waiting => scan.refreshing)
    BY <1>1 DEF ScanFields, ScanRepeats
  <2>4. QED
    BY <1>1, <2>2, <2>3, ScanListKept
<1>5. QED
  BY <1>2, <1>3, <1>4

\* The dialog opens and closes.
LEMMA ScanDialogStep ==
  ASSUME TablesIInv, HandleScan \/ HandleScanAbort
  PROVE  TablesIInv'
<1>1. TableUnchanged
  BY DEF HandleScan, HandleScanAbort
<1>2. CASE HandleScan
  <2>1. scan' = [known |-> [s \in Stations |-> "no"], table |-> <<>>, refreshing |-> TRUE, entry |-> 1,
                 asked |-> {}, waiting |-> TRUE, heard |-> {}, last |-> {}]
    BY <1>2 DEF HandleScan
  <2>2. ScanFields' /\ CacheFits'
    BY <2>1 DEF ScanFields, CacheFits
  <2>3. scan'.table = <<>> /\ scan'.heard = {} /\ scan'.refreshing
    BY <2>1
  <2>4. Range(<<>>) = {} /\ Len(<<>>) = Cardinality({})
    BY FS_EmptySet DEF Range
  <2>5. ScanListed' /\ ScanRepeats'
    BY <2>3, <2>4 DEF ScanListed, ScanRepeats
  <2>6. QED
    BY <1>1, <2>2, <2>5 DEF TablesIInv, TableUnchanged
<1>3. CASE HandleScanAbort
  BY <1>1, <1>3 DEF HandleScanAbort, TablesIInv, TableUnchanged, ScanListed, ScanRepeats
<1>4. QED
  BY <1>2, <1>3

\* An answer: whatever was heard before and is not in it is listed as stale.
LEMMA HandleScanRefreshStep ==
  ASSUME TablesIInv, NEW entry \in 1..2, HandleScanRefresh(entry)
  PROVE  TablesIInv'
<1>1. PICK results \in SUBSET Stations :
      LET known == Remembered(scan.known, results)
          older == {s \in Stations : known[s] = "stale"}
      IN  scan' = [scan EXCEPT !.known = [s \in Stations |-> IF known[s] = "no" THEN "no" ELSE "stale"],
                               !.table = RowsFor(results, FALSE) \o RowsFor(older, TRUE),
                               !.asked = @ \ {entry}, !.waiting = FALSE,
                               !.heard = @ \cup results, !.last = results]
  BY DEF HandleScanRefresh, RowsFor
<1> DEFINE known == Remembered(scan.known, results)
           older == {s \in Stations : known[s] = "stale"}
           fresh == RowsFor(results, FALSE)
           stale == RowsFor(older, TRUE)
<1>2. scan # NoScan /\ TableUnchanged /\ ScanFields /\ CacheFits
  BY DEF HandleScanRefresh, TablesIInv
<1>3. known = [s \in Stations |-> IF s \in results THEN "fresh"
                                   ELSE IF s \in scan.heard THEN "stale" ELSE "no"]
  BY <1>2 DEF Remembered, CacheFits
<1>4. older = scan.heard \ results /\ scan.heard \subseteq Stations
  BY <1>2, <1>3 DEF ScanFields
<1> HIDE DEF known
<1> DEFINE cached == [s \in Stations |-> IF known[s] = "no" THEN "no" ELSE "stale"]
           list == fresh \o stale
           all == scan.heard \cup results
<1>5. scan' = [scan EXCEPT !.known = cached, !.table = list, !.asked = @ \ {entry}, !.waiting = FALSE,
                           !.heard = all, !.last = results]
  BY <1>1 DEF known
<1>6. cached = [s \in Stations |-> IF s \in all THEN "stale" ELSE "no"]
  BY <1>3
<1> HIDE DEF older, fresh, stale, cached, list
<1>7. scan' = [known |-> cached, table |-> list, refreshing |-> scan.refreshing, entry |-> scan.entry,
               asked |-> scan.asked \ {entry}, waiting |-> FALSE, heard |-> all, last |-> results]
  <2> HIDE DEF all
  <2>1. QED
    BY <1>2, <1>5 DEF ScanFields
<1>8. /\ scan'.table = list /\ scan'.heard = all /\ scan'.known = cached
      /\ scan'.last = results /\ scan'.waiting = FALSE /\ scan'.refreshing = scan.refreshing
  <2> HIDE DEF all
  <2>1. scan'.table = list /\ scan'.heard = all
    BY <1>7
  <2>2. scan'.last = results /\ scan'.refreshing = scan.refreshing
    BY <1>7
  <2>3. scan'.waiting = FALSE
    BY <1>7
  <2>4. scan'.known = cached
    BY <1>7
  <2>5. QED
    BY <2>1, <2>2, <2>3, <2>4
<1>9. ScanFields' /\ CacheFits'
  <2>1. CacheFits'
    BY <1>8, <1>6 DEF CacheFits
  <2>2. ScanFields'
    BY <1>2, <1>4, <1>7, <1>8 DEF ScanFields
  <2>3. QED
    BY <2>1, <2>2
<1>10. IsFiniteSet(results) /\ IsFiniteSet(older) /\ IsFiniteSet(scan.heard \cup results)
  BY <1>4, TableAssumption, FS_Subset
<1> DEFINE Rows == [station : Stations, stale : BOOLEAN]
<1>11. /\ fresh \in Seq(Rows) /\ stale \in Seq(Rows)
      /\ Len(fresh) = Cardinality(results) /\ Len(stale) = Cardinality(older)
      /\ ToSet(fresh) = {[station |-> s, stale |-> FALSE] : s \in results}
      /\ ToSet(stale) = {[station |-> s, stale |-> TRUE] : s \in older}
  <2>1. /\ fresh \in Seq([station : results, stale : {FALSE}])
        /\ stale \in Seq([station : older, stale : {TRUE}])
    BY <1>10, StationRows DEF fresh, stale
  <2>2. /\ [station : results, stale : {FALSE}] \subseteq Rows
        /\ [station : older, stale : {TRUE}] \subseteq Rows
    BY <1>4
  <2>3. fresh \in Seq(Rows) /\ stale \in Seq(Rows)
    <3> HIDE DEF Rows
    <3>1. \A A, B : A \subseteq B => Seq(A) \subseteq Seq(B)
      OBVIOUS
    <3>2. QED
      BY <2>1, <2>2, <3>1
  <2>4. QED
    BY <1>10, <2>3, StationRows DEF fresh, stale
<1>12. /\ fresh \o stale \in Seq(Rows) /\ Len(fresh \o stale) = Len(fresh) + Len(stale)
      /\ ToSet(fresh \o stale) = ToSet(fresh) \cup ToSet(stale)
  <2> HIDE DEF Rows
  <2>1. fresh \in Seq(Rows) /\ stale \in Seq(Rows)
    BY <1>11
  <2>2. QED
    BY <2>1, Joined, ConcatProperties
<1>13. Cardinality(scan.heard \cup results) = Cardinality(results) + Cardinality(older)
  <2>1. scan.heard \cup results = results \cup older /\ results \cap older = {}
    BY <1>4
  <2>2. /\ Cardinality(results \cup older) = Cardinality(results) + Cardinality(older) - Cardinality({})
        /\ Cardinality({}) = 0 /\ Cardinality(results) \in Nat /\ Cardinality(older) \in Nat
    BY <1>10, <2>1, FS_Union, FS_EmptySet, FS_CardinalityType
  <2> HIDE DEF older
  <2>3. Cardinality(results) + Cardinality(older) - 0 = Cardinality(results) + Cardinality(older)
    BY <2>2
  <2>4. QED
    BY <2>1, <2>2, <2>3
<1>14. ToSet(fresh \o stale) = {[station |-> s, stale |-> s \notin results] : s \in scan.heard \cup results}
  <2>1. \A s \in results : [station |-> s, stale |-> s \notin results] = [station |-> s, stale |-> FALSE]
    OBVIOUS
  <2>2. \A s \in older : [station |-> s, stale |-> s \notin results] = [station |-> s, stale |-> TRUE]
    BY <1>4
  <2>3. scan.heard \cup results = results \cup older
    BY <1>4
  <2>4. QED
    BY <1>11, <1>12, <2>1, <2>2, <2>3
<1>15. Range(fresh \o stale) = ToSet(fresh \o stale)
  BY <1>12 DEF Range, ToSet
<1>16. ScanListed'
  BY <1>8, <1>11, <1>12, <1>13, <1>14, <1>15 DEF ScanListed, list
<1>17. ScanRepeats'
  BY <1>8 DEF ScanRepeats
<1>18. QED
  BY <1>2, <1>9, <1>16, <1>17 DEF TablesIInv, TableUnchanged

LEMMA TablesNextIInv == TablesIInv /\ [TableNext]_tableVars => TablesIInv'
<1> SUFFICES ASSUME TablesIInv, [TableNext]_tableVars PROVE TablesIInv'
  OBVIOUS
<1>1. CASE UNCHANGED tableVars
  BY <1>1 DEF tableVars, TablesIInv, ScanFields, CacheFits, ScanListed, ScanRepeats
<1>2. QED
  BY <1>1, RadioRestartStep, PollSteps, ScanControlStep, ScanDialogStep, HandleScanRefreshStep DEF TableNext

LEMMA TablesIInvSound == TablesIInv => TablesSound
BY DEF TablesIInv, TablesSound, RestartKept

-----------------------------------------------------------------------------
(* What the forms promise, whichever of them a behaviour is of.              *)

FormsIInv ==
  /\ form = "refs" => RefIInv
  /\ form = "save" => FormIInv
  /\ form = "tabs" => TabIInv /\ MenuIInv
  /\ form = "switch" => SwitchIInv
  /\ form = "wifi" => FreqIInv
  /\ form = "legacy" => LegacyIInv
  /\ form = "picker" => BrowserIInv
  /\ form = "flash" => FlashIInv
  /\ form = "upgrade" => UpgradeIInv
  /\ form = "interfaces" => RowsIInv
  /\ form = "radios" => TablesIInv

LEMMA FormsInitIInv == FormsInit => FormsIInv
<1> SUFFICES ASSUME FormsInit PROVE FormsIInv
  OBVIOUS
<1>1. /\ form = "refs" => RefIInv
      /\ form = "save" => FormIInv
      /\ form = "switch" => SwitchIInv
      /\ form = "wifi" => FreqIInv
      /\ form = "legacy" => LegacyIInv
  BY RefInitIInv, FormInitIInv, SwitchInitIInv, FreqInitIInv, LegacyInitIInv DEF FormsInit
<1>2. PartsInit /\ PollInit
  BY DEF FormsInit
<1>3. /\ form = "tabs" => TabIInv /\ MenuIInv
      /\ form = "picker" => BrowserIInv
      /\ form = "flash" => FlashIInv
  BY <1>2, TabInitIInv, MenuInitIInv, BrowserInitIInv, FlashInitIInv DEF PartsInit
<1>4. /\ form = "upgrade" => UpgradeIInv
      /\ form = "interfaces" => RowsIInv
      /\ form = "radios" => TablesIInv
  BY <1>2, UpgradeInitIInv, RowsInitIInv, TablesInitIInv DEF PollInit
<1>5. QED
  BY <1>1, <1>3, <1>4 DEF FormsIInv

LEMMA FormsNextIInv == FormsIInv /\ [FormsNext]_formsVars => FormsIInv'
BY StepOfForm, RefNextIInv, FormNextIInv, TabNextIInv, SwitchNextIInv, FreqNextIInv, LegacyNextIInv,
   MenuNextIInv, BrowserNextIInv, FlashNextIInv, UpgradeNextIInv, RowsNextIInv, TablesNextIInv DEF FormsIInv

\* References between interfaces, zones, wireless networks and rules resolve
\* between any two operations of the pages, and a network just joined is in the
\* zone asked for, for any number of each and of callbacks that take turns.
THEOREM ReferencesResolve == FormsSpec => []RefsHold
<1>1. FormsIInv => RefsHold
  BY RefIInvSound DEF FormsIInv, RefsHold
<1>2. QED
  BY <1>1, FormsInitIInv, FormsNextIInv, PTL DEF FormsSpec

\* What the widgets of a page and its dialog are compared with when they are
\* saved is what the page's cache of the configuration has.
THEOREM CopiesAreFresh == FormsSpec => []CopiesHold
<1>1. FormsIInv => CopiesHold
  BY FormIInvSound DEF FormsIInv, CopiesHold
<1>2. QED
  BY <1>1, FormsInitIInv, FormsNextIInv, PTL DEF FormsSpec

\* A save that goes well brings to the device what the form shows, also when it
\* is the dialog's and the page's own was refused before; dismissing the dialog
\* leaves the configuration as it was when it was opened.
THEOREM SavedAsShown == FormsSpec => SavedOrRestored
<1> DEFINE SavesShown == ~FormIdle /\ FormIdle' /\ ~failed' /\ (failed => saving.map = "dialog")
                           => device' = saving.demanded
           Restores == dialog # dialog' /\ Dismiss => cache' = before
<1>1. FormsIInv /\ [FormsNext]_formsVars => [SavesShown]_formVars /\ [Restores]_formVars
  <2> SUFFICES ASSUME FormsIInv, [FormsNext]_formsVars, ~UNCHANGED formVars
               PROVE  SavesShown /\ Restores
    OBVIOUS
  <2>1. FormIInv /\ [FormNext]_formVars
    BY StepOfForm DEF FormsIInv
  <2>2. QED
    BY <2>1, SavesAsShown, DismissesAsBefore
<1>2. FormsSpec => [][SavesShown]_formVars /\ [][Restores]_formVars
  BY <1>1, FormsInitIInv, FormsNextIInv, PTL DEF FormsSpec
<1>3. QED
  BY <1>2 DEF SavedOrRestored, SaveAsShown, DismissRestores

\* A page that is rendered again opens the tab that was seen last, if it has
\* something in it, for any panes and any that are empty meanwhile.
THEOREM TabsRestored == FormsSpec => TabRestored
<1> DEFINE Restored == (panes = <<>> \/ option' # option) /\ panes' # <<>>
                         /\ panes' = chosen.layout /\ option'[chosen.name].on
                       => opened' = {chosen.name}
<1>1. FormsIInv /\ [FormsNext]_formsVars => [Restored]_tabVars
  <2> SUFFICES ASSUME FormsIInv, [FormsNext]_formsVars, ~UNCHANGED tabVars
               PROVE  Restored
    OBVIOUS
  <2>1. TabIInv /\ [TabsNext]_tabVars
    BY StepOfForm DEF FormsIInv
  <2>2. QED
    BY <2>1, TabStepRestores
<1>2. FormsSpec => [][Restored]_tabVars
  BY <1>1, FormsInitIInv, FormsNextIInv, PTL DEF FormsSpec
<1>3. QED
  BY <1>2 DEF TabRestored

\* The VLANs of a router's switch never conflict, and what is stored of a
\* radio's frequency, or was selected by the user, is what the selects show.
THEOREM DevicesConfigured == FormsSpec => []DevicesHold
<1>1. FormsIInv => DevicesHold
  BY FreqIInvSound DEF FormsIInv, DevicesHold, SwitchIInv
<1>2. QED
  BY <1>1, FormsInitIInv, FormsNextIInv, PTL DEF FormsSpec

\* A form of the legacy framework that reports no changes changed nothing, and
\* one that is not refused leaves every option as it was sent, whatever sections
\* and options it has and however often it is parsed, if nobody else changes them.
THEOREM StateIsTrue == FormsSpec => []StateHolds
<1>1. FormsIInv => StateHolds
  BY LegacyIInvSound DEF FormsIInv, StateHolds
<1>2. QED
  BY <1>1, FormsInitIInv, FormsNextIInv, PTL DEF FormsSpec

\* The picker of files shows what it holds and lists what is there, tabs show one
\* pane and what is refused in it, and firmware is flashed that was checked and as
\* the user agreed, in any order of answers, other changes and presses.
THEOREM PartsKeepPromises == FormsSpec => []PartsSound
<1>1. FormsIInv => PartsSound
  BY MenuSound DEF FormsIInv, PartsSound, BrowserIInv, FlashIInv
<1>2. QED
  BY <1>1, FormsInitIInv, FormsNextIInv, PTL DEF FormsSpec

\* The pages that ask again and again do what they were asked for: the upgrade
\* flashes what was built as requested and once, no interface is stopped without
\* the user's consent, no radio restarts unasked, and the scan lists who was heard,
\* for any number of requests, interfaces, radios and stations.
THEOREM PagesAreTrue == FormsSpec => []PagesKeepUp
<1>1. FormsIInv => PagesKeepUp
  BY UpgradeIInvSound, RowsIInvSound, TablesIInvSound DEF FormsIInv, PagesKeepUp
<1>2. QED
  BY <1>1, FormsInitIInv, FormsNextIInv, PTL DEF FormsSpec

=============================================================================
