----------------------------- MODULE SwitchVlan -----------------------------
(***************************************************************************)
(* The table of a switch's VLANs (view/network/switch.js), a form over the *)
(* sections "switch_vlan": for each VLAN its ID and how each port belongs  *)
(* to it.  When the ID of a VLAN or the tagging of the CPU port changes,   *)
(* so does the name of the network device that carries it: saving renames  *)
(* that device in the interfaces of the configuration.                     *)
(***************************************************************************)
EXTENDS Naturals, SequencesExt

CONSTANTS Vlans,       \* sections that exist or may be added
          Ids,         \* IDs of a VLAN that the switch takes
          Cpu,         \* the port of the router itself
          SwitchPorts, \* all ports
          Interfaces,  \* sections "interface"
          NoId,        \* a VLAN without ID
          Bare,        \* the CPU port's device, without a VLAN in its name
          NoVlan,      \* no section
          MaxInputs    \* bound: inputs by the user

ASSUME SwitchAssumption == Ids \subseteq Nat /\ Cpu \in SwitchPorts /\ MaxInputs \in Nat

VARIABLES
  vlans,     \* the sections in the page's UCI cache
  carrier,   \* there too: the device of each interface, the ID in its name
  table,     \* the inputs, for the VLANs on the page
  inDevice,  \* the sections that were sent to the router
  inputs     \* inputs so far

vlanVars == <<vlans, carrier, table, inDevice, inputs>>

Tags == {"off", "u", "t"}
Vlan == [id : Ids \cup {NoId}, ports : [SwitchPorts -> Tags]]
ASSUME NoVlanAssumption == NoVlan \notin Vlan
NewVlan == [id |-> NoId, ports |-> [p \in SwitchPorts |-> "off"]]

Listed(config) == {s \in Vlans : config[s] # NoVlan}

IdsUnique(config) ==
  \A s, t \in Listed(config) : config[s].id = config[t].id => s = t \/ config[s].id = NoId

UntaggedUnique(config) ==
  \A p \in SwitchPorts, s, t \in Listed(config) :
    config[s].ports[p] = "u" /\ config[t].ports[p] = "u" => s = t

\* The device that carries a VLAN.
DeviceOf(vlan) == IF vlan.ports[Cpu] = "u" THEN Bare ELSE vlan.id

SwitchInit ==
  /\ vlans \in [Vlans -> {v \in Vlan : v.id # NoId /\ v.ports[Cpu] # "off"} \cup {NoVlan}]
  /\ IdsUnique(vlans) /\ UntaggedUnique(vlans)
  /\ carrier \in [Interfaces -> {DeviceOf(vlans[s]) : s \in Listed(vlans)} \cup {Bare}]
  /\ table = vlans
  /\ inDevice = vlans
  /\ inputs = 0

-----------------------------------------------------------------------------
(* Validation and parse() of the form *)

\* Both are looked at again for the whole table before it is parsed.  A VLAN
\* that is not on the page has no inputs to compare with.
IdNumeric(s) == table[s].id \in Ids \* mutant
IdValid(s) ==
  /\ table[s].id \in Ids
  /\ \A t \in Listed(table) \ {s} : vlans[t] # NoVlan => table[t].id # table[s].id

NotShared(s, p) == TRUE \* mutant
PortValid(s, p) ==
  table[s].ports[p] = "u" =>
    \A t \in Listed(table) \ {s} : vlans[t] # NoVlan => table[t].ports[p] # "u"

Accepted(config) ==
  \A s \in Listed(config) \cap Listed(table) : IdValid(s) /\ \A p \in SwitchPorts : PortValid(s, p)

\* The ports are written with the ID, whether they are valid or not.  What has
\* no input is removed.
AfterTable(config) ==
  [s \in Vlans |->
     IF config[s] = NoVlan THEN NoVlan
     ELSE IF table[s] = NoVlan THEN [config[s] EXCEPT !.id = NoId]
     ELSE IF IdValid(s) THEN table[s] ELSE config[s]]

\* update_interfaces(), when a VLAN is written.
TagChanged(old, new) == old.ports[Cpu] # new.ports[Cpu] \* mutant
Moved(old, new) == old.ports[Cpu] # new.ports[Cpu] \/ old.id # new.id

Renamed(carriers, old, new) ==
  IF ~Moved(old, new) THEN carriers
  ELSE [i \in Interfaces |-> IF carriers[i] = DeviceOf(old) THEN DeviceOf(new) ELSE carriers[i]]

\* The VLANs are parsed in the order of the IDs they had.
Place(vlan) == IF vlan.id = NoId THEN 9999 ELSE vlan.id
InOrder(config) ==
  SetToSortSeq(Listed(config) \cap Listed(table), LAMBDA s, t : Place(config[s]) < Place(config[t]))

Migrated(config) ==
  FoldLeft(LAMBDA carriers, s : IF IdValid(s) THEN Renamed(carriers, config[s], table[s]) ELSE carriers,
           carrier, InOrder(config))

\* Once saved, the page is rendered again.
SaveTable(config) ==
  /\ vlans' = AfterTable(config)
  /\ carrier' = Migrated(config)
  /\ IF Accepted(config)
     THEN inDevice' = vlans' /\ table' = vlans'
     ELSE UNCHANGED <<inDevice, table>>
  /\ UNCHANGED inputs

-----------------------------------------------------------------------------
(* The user *)

TypeVlan(s, vlan) ==
  /\ inputs < MaxInputs
  /\ table[s] # NoVlan /\ vlans[s] # NoVlan
  /\ table' = [table EXCEPT ![s] = vlan]
  /\ inputs' = inputs + 1
  /\ UNCHANGED <<vlans, carrier, inDevice>>

SaveSwitch == SaveTable(vlans)

ResetTable ==
  /\ table' = vlans
  /\ UNCHANGED <<vlans, carrier, inDevice, inputs>>

\* handleAdd() sets the ID after the highest there is; the save it ends with
\* removes it, as the VLAN is not on the page yet.
AddVlan(s) ==
  /\ vlans[s] = NoVlan /\ table[s] = NoVlan
  /\ SaveTable([vlans EXCEPT ![s] = NewVlan])

RemoveVlan(s) ==
  /\ vlans[s] # NoVlan /\ table[s] # NoVlan
  /\ SaveTable([vlans EXCEPT ![s] = NoVlan])

SwitchNext ==
  \/ \E s \in Vlans :
       \/ AddVlan(s) \/ RemoveVlan(s)
       \/ \E id \in Ids : TypeVlan(s, [table[s] EXCEPT !.id = id])
       \/ \E p \in SwitchPorts, tag \in Tags : TypeVlan(s, [table[s] EXCEPT !.ports[p] = tag])
  \/ SaveSwitch \/ ResetTable

SwitchSpec == SwitchInit /\ [][SwitchNext]_vlanVars

-----------------------------------------------------------------------------
(* Properties *)

\* No two VLANs of the router have the same ID, though a save that is refused
\* leaves part of the table in the cache and the next one sends it, and though
\* VLANs come without ID.
VlanIdsUnique == IdsUnique(inDevice)

\* No port of the router is untagged in two VLANs: ports are written to the
\* cache before it is known that they conflict.
UntaggedOnce == UntaggedUnique(inDevice)

\* After a save each interface is on the VLAN it was on, unless two VLANs have,
\* or one takes, the device of another: where VLANs exchange their IDs, or a
\* refused save left two of them untagged, interfaces end on the wrong one.
Overlap ==
  \E s, t \in Listed(vlans) \cap Listed(vlans') :
    s # t /\ DeviceOf(vlans[t]) \in {DeviceOf(vlans[s]), DeviceOf(vlans'[s])}

InterfacesFollow ==
  [][ vlanVars # vlanVars' /\ ~Overlap =>
        \A i \in Interfaces, s \in Listed(vlans) \cap Listed(vlans') :
          carrier[i] = DeviceOf(vlans[s]) => carrier'[i] = DeviceOf(vlans'[s]) ]_vlanVars
=============================================================================
