---------------------------- MODULE NetworkRefs ----------------------------
(***************************************************************************)
(* References between sections of the network, wireless and firewall       *)
(* configuration: wireless networks, routes and aliases name an interface, *)
(* zones list interfaces, forwardings and rules name zones.  UCI does not  *)
(* look after them; network.js, firewall.js and the handlers of the pages  *)
(* do, each for the references it knows of.                                *)
(*                                                                         *)
(* An operation changes the page's UCI cache and then saves it.  Some of   *)
(* them are chains of promises that are all settled already: their         *)
(* callbacks run one after the other in the order of a queue, with those   *)
(* of the other chains of the same save in between and nothing else.       *)
(* The user waits for a save to end before the next operation.             *)
(***************************************************************************)
EXTENDS FiniteSetsExt, Sequences, Naturals

CONSTANTS Networks,  \* names of interfaces
          Wifis,     \* sections of type wifi-iface
          Attached,  \* sections with an option "interface": alias, route, route6, ifstate
          ZoneIds,   \* sections of type zone, numbered in their order
          ZoneNames,
          Absent,    \* no such section; an option that is not set
          MaxRules   \* bound: rules and redirects

ASSUME ZonesAssumption == ZoneIds \subseteq Nat

VARIABLES
  interfaces, \* network: the sections of type interface
  wifi,       \* their option "network"
  attached,   \* their option "interface"
  zoneName,   \* firewall: the zones and their names
  covers,     \* their option "network"
  policies,   \* forwardings, and rules and redirects
  chains,     \* callbacks waiting to run
  asked       \* history: what the last join was to achieve

refVars == <<interfaces, wifi, attached, zoneName, covers, policies, chains, asked>>

Nothing == [kind |-> "none"]
Wish(n, name) == [kind |-> "join", net |-> n, zone |-> name]

RefInit == /\ interfaces \in SUBSET Networks
           /\ wifi = [w \in Wifis |-> Absent]
           /\ attached = [r \in Attached |-> Absent]
           /\ zoneName = [z \in ZoneIds |-> Absent]
           /\ covers = [z \in ZoneIds |-> {}]
           /\ policies = {}
           /\ chains = <<>>
           /\ asked = Nothing

ZonesIn == {z \in ZoneIds : zoneName[z] # Absent}
Called(name) == {z \in ZonesIn : zoneName[z] = name}
Named == {zoneName[z] : z \in ZonesIn}

\* A new section comes after all others.
NextZone == {z \in ZoneIds : \A y \in ZonesIn : y < z}

\* A rule may have no source, one for packets of the device itself.
Forwarding(src, dest) == [kind |-> "forwarding", src |-> src, dest |-> dest]
Rule(src, dest) == [kind |-> "rule", src |-> src, dest |-> dest]

RefIdle == chains = <<>>

-----------------------------------------------------------------------------
(* Interfaces *)

AddInterface(n) ==
  /\ RefIdle /\ n \notin interfaces
  /\ interfaces' = interfaces \cup {n}
  /\ asked' = Nothing
  /\ UNCHANGED <<wifi, attached, zoneName, covers, policies, chains>>

ForgottenByRoutes(n) == attached \* mutant
EmptiedRoutes(n) == [r \in Attached |-> IF attached[r] = n THEN "" ELSE attached[r]] \* mutant
Unattached(n) == [r \in Attached |-> IF attached[r] = n THEN Absent ELSE attached[r]]

WithoutNetwork(nets, n) == IF nets = Absent THEN Absent ELSE nets \ {n}

RemoveInterface(n) ==
  /\ RefIdle /\ n \in interfaces
  /\ interfaces' = interfaces \ {n}
  /\ attached' = Unattached(n)
  /\ wifi' = [w \in Wifis |-> WithoutNetwork(wifi[w], n)]
  /\ covers' = [z \in ZoneIds |-> covers[z] \ {n}]
  /\ asked' = Nothing
  /\ UNCHANGED <<zoneName, policies, chains>>

\* The zone field of an interface: it leaves the first zone that lists it.
InterfaceZone(n, name) ==
  LET old == {z \in ZonesIn : n \in covers[z]}
      left == IF old = {} THEN covers ELSE [covers EXCEPT ![Min(old)] = @ \ {n}]
  IN
  /\ RefIdle /\ n \in interfaces
  /\ old # {} => zoneName[Min(old)] # name
  /\ asked' = Nothing
  /\ \/ /\ name = Absent
        /\ covers' = left
        /\ UNCHANGED zoneName
     \/ /\ Called(name) # {}
        /\ covers' = [left EXCEPT ![Min(Called(name))] = @ \cup {n}]
        /\ UNCHANGED zoneName
     \/ /\ name # Absent /\ Called(name) = {} /\ NextZone # {}
        /\ covers' = [left EXCEPT ![Min(NextZone)] = {n}]
        /\ zoneName' = [zoneName EXCEPT ![Min(NextZone)] = name]
  /\ UNCHANGED <<interfaces, wifi, attached, policies, chains>>

\* Routes, aliases and the like choose among the interfaces there are.
Attach(r, n) ==
  /\ RefIdle /\ n \in interfaces \cup {Absent}
  /\ attached' = [attached EXCEPT ![r] = n]
  /\ asked' = Nothing
  /\ UNCHANGED <<interfaces, wifi, zoneName, covers, policies, chains>>

-----------------------------------------------------------------------------
(* Wireless networks *)

\* A name typed in is a new interface: addNetwork(), then addDevice() and
\* deleteDevice() change the list kept with the wireless network.
WifiNetworks(w, nets) ==
  /\ RefIdle
  /\ wifi' = [wifi EXCEPT ![w] = nets]
  /\ interfaces' = interfaces \cup nets
  /\ asked' = Nothing
  /\ UNCHANGED <<attached, zoneName, covers, policies, chains>>

RemoveWifi(w) ==
  /\ RefIdle /\ wifi[w] # Absent
  /\ wifi' = [wifi EXCEPT ![w] = Absent]
  /\ asked' = Nothing
  /\ UNCHANGED <<interfaces, attached, zoneName, covers, policies, chains>>

\* A callback is run when those before it have; "after" counts the promises
\* of its own chain that come first.
LeaveLate == 4 \* mutant
LeaveAfter == 2
EnterAfter == 3

\* Joining a network found by a scan: two chains, of which only the second
\* is waited for, take the interface out of all zones and into one.
Join(w, n, name, replace) ==
  /\ RefIdle
  /\ wifi' = [v \in Wifis |-> IF v = w THEN {n} ELSE IF replace THEN Absent ELSE wifi[v]]
  /\ interfaces' = interfaces \cup {n}
  /\ chains' = << [op |-> "leave", net |-> n, after |-> LeaveAfter],
                  [op |-> "enter", net |-> n, zone |-> name, after |-> EnterAfter] >>
  /\ asked' = Wish(n, name)
  /\ UNCHANGED <<attached, zoneName, covers, policies>>

-----------------------------------------------------------------------------
(* Zones *)

Outgoing(name, dests) == {Forwarding(name, d) : d \in (dests \cap Named) \ {name}}
Incoming(name, srcs) == {Forwarding(s, name) : s \in (srcs \cap Named) \ {name}}

\* The form of a zone: a new name is set by a callback of renameZone(), the
\* networks by a later one that looks the zone up under the name it had; the
\* forwardings are written at once.
SaveZone(z, new, nets, out, inc) ==
  LET old == zoneName[z]
      kept == {p \in policies :
                 \/ p.kind # "forwarding"
                 \/ /\ p.src = old => p.dest \in out
                    /\ p.dest = old => p.src \in inc}
  IN
  /\ RefIdle /\ z \in ZonesIn
  /\ policies' = kept \cup Outgoing(old, out) \cup Incoming(old, inc)
  /\ covers' = IF nets = {} THEN [covers EXCEPT ![z] = {}] ELSE covers
  /\ chains' =
       (IF new = old THEN <<>> ELSE <<[op |-> "rename", old |-> old, new |-> new, after |-> 1]>>)
       \o (IF nets = {} THEN <<>> ELSE <<[op |-> "cover", zone |-> old, nets |-> nets, after |-> 1]>>)
  /\ asked' = Nothing
  /\ UNCHANGED <<interfaces, wifi, attached, zoneName>>

\* A new zone has its name at once, also one that is in use.
NewZone(name, nets) ==
  /\ RefIdle /\ NextZone # {}
  /\ zoneName' = [zoneName EXCEPT ![Min(NextZone)] = name]
  /\ covers' = [covers EXCEPT ![Min(NextZone)] = {}]
  /\ chains' = IF nets = {} THEN <<>>
               ELSE <<[op |-> "cover", zone |-> name, nets |-> nets, after |-> 1]>>
  /\ asked' = Nothing
  /\ UNCHANGED <<interfaces, wifi, attached, policies>>

PoliciesWithout(name) == {p \in policies : name \notin {p.src, p.dest}}

\* deleteZone(), called with the section.
RemoveZone(z) ==
  /\ RefIdle /\ z \in ZonesIn
  /\ policies' = PoliciesWithout(zoneName[z])
  /\ zoneName' = [zoneName EXCEPT ![z] = Absent]
  /\ covers' = [covers EXCEPT ![z] = {}]
  /\ asked' = Nothing
  /\ UNCHANGED <<interfaces, wifi, attached, chains>>

\* Rules and redirects choose among the zones there are.
AddRule(src, dest) ==
  /\ RefIdle /\ {src, dest} \subseteq Named \cup {Absent}
  /\ Cardinality({p \in policies : p.kind = "rule"}) < MaxRules
  /\ policies' = policies \cup {Rule(src, dest)}
  /\ asked' = Nothing
  /\ UNCHANGED <<interfaces, wifi, attached, zoneName, covers, chains>>

-----------------------------------------------------------------------------
(* The callbacks *)

Rename(old, new) ==
  LET renamed(name) == IF name = old THEN new ELSE name IN
  IF Called(new) # {} THEN UNCHANGED <<zoneName, policies>>
  ELSE /\ zoneName' = [z \in ZoneIds |-> renamed(zoneName[z])]
       /\ policies' = {[p EXCEPT !.src = renamed(@), !.dest = renamed(@)] : p \in policies}

\* The callbacks that add missing networks share one variable: all of them
\* add the last.
Cover(name, nets) ==
  LET missing == nets \ interfaces IN
  \E last \in nets :
    /\ missing # {} => last \in missing
    /\ interfaces' = IF missing = {} THEN interfaces ELSE interfaces \cup {last}
    /\ covers' = IF Called(name) = {} THEN covers
                 ELSE [covers EXCEPT ![Min(Called(name))] =
                         @ \cup (nets \cap interfaces) \cup {last}]

Enter(n, name) ==
  \/ name = Absent /\ UNCHANGED <<zoneName, covers>>
  \/ /\ Called(name) # {}
     /\ covers' = [covers EXCEPT ![Min(Called(name))] = @ \cup {n}]
     /\ UNCHANGED zoneName
  \/ /\ name # Absent /\ Called(name) = {}
     /\ IF NextZone = {} THEN UNCHANGED <<zoneName, covers>>
        ELSE /\ zoneName' = [zoneName EXCEPT ![Min(NextZone)] = name]
             /\ covers' = [covers EXCEPT ![Min(NextZone)] = {n}]

Callback ==
  LET job == Head(chains) IN
  /\ chains # <<>>
  /\ IF job.after > 1
     THEN /\ chains' = Append(Tail(chains), [job EXCEPT !.after = @ - 1])
          /\ UNCHANGED <<interfaces, zoneName, covers, policies>>
     ELSE /\ chains' = Tail(chains)
          /\ \/ /\ job.op = "rename"
                /\ Rename(job.old, job.new)
                /\ UNCHANGED <<interfaces, covers>>
             \/ /\ job.op = "cover"
                /\ Cover(job.zone, job.nets)
                /\ UNCHANGED <<zoneName, policies>>
             \/ /\ job.op = "leave"
                /\ covers' = [z \in ZoneIds |-> covers[z] \ {job.net}]
                /\ UNCHANGED <<interfaces, zoneName, policies>>
             \/ /\ job.op = "enter"
                /\ Enter(job.net, job.zone)
                /\ UNCHANGED <<interfaces, policies>>
  /\ UNCHANGED <<wifi, attached, asked>>

RefNext ==
  \/ \E n \in Networks : AddInterface(n) \/ RemoveInterface(n)
  \/ \E n \in Networks, name \in ZoneNames \cup {Absent} : InterfaceZone(n, name)
  \/ \E r \in Attached, n \in Networks \cup {Absent} : Attach(r, n)
  \/ \E w \in Wifis : RemoveWifi(w) \/ \E nets \in SUBSET Networks : WifiNetworks(w, nets)
  \/ \E w \in Wifis, n \in Networks, name \in ZoneNames \cup {Absent}, replace \in BOOLEAN :
       Join(w, n, name, replace)
  \/ \E z \in ZoneIds, new \in ZoneNames, nets \in SUBSET Networks,
        out \in SUBSET ZoneNames, inc \in SUBSET ZoneNames : SaveZone(z, new, nets, out, inc)
  \/ \E name \in ZoneNames, nets \in SUBSET Networks : NewZone(name, nets)
  \/ \E z \in ZoneIds : RemoveZone(z)
  \/ \E src, dest \in ZoneNames \cup {Absent} : AddRule(src, dest)
  \/ Callback

RefSpec == RefInit /\ [][RefNext]_refVars

-----------------------------------------------------------------------------
(* Properties *)

RefTypeOK ==
  /\ interfaces \subseteq Networks
  /\ wifi \in [Wifis -> (SUBSET Networks) \cup {Absent}]
  /\ attached \in [Attached -> Networks \cup {Absent}]
  /\ zoneName \in [ZoneIds -> ZoneNames \cup {Absent}]
  /\ covers \in [ZoneIds -> SUBSET Networks]
  /\ \A p \in policies : {p.src, p.dest} \subseteq ZoneNames \cup {Absent}

\* Between two operations every reference names something that exists,
\* whatever was added, renamed and deleted before.
RefsResolve ==
  RefIdle =>
    /\ \A w \in Wifis : wifi[w] # Absent => wifi[w] \subseteq interfaces
    /\ \A r \in Attached : attached[r] \in interfaces \cup {Absent}
    /\ \A z \in ZonesIn : covers[z] \subseteq interfaces
    /\ \A p \in policies : {p.src, p.dest} \subseteq Named \cup {Absent}

\* The interface of a network just joined is in the zone chosen for it and in
\* no other, though the callbacks of the two chains take turns.
JoinedInZone ==
  RefIdle /\ asked.kind = "join" =>
    {z \in ZonesIn : asked.net \in covers[z]} =
      IF Called(asked.zone) = {} THEN {} ELSE {Min(Called(asked.zone))}

\* References resolve, and a network just joined is in the zone asked for.
RefsSound == RefTypeOK /\ RefsResolve /\ JoinedInZone
=============================================================================
