------------------------------ MODULE HostHints ------------------------------
(***************************************************************************)
(* What rpcd's plugin "luci" (luci.c) knows of the hosts around: a hint    *)
(* for each MAC address, put together from one source after the other, and *)
(* then names for their addresses, looked up with a call to another        *)
(* plugin.  The call is not waited for: the answer to the request is       *)
(* deferred until the lookup sends data, completes without, or times out.  *)
(***************************************************************************)
EXTENDS Naturals, FiniteSets

CONSTANTS Macs,
          Ip4s, Ip6s,  \* addresses
          HostNames,
          NoAddr,      \* an address that is not known
          NoName

VARIABLES
  source,   \* the source being read, then how far the lookup is
  hints,    \* avl: the hints, by MAC address
  callback, \* ictx->cb: is the callback of the lookup still set?
  timer,    \* is its timeout set?
  replies,  \* answers to the request
  answer,   \* the hints in the answer
  told,     \* history: what the sources said, MAC addresses and names
  resolved  \* history: what the lookup sent, addresses and names

hintVars == <<source, hints, callback, timer, replies, answer, told, resolved>>

NoHint == [ip |-> NoAddr, ip6 |-> NoAddr, name |-> NoName]

HintInit ==
  /\ source = "neighbours"
  /\ hints = [m \in {} |-> NoHint]
  /\ callback = FALSE /\ timer = FALSE
  /\ replies = 0
  /\ answer = hints
  /\ told = {} /\ resolved = {}

\* rpc_luci_get_host_hint(): one that is not there is made.
Hint(m) == IF m \in DOMAIN hints THEN hints[m] ELSE NoHint
SetHint(m, hint) == [x \in DOMAIN hints \cup {m} |-> IF x = m THEN hint ELSE hints[x]]

-----------------------------------------------------------------------------
(* The sources *)

\* nl_cb_dump_neigh(): a later neighbour takes the place of one before.
Neighbour(m, ip, ip6) ==
  /\ source = "neighbours" /\ {ip, ip6} # {NoAddr} /\ NoAddr \in {ip, ip6}
  /\ hints' = SetHint(m, [Hint(m) EXCEPT !.ip = IF ip = NoAddr THEN @ ELSE ip,
                                         !.ip6 = IF ip6 = NoAddr THEN @ ELSE ip6])
  /\ UNCHANGED <<source, callback, timer, replies, answer, told, resolved>>

Known(old, new, none) == IF old = none THEN new ELSE old
FilledIn(m, ip, ip6, name) ==
  SetHint(m, [ip   |-> Known(Hint(m).ip, ip, NoAddr),
              ip6  |-> Known(Hint(m).ip6, ip6, NoAddr),
              name |-> Known(Hint(m).name, name, NoName)])

\* The others only add what is missing: hosts of the DHCP configuration, whose
\* option "ip" is only looked at if it is no string, leases, /etc/ethers, which
\* has an address or a name, and the router's own interfaces.
Says(from, ip, ip6, name) ==
  CASE from = "hosts"  -> ip = NoAddr /\ ip6 = NoAddr
    [] from = "leases" -> NoAddr \in {ip, ip6}
    [] from = "ethers" -> ip6 = NoAddr /\ (ip = NoAddr \/ name = NoName)
    [] from = "interfaces" -> {ip, ip6} # {NoAddr} /\ name = NoName
    [] OTHER -> FALSE

ReadHint(m, ip, ip6, name) ==
  /\ Says(source, ip, ip6, name)
  /\ hints' = FilledIn(m, ip, ip6, name)
  /\ told' = told \cup {<<m, name>>}
  /\ UNCHANGED <<source, callback, timer, replies, answer, resolved>>

\* Every source may be missing, and the order is fixed.
After(from) ==
  CASE from = "neighbours" -> "hosts"
    [] from = "hosts" -> "leases"
    [] from = "leases" -> "ethers"
    [] from = "ethers" -> "interfaces"
    [] OTHER -> "lookup"

NextSource ==
  /\ source \in {"neighbours", "hosts", "leases", "ethers", "interfaces"}
  /\ source' = After(source)
  /\ UNCHANGED <<hints, callback, timer, replies, answer, told, resolved>>

-----------------------------------------------------------------------------
(* The lookup: rpc_luci_get_host_hints_rrdns(), invoke_ubus() *)

Asked == {IF hints[m].ip # NoAddr THEN hints[m].ip ELSE hints[m].ip6 : m \in DOMAIN hints} \ {NoAddr}

NameKept(hint, name) == Known(hint.name, name, NoName) \* mutant
NameReplaced(hint, name) == name

\* finish_request(): the hints, with the names in "named", are sent.
Finish(named) ==
  /\ replies' = replies + 1
  /\ answer' = [m \in DOMAIN hints |->
                  IF m \in DOMAIN named THEN [hints[m] EXCEPT !.name = NameReplaced(hints[m], named[m])]
                  ELSE hints[m]]

NoNames == [m \in {} |-> NoName]

\* Without addresses, or without the other plugin, there is no lookup.
Lookup ==
  /\ source = "lookup"
  /\ \/ /\ Asked # {}
        /\ source' = "waiting"
        /\ callback' = TRUE /\ timer' = TRUE
        /\ UNCHANGED <<replies, answer>>
     \/ /\ source' = "over"
        /\ Finish(NoNames)
        /\ UNCHANGED <<callback, timer>>
  /\ UNCHANGED <<hints, told, resolved>>

\* rrdns_cb(): a name is given to the first hint that has its address, in place
\* of the name it has.
Anyone(addr) == DOMAIN hints \* mutant
Holders(addr) == {m \in DOMAIN hints : addr \in {hints[m].ip, hints[m].ip6}}
Naming(named, names) ==
  \E first \in [{addr \in DOMAIN names : Holders(addr) # {}} -> DOMAIN hints] :
    /\ \A addr \in DOMAIN first : first[addr] \in Holders(addr)
    /\ DOMAIN named = {first[addr] : addr \in DOMAIN first}
    /\ \A m \in DOMAIN named : \E addr \in DOMAIN first : first[addr] = m /\ named[m] = names[addr]

StillSet == callback \* mutant
ClearedCallback == FALSE

\* invoke_data_cb()
Data ==
  /\ source = "waiting" /\ callback
  /\ \E known \in SUBSET Asked : \E names \in [known -> HostNames] :
       /\ \E holders \in SUBSET DOMAIN hints : \E named \in [holders -> HostNames] :
            Naming(named, names) /\ Finish(named)
       /\ resolved' = {<<addr, names[addr]>> : addr \in known}
  /\ callback' = ClearedCallback
  /\ UNCHANGED <<source, hints, timer, told>>

\* invoke_done_cb() and invoke_timeout_cb(): both end the call.
CallEnds ==
  /\ IF callback THEN Finish(NoNames) ELSE UNCHANGED <<replies, answer>>
  /\ callback' = FALSE
  /\ source' = "over"
  /\ UNCHANGED <<hints, told, resolved>>

Completed ==
  /\ source = "waiting"
  /\ CallEnds
  /\ timer' = FALSE

LookupTimeout ==
  /\ timer
  /\ CallEnds
  /\ timer' = FALSE

HintNext ==
  \/ \E m \in Macs, ip \in Ip4s \cup {NoAddr}, ip6 \in Ip6s \cup {NoAddr} : Neighbour(m, ip, ip6)
  \/ \E m \in Macs, ip \in Ip4s \cup {NoAddr}, ip6 \in Ip6s \cup {NoAddr},
        name \in HostNames \cup {NoName} : ReadHint(m, ip, ip6, name)
  \/ NextSource \/ Lookup \/ Data \/ Completed \/ LookupTimeout

HintSpec == HintInit /\ [][HintNext]_hintVars

-----------------------------------------------------------------------------
(* Properties *)

\* The request is answered once: not by the data and again by the completion or
\* the timeout, which free what the answer is made of, and not without either.
AnsweredOnce ==
  /\ replies <= 1
  /\ source = "over" => replies = 1 /\ ~callback /\ ~timer

\* A host's name is one its own entry in some source had, or the name of one of
\* its own addresses.
NamesBelong ==
  \A m \in DOMAIN answer :
    answer[m].name = NoName \/ <<m, answer[m].name>> \in told
      \/ \E addr \in {answer[m].ip, answer[m].ip6} : <<addr, answer[m].name>> \in resolved

\* No two hosts with one address, and one address each: every name that the
\* lookup found is then shown, whatever name the host had before.
ResolvedShown ==
  (\A m, n \in DOMAIN answer : m # n =>
     {answer[m].ip, answer[m].ip6} \cap {answer[n].ip, answer[n].ip6} \subseteq {NoAddr})
  => \A pair \in resolved : \E m \in DOMAIN answer :
       pair[1] \in {answer[m].ip, answer[m].ip6} /\ answer[m].name = pair[2]

\* One answer, with true names, and with all names that were found.
HintsSound == AnsweredOnce /\ NamesBelong /\ ResolvedShown
=============================================================================
