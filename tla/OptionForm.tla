----------------------------- MODULE OptionForm -----------------------------
(***************************************************************************)
(* Forms of form.js over one section: how a page lists its options, what   *)
(* some of them do in a way of their own, and the form itself.             *)
(***************************************************************************)
EXTENDS Sequences, TLC, Naturals

-----------------------------------------------------------------------------
(***************************************************************************)
(* How the options of a form are written down in the modules that list     *)
(* them: one entry for each call of option() or taboption() with what the  *)
(* page sets on it.  Texts, lists, addresses and numbers are Fields whose  *)
(* content is given by hand; "" is an empty field, and an unset option.    *)
(***************************************************************************)

\* "uci" is the option of the section it stands for, "must" says that it may not be
\* left empty (neither rmempty nor optional), "by" names a form of its own of
\* cfgvalue(), write() and remove(); "needs" are alternatives, each an option it
\* depends on with the values that show it.
Entry(n, sort, vs, preset) ==
  [name |-> n, uci |-> n, kind |-> sort, values |-> vs, default |-> preset,
   must |-> FALSE, needs |-> {}, by |-> "form"]

Field(n) == Entry(n, "text", <<"", "x">>, "")              \* Value, DynamicList, TextValue
Chosen(n, vs, d) == Entry(n, "text", <<"">> \o vs, d)      \* the same, with these contents
Select(n, vs, d) == Entry(n, "list", vs, d)                \* ListValue
Toggle(n) == Entry(n, "flag", <<"0", "1">>, "0")             \* Flag
ToggleOn(n) == Entry(n, "flag", <<"0", "1">>, "1")           \* its default is enabled
Note(n) == [Entry(n, "text", <<"">>, "") EXCEPT !.by = "none"] \* DummyValue

Must(o) == [o EXCEPT !.must = TRUE]
As(o, u) == [o EXCEPT !.uci = u]
By(o, handler) == [o EXCEPT !.by = handler]
\* depends(), once or more; Needs(o, d) for dependencies on several options together.
Needing(o, d) == [o EXCEPT !.needs = @ \cup {d}]
If(o, p, vs) == Needing(o, p :> vs)
Given(o, p) == If(o, p, {"1"})

TextFields(ns) == [i \in DOMAIN ns |-> Field(ns[i])]
Toggles(ns) == [i \in DOMAIN ns |-> Toggle(ns[i])]
\* The same dependency for each of several options.
AllIf(os, p, vs) == [i \in DOMAIN os |-> If(os[i], p, vs)]

-----------------------------------------------------------------------------
(***************************************************************************)
(* Options of the pages that read or write their setting in a way of their *)
(* own: cfgvalue(), write() and remove() set on the option, by the name in *)
(* its entry.  A section is a function from the options that are set.      *)
(***************************************************************************)

Setting(s, u) == IF u \in DOMAIN s THEN s[u] ELSE ""
SetTo(s, u, v) == IF v = "" THEN [x \in DOMAIN s \ {u} |-> s[x]] ELSE (u :> v) @@ s

\* Two widgets for "keepalive", a number of failures and an interval: without the
\* one there is nothing, without the other it is 1.
KeepaliveOf(failure, interval) ==
  IF failure = "" THEN "" ELSE IF interval \in {"", "1"} THEN "2 1" ELSE "2 5"
FailureOf(k) == IF k = "" THEN "" ELSE "2"
IntervalOf(k) == CASE k = "" -> "" [] k = "2 1" -> "1" [] k = "2 5" -> "5"
WriteKeepalive(w, s) ==
  SetTo(s, "keepalive", KeepaliveOf(w["_keepalive_failure"], w["_keepalive_interval"]))

KeepaliveFields ==
  <<[Chosen("_keepalive_failure", <<"2">>, "") EXCEPT !.uci = "keepalive", !.by = "failure"],
    [Chosen("_keepalive_interval", <<"1", "5">>, "") EXCEPT !.uci = "keepalive", !.by = "interval"]>>

\* cfgvalue() is what load() gave, not read from the section there and then.
IsLoaded(o) == o.by \in {"form", "file", "default loaded", "first unset", "networks added", "unless port",
                      "unless name or mac", "default of protocol", "device"}

\* The arguments of a zone for what it sends, for want of which those for what it
\* gets are shown too.
ExtraOf(n, s) == IF n = "extra_dest" /\ Setting(s, n) # "" THEN Setting(s, n) ELSE Setting(s, "extra_src")

\* The devices of an interface: those chosen in the one field or in the other.
FirstDevice(ds) == IF ds = "eth0 eth1" THEN "eth0" ELSE ds
IsVirtual(proto) == proto = "wireguard"
WriteDevices(w, s) == SetTo(s, "ifname", IF w["type"] = "bridge" THEN w["ifname_multi"] ELSE w["ifname_single"])

\* The default of a flag depends on the protocol the interface had.
InitialOf(o, s) ==
  IF o.by = "default of protocol" THEN IF Setting(s, "proto") = "static" THEN "1" ELSE "0" ELSE o.default

OwnValue(o, s) ==
  CASE o.by = "first device" -> FirstDevice(Setting(s, o.uci))
    [] o.by = "one address" -> IF Setting(s, o.uci) = "A B" THEN "" ELSE Setting(s, o.uci)
    [] o.by = "on unless 0" -> IF Setting(s, o.uci) = "0" THEN "0" ELSE "1"
    [] o.by = "default loaded" -> IF Setting(s, o.uci) = "" THEN o.default ELSE Setting(s, o.uci)
    [] o.by = "mark target" /\ Setting(s, "target") = "MARK" ->
         IF Setting(s, "set_mark") # "" THEN "MARK_SET" ELSE "MARK_XOR"
    [] o.by = "extra" -> ExtraOf(o.uci, s)
    [] o.by = "failure" -> FailureOf(Setting(s, "keepalive"))
    [] o.by = "interval" -> IntervalOf(Setting(s, "keepalive"))
    [] o.by = "any tunnelid" -> IF Setting(s, "tunnelid") # "" THEN "1" ELSE "0"
    [] o.by = "CIDR" -> IF Setting(s, "ipaddr") = "addr/24" THEN "1" ELSE "0"
    [] o.by = "none" -> ""
    [] OTHER -> Setting(s, o.uci)

WrittenBy(o, w, s) ==
  CASE o.by \in {"failure", "interval"} -> WriteKeepalive(w, s)
    [] o.by \in {"any tunnelid", "CIDR", "none", "devices", "first device"} -> s
    [] o.by = "bridge" -> SetTo(WriteDevices(w, s), o.uci, w[o.name])
    [] o.by = "on unless 0" -> SetTo(s, o.uci, IF w[o.name] = "0" THEN "0" ELSE "")
    [] o.by = "first unset" -> SetTo(s, o.uci, IF w[o.name] = o.values[1] THEN "" ELSE w[o.name])
    [] o.by = "mark target" ->
         SetTo(s, o.uci, IF w[o.name] \in {"MARK_SET", "MARK_XOR"} THEN "MARK" ELSE w[o.name])
    [] o.by = "networks added" /\ Setting(s, o.uci) # "" -> SetTo(s, o.uci, o.values[Len(o.values)])
    [] OTHER -> SetTo(s, o.uci, w[o.name])

\* A file is written, but what is removed is an option of that name.  The device of a
\* LED stays for the other kind, those of an interface while it is not virtual.
Erased(o, w, s) ==
  CASE o.by \in {"failure", "interval"} -> WriteKeepalive(w, s)
    [] o.by \in {"any tunnelid", "CIDR", "none", "file", "devices", "first device"} -> s
    [] o.by = "bridge" ->
         IF IsVirtual(w["proto"]) THEN SetTo(SetTo(s, "ifname", w["ifname_single"]), o.uci, "") ELSE s
    [] o.by = "device" /\ w["trigger"] \in {"netdev", "usbdev"} -> s
    [] OTHER -> SetTo(s, o.uci, "")

\* What a choice does besides: "Switch to CIDR list notation" takes the mask into the
\* address and away from the form, for good; an address is given in that notation.
Typed(o, v, w) ==
  IF o.by = "CIDR" THEN [w EXCEPT !["_notation"] = "1", !["ipaddr"] = IF @ = "" THEN "" ELSE "addr/24"]
  ELSE [w EXCEPT ![o.name] = v]
Admits(o, v, w) ==
  /\ o.by = "CIDR" => v = "1"
  /\ o.uci = "ipaddr" /\ "_notation" \in DOMAIN w =>
       (v = "addr/24" => w["_notation"] = "1") /\ (v = "addr" => w["_notation"] = "0")

\* Refused by a validator that looks at another field as well.
RefusesToo(o, w) ==
  \/ o.by = "unless port" /\ w[o.name] = "" /\ w["snat_port"] = ""
  \/ o.by = "unless name or mac" /\ w["name"] = "" /\ w["mac"] = ""

\* What was left in the option is not how it reads when the form is opened again: its
\* default comes back, a file is not removed, an interval needs a number of failures,
\* a network taken out of a zone is still in it, two addresses are not told apart, the
\* device of a LED is not removed, a flag left out has the default of a new protocol.
ReadsOtherwise(o, l, s) ==
  \/ o.by = "networks added" /\ l[o.name] = o.values[2] /\ Setting(s, o.uci) = o.values[3]
  \/ o.by = "one address" /\ l[o.name] = "A B"
  \/ o.by = "device" /\ l[o.name] = ""
  \/ o.by = "default of protocol" /\ Setting(s, o.uci) = "" /\ l[o.name] # InitialOf(o, s)
  \/ o.name = "extra_dest" /\ l[o.name] = "" /\ l["extra_src"] # ""
  \/ l[o.name] = "" /\ (o.default # "" \/ o.by = "file")
  \/ o.by = "interval" /\ (l["_keepalive_failure"] = "" \/ l["_keepalive_interval"] = "")
\* Boxes that stand for what is in another field, which was left empty.
StandsForNothing(l) ==
  \/ "_update" \in DOMAIN l /\ l["_update"] = "1" /\ l["tunnelid"] = ""
  \/ "_notation" \in DOMAIN l /\ l["_notation"] = "1" /\ l["ipaddr"] = ""
\* What remains set although it is not shown: the devices of an interface.
Remains(o) == o.by = "devices"

-----------------------------------------------------------------------------
(***************************************************************************)
(* A form of form.js over one section: any of the pages listed in Sheets.  *)
(* Opening it loads the options and fills the widgets, choosing in one     *)
(* shows and hides others, and saving lets each option parse itself in its *)
(* order: what is shown is written if it differs from what was loaded, or  *)
(* removed if it is empty or hidden.  What the user sees is in "widgets"   *)
(* and what the router gets is in "settings"; the pages rely on the one    *)
(* being the image of the other, whatever their options depend on.         *)
(***************************************************************************)

CONSTANTS Sheets,   \* the pages: sequences of entries
          MaxEdits  \* bound: widgets changed; a setting made by hand is one

VARIABLES
  sheet,    \* the page
  settings, \* the section in the cache of the configuration
  loaded,   \* what it was when the form was opened
  widgets,  \* content of the widgets, empty while the form is closed
  edits,    \* widgets changed so far
  left      \* history: options shown and their content when the form was last
            \* saved; empty before, after a save that was refused, and after one
            \* that followed it, which knows nothing of what that one wrote

sheetVars == <<sheet, settings, loaded, widgets, edits, left>>

ValueSet(o) == {o.values[i] : i \in DOMAIN o.values}
NamesIn(os, is) == {os[i].name : i \in is}

\* Where in its page an option is, by its name.
PlacesIn(os) ==
  [n \in NamesIn(os, DOMAIN os) |-> CHOOSE i \in DOMAIN os : os[i].name = n]
AlwaysIn(os) == NamesIn(os, {i \in DOMAIN os : os[i].needs = {}})
\* The options that no other has to do with: such ones are changed first.
AloneIn(os) ==
  NamesIn(os, {i \in DOMAIN os :
    /\ os[i].needs = {} /\ os[i].by = "form"
    /\ \A j \in DOMAIN os \ {i} :
         os[j].uci # os[i].uci /\ \A d \in os[j].needs : os[i].name \notin DOMAIN d})
PageOf(f, os) ==
  [name |-> f, options |-> os, places |-> PlacesIn(os), always |-> AlwaysIn(os), alone |-> AloneIn(os)]
Pages == {PageOf(f, Sheets[f]) : f \in DOMAIN Sheets}

-----------------------------------------------------------------------------
(* Widgets *)

\* cfgvalue(): what was loaded, or what the option's own function makes of it.
CfgValue(o, s) == IF o.by = "form" THEN Setting(s, o.uci) ELSE OwnValue(o, s)

\* renderWidget() and the widgets: Textfield, Select, Checkbox.
FilledIn(o, s) ==
  LET v == IF CfgValue(o, s) = "" THEN InitialOf(o, s) ELSE CfgValue(o, s) IN
  IF o.kind = "text" \/ v \in ValueSet(o) THEN v
  ELSE IF "" \in ValueSet(o) THEN "" ELSE o.values[1]
FormOf(p, s) == [n \in DOMAIN p.places |-> FilledIn(p.options[p.places[n]], s)]

\* isDependencySatisfied() for what has been found shown so far.
Satisfies(o, w, seen) ==
  o.needs = {} \/ \E d \in o.needs : \A p \in DOMAIN d : p \in seen /\ w[p] \in d[p]
\* A pass of checkDepends(), and the second one.
ShownOrNot(o, w, seen) == IF Satisfies(o, w, seen) THEN seen \cup {o.name} ELSE seen \ {o.name}
Visibly(os, seen, w) ==
  LET upto[i \in 0..Len(os)] == IF i = 0 THEN seen ELSE ShownOrNot(os[i], w, upto[i - 1])
  IN upto[Len(os)]
VisibleIn(p, w) == Visibly(p.options, Visibly(p.options, p.always, w), w)

\* parse(): "s" is the section as the options before this one left it.  A function
\* of its own reads what is there by now, cfgvalue() what was there when loaded.
Refuses(o, w, seen) ==
  o.name \in seen /\ (RefusesToo(o, w) \/ (o.kind # "flag" /\ o.must /\ w[o.name] = ""))
KeepsHidden(o, w, seen) == w[o.name] = "" \* mutant
Goes(o, w, seen) == o.name \notin seen \/ w[o.name] = ""
FlagGoes(o, w, seen, s0) == o.name \notin seen \/ (w[o.name] = InitialOf(o, s0) /\ ~o.must)
ParseEntry(o, w, seen, s, s0) ==
  IF IF o.kind = "flag" THEN FlagGoes(o, w, seen, s0) ELSE Goes(o, w, seen)
  THEN IF Refuses(o, w, seen) THEN s ELSE Erased(o, w, s)
  ELSE IF o.kind # "flag" /\ w[o.name] = CfgValue(o, IF IsLoaded(o) THEN s0 ELSE s) THEN s
  ELSE WrittenBy(o, w, s)
ParsedBy(p, w, s, s0) ==
  LET seen == VisibleIn(p, w)
      upto[i \in 0..Len(p.options)] ==
        IF i = 0 THEN s ELSE ParseEntry(p.options[i], w, seen, upto[i - 1], s0)
  IN upto[Len(p.options)]
RefusedBy(p, w) ==
  LET seen == VisibleIn(p, w) IN \E i \in DOMAIN p.options : Refuses(p.options[i], w, seen)

-----------------------------------------------------------------------------
(* The form *)

\* A section just created, or with a setting made by hand.
SheetInit ==
  /\ \E p \in Pages :
       /\ sheet = p.name
       /\ \/ settings = <<>> /\ edits = 0
          \/ /\ \E i \in DOMAIN p.options : LET o == p.options[i] IN
                  /\ o.by = "form" /\ o.name \notin p.alone
                  /\ \E v \in ValueSet(o) \ {""} : settings = o.uci :> v
             /\ edits = 1
  /\ loaded = <<>> /\ widgets = <<>> /\ left = <<>>

OpenSheet(p) ==
  /\ widgets = <<>>
  /\ loaded' = settings /\ widgets' = FormOf(p, settings)
  /\ UNCHANGED <<sheet, settings, edits, left>>

ChangeOption(p) ==
  /\ widgets # <<>> /\ edits < MaxEdits
  /\ \E n \in VisibleIn(p, widgets) : LET o == p.options[p.places[n]] IN
       /\ n \in p.alone => edits = 0
       /\ \E v \in ValueSet(o) \ {widgets[n]} :
            Admits(o, v, widgets) /\ widgets' = Typed(o, v, widgets)
  /\ edits' = edits + 1
  /\ UNCHANGED <<sheet, settings, loaded, left>>

\* What is refused does not keep the others from being written.
SaveSheet(p) ==
  /\ widgets # <<>>
  /\ settings' = ParsedBy(p, widgets, settings, loaded)
  /\ IF RefusedBy(p, widgets) THEN left' = <<>> /\ UNCHANGED <<loaded, widgets>>
     ELSE /\ left' = IF settings = loaded THEN [n \in VisibleIn(p, widgets) |-> widgets[n]] ELSE <<>>
          /\ loaded' = <<>> /\ widgets' = <<>>
  /\ UNCHANGED <<sheet, edits>>

CloseSheet ==
  /\ widgets # <<>>
  /\ loaded' = <<>> /\ widgets' = <<>>
  /\ UNCHANGED <<sheet, settings, edits, left>>

SheetNext ==
  \/ \E p \in Pages : p.name = sheet /\ (OpenSheet(p) \/ ChangeOption(p) \/ SaveSheet(p))
  \/ CloseSheet
SheetSpec == SheetInit /\ [][SheetNext]_sheetVars

-----------------------------------------------------------------------------
(* Properties *)

\* Opened again the form shows the options that were shown, with what was left in
\* them, but for what ReadsOtherwise names.
ShownAgain(p) ==
  LET w == FormOf(p, settings) IN
    /\ VisibleIn(p, w) = DOMAIN left
    /\ \A i \in DOMAIN p.options : LET o == p.options[i] IN
         o.name \in DOMAIN left /\ ~ReadsOtherwise(o, left, settings) => w[o.name] = left[o.name]

\* No setting is left that the form does not show.
NoneLeftOver(p) ==
  DOMAIN settings \subseteq {p.options[i].uci : i \in {j \in DOMAIN p.options :
                               p.options[j].name \in DOMAIN left \/ Remains(p.options[j])}}

\* Saving what is shown, without touching it, sets nothing more and changes nothing
\* that is shown.
SavedTwice(p) ==
  (\A i \in DOMAIN p.options :
     p.options[i].name \in DOMAIN left => ~ReadsOtherwise(p.options[i], left, settings)) =>
    LET again == ParsedBy(p, FormOf(p, settings), settings, settings) IN
    DOMAIN again \subseteq DOMAIN settings /\ FormOf(p, again) = FormOf(p, settings)

\* What was saved is what the form shows when it is opened again.
SheetSound ==
  left # <<>> /\ ~StandsForNothing(left) =>
    \A p \in Pages : p.name = sheet => ShownAgain(p) /\ NoneLeftOver(p) /\ SavedTwice(p)
=============================================================================
