----------------------------- MODULE WifiDialog -----------------------------
(***************************************************************************)
(* The dialog of a wireless network (wireless.js): the frequency of its    *)
(* radio, and its security.                                                *)
(***************************************************************************)
EXTENDS Naturals, SequencesExt

-----------------------------------------------------------------------------
(***************************************************************************)
(* The operating frequency of a radio (wireless.js: CBIWifiFrequencyValue):*)
(* four selects, of which the mode decides what the band and the width     *)
(* offer, and the band what the channel offers.  When the choices of a     *)
(* select are exchanged, the list that goes remembers what was selected.   *)
(***************************************************************************)

CONSTANTS Radios,    \* what load() may be told: modes, widths, and whether the
                     \* radio can choose a channel itself
          Channels,  \* the channels of each band, in their order
          Unoffered, \* the value of a select in which nothing is selected
          Never      \* a list that was not shown yet remembers nothing

ASSUME FrequencyAssumption ==
  /\ DOMAIN Channels = {"11g", "11a"}
  /\ \A b \in DOMAIN Channels : IsInjective(Channels[b])
  /\ \A r \in Radios : "" \in r.modes \cap r.widths /\ r.acs \in BOOLEAN

VARIABLES
  radio,  \* the radio
  stored, \* the configuration when the form was shown
  freq,   \* the selects, each with a list of choices and a value, and what
          \* the lists remember
  touched, \* history: did the user select anything?
  watched, \* a list of choices, and
  picked   \* history: what the user selected last in it

freqVars == <<radio, stored, freq, touched, watched, picked>>

Modes == {"", "n", "ac"}
Widths == [m \in Modes |->
  CASE m = "" -> <<"">> [] m = "n" -> <<"HT20", "HT40">> [] OTHER -> <<"VHT20", "VHT80">>]
Bands == {"11g", "11a"}
WidthNames == UNION {ToSet(Widths[m]) : m \in Modes}
ChannelNames == {"auto"} \cup UNION {ToSet(Channels[b]) : b \in Bands}
FrequencyNames == Modes \cup Bands \cup WidthNames \cup ChannelNames
ASSUME SelectionAssumption == {Unoffered, Never} \cap FrequencyNames = {}

-----------------------------------------------------------------------------
(* load(): the lists of choices.  A band is offered if it has two channels. *)

ChannelList(b) == (IF radio.acs THEN <<"auto">> ELSE <<>>) \o Channels[b]

\* The entries of a list; the choices it offers are those flagged as available.
ListEntries(list) ==
  CASE list[1] = "mode"   -> <<"", "n", "ac">>
    [] list[1] = "htmode" -> Widths[list[2]]
    [] list[1] = "band"   -> IF list[2] = "ac" THEN <<"11a">> ELSE <<"11g", "11a">>
    [] OTHER              -> IF list[2] \in Bands THEN ChannelList(list[2]) ELSE <<>>

Available(list, v) ==
  CASE list[1] = "mode"   -> v \in radio.modes
    [] list[1] = "htmode" -> v \in radio.widths
    [] list[1] = "band"   -> list[2] = "ac" \/ Len(ChannelList(v)) > 1
    [] OTHER              -> TRUE

FreqChoices(list) == {v \in ToSet(ListEntries(list)) : Available(list, v)}
FirstChoice(list) ==
  LET at == {i \in DOMAIN ListEntries(list) : ListEntries(list)[i] \in FreqChoices(list)} IN
  IF at = {} THEN Unoffered ELSE ListEntries(list)[Min(at)]

FreqLists == {<<"mode", "">>} \cup ({"htmode", "band"} \X Modes) \cup ({"channel"} \X Bands)

-----------------------------------------------------------------------------
(* setValues() and what follows from a change *)

Forgetting(f, sel) == f.remembered \* mutant
Remembering(f, sel) ==
  LET old == f.list[sel] IN
  IF old \in FreqLists THEN [f.remembered EXCEPT ![old] = f.value[sel]] ELSE f.remembered

FreqSetValues(f, sel, list) ==
  LET kept == Remembering(f, sel)
      known == list \in FreqLists /\ kept[list] # Never
  IN [list |-> [f.list EXCEPT ![sel] = list],
      remembered |-> kept,
      value |-> [f.value EXCEPT ![sel] =
        IF known THEN kept[list] ELSE FirstChoice(list)]]

\* A select without a selection has the value '', which is also a mode.
ModeOf(f) == IF f.value["mode"] = Unoffered THEN "" ELSE f.value["mode"]

ToggleChannel(f) == FreqSetValues(f, "channel", <<"channel", f.value["band"]>>)
ToggleBand(f) == ToggleChannel(FreqSetValues(f, "band", <<"band", ModeOf(f)>>))
ToggleMode(f) == ToggleBand(FreqSetValues(f, "htmode", <<"htmode", ModeOf(f)>>))

\* The assignment of a value that is not among the choices selects nothing.
Assign(f, sel, v) ==
  [f EXCEPT !.value[sel] = IF v \in FreqChoices(f.list[sel]) THEN v ELSE Unoffered]

ModeFor(width) == CHOOSE m \in Modes : width \in ToSet(Widths[m])

NothingShown ==
  [list |-> [sel \in {"mode", "htmode", "band", "channel"} |-> <<sel, Unoffered>>],
   value |-> [sel \in {"mode", "htmode", "band", "channel"} |-> Unoffered],
   remembered |-> [l \in FreqLists |-> Never]]

\* setInitialValues()
InitialValues(f, c) ==
  \E shown \in {FreqSetValues(NothingShown, "mode", <<"mode", "">>)} :
    \E moded \in {ToggleMode(Assign(shown, "mode", ModeFor(c.ht)))} :
      \E banded \in {ToggleBand(Assign(moded, "band", c.hw))} :
        f = Assign(Assign(banded, "htmode", c.ht), "channel", c.ch)

FreqInit ==
  /\ radio \in Radios
  /\ stored \in [ht : WidthNames, hw : Bands, ch : ChannelNames]
  /\ InitialValues(freq, stored)
  /\ watched \in FreqLists
  /\ picked = Never /\ touched = FALSE

-----------------------------------------------------------------------------
(* The user *)

Picks(sel, v) ==
  /\ v \in FreqChoices(freq.list[sel])
  /\ picked' = IF freq.list[sel] = watched THEN v ELSE picked
  /\ touched' = TRUE
  /\ UNCHANGED <<radio, stored, watched>>

PickMode(v) == Picks("mode", v) /\ freq' = ToggleMode(Assign(freq, "mode", v))
PickBand(v) == Picks("band", v) /\ freq' = ToggleBand(Assign(freq, "band", v))
PickChannel(v) == Picks("channel", v) /\ freq' = Assign(freq, "channel", v)
PickWidth(v) == Picks("htmode", v) /\ freq' = Assign(freq, "htmode", v)

FreqNext ==
  \/ \E v \in Modes : PickMode(v)
  \/ \E v \in Bands : PickBand(v)
  \/ \E v \in ChannelNames : PickChannel(v)
  \/ \E v \in WidthNames : PickWidth(v)

FreqSpec == FreqInit /\ [][FreqNext]_freqVars

-----------------------------------------------------------------------------
(* Properties *)

\* formvalue()
FreqFormValue ==
  LET blank(sel) == IF freq.value[sel] = Unoffered THEN "" ELSE freq.value[sel] IN
  [ht |-> blank("htmode"), hw |-> blank("band"), ch |-> blank("channel")]

\* A frequency that the radio offers and that the user does not touch is what the
\* form saves, although the lists are set up one after the other and each first
\* shows another choice.
UntouchedKept ==
  /\ ~touched
  /\ ModeFor(stored.ht) \in radio.modes /\ stored.ht \in radio.widths
  /\ stored.hw \in FreqChoices(<<"band", ModeFor(stored.ht)>>)
  /\ stored.ch \in ToSet(ChannelList(stored.hw))
  => FreqFormValue = stored

\* What the user selected is selected again whenever its list is shown again:
\* neither the mode nor the band may be left and returned to at the cost of a
\* channel or a width.
PickedIsShown ==
  \A sel \in DOMAIN freq.list :
    freq.list[sel] = watched /\ picked # Never => freq.value[sel] = picked

\* The selects neither lose what was selected nor invent what was not.
FrequencyKept == UntouchedKept /\ PickedIsShown

-----------------------------------------------------------------------------
(***************************************************************************)
(* The dialog of a wireless network (wireless.js): mode, encryption, keys  *)
(* and what belongs to them.  Two options of the page share the option     *)
(* "key" of the configuration, two more share "encryption"; most are shown *)
(* depending on mode, encryption and each other.  Of options that differ   *)
(* in nothing but their names there is one here.  The driver is mac80211.  *)
(***************************************************************************)

CONSTANTS WifiModes, Encryptions, \* those that are tried
          Lacking,                \* pairs of them for which programs are missing
          Phrases,                \* keys for WPA
          MaxChanges              \* bound: widgets changed in a dialog

Psk == {"psk", "psk2", "psk-mixed", "sae", "sae-mixed"}
Eap == {"wpa", "wpa2", "wpa3", "wpa3-mixed"}
Wep == {"wep-open", "wep-shared"}
ASSUME SecurityAssumption ==
  /\ WifiModes \subseteq {"ap", "sta", "adhoc", "mesh", "ahdemo", "monitor"}
  /\ Encryptions \subseteq Psk \cup Eap \cup Wep \cup {"none", "owe"}
  /\ "" \notin Phrases /\ Phrases \cap {"1", "2"} = {}

VARIABLES
  stanza,    \* the section in the cache of the configuration
  answers,     \* the widgets of the dialog, empty if there is none
  untouched, \* the widget of ieee80211w has not been used
  mfp,       \* ieee80211w as it was when the dialog was opened
  changes,   \* widgets changed in this dialog
  phrase,    \* history: the key shown when the dialog was saved, "" if none
  partly,    \* history: "now" after a save that was refused, "once" after one
             \* that went well since
  default    \* history: ieee80211w was left to its default when last saved

securityVars == <<stanza, answers, untouched, mfp, changes, phrase, partly, default>>

-----------------------------------------------------------------------------
(* The options, in their order, and what they depend on *)

With1(o, vs) == {o :> v : v \in vs}
\* add_dependency_permutations()
Permuted(A, B) == {a @@ b : a \in A, b \in B}

Aps == With1("mode", {"ap"}) \* and with WDS
Stas == With1("mode", {"sta"})
EapAp == Permuted(Aps, With1("encryption", Eap))
EapSta == Permuted(Stas, With1("encryption", Eap))

\* An empty set is no dependency.
BasicNeeds ==
  "mode" :> {} @@ "mesh_id" :> With1("mode", {"mesh"}) @@ "ssid" :> With1("mode", {"ap", "sta", "adhoc", "ahdemo", "monitor"})
  @@ "bssid" :> With1("mode", {"adhoc", "sta"}) @@ "hidden" :> Aps
EncryptionNeeds ==
  "encryption" :> With1("mode", {"ap", "sta", "adhoc", "ahdemo", "mesh"})
  @@ "cipher" :> With1("encryption", Eap \cup {"psk", "psk2", "psk-mixed"})
RadiusNeeds == "auth_server" :> EapAp
KeyNeeds ==
  "_wpa_key" :> With1("encryption", Psk)
  @@ "_wep_key" :> With1("encryption", Wep) @@ "key1" :> With1("encryption", Wep)
RoamingNeeds ==
  "ieee80211r" :> EapAp \cup Permuted(Aps, With1("encryption", Psk))
  @@ "nasid" :> EapAp \cup With1("ieee80211r", {"1"}) @@ "mobility_domain" :> With1("ieee80211r", {"1"})
EapNeeds ==
  "eap_type" :> EapSta @@ "ca_cert" :> EapSta
  @@ "client_cert" :> Permuted(EapSta, With1("eap_type", {"tls"}))
  @@ "password" :> Permuted(EapSta, With1("eap_type", {"fast", "peap", "ttls"}))
ProtectionNeeds ==
  "ieee80211w" :> Permuted(Aps \cup Stas,
                           With1("encryption", {"owe", "psk2", "psk-mixed", "sae", "sae-mixed", "wpa2", "wpa3", "wpa3-mixed"}))
  @@ "ieee80211w_max_timeout" :> With1("ieee80211w", {"1", "2"})
NeedsOf == BasicNeeds @@ EncryptionNeeds @@ RadiusNeeds @@ KeyNeeds @@ RoamingNeeds @@ EapNeeds @@ ProtectionNeeds

OptionOrder == <<"mode", "mesh_id", "ssid", "bssid", "hidden", "encryption", "cipher", "auth_server",
                 "_wpa_key", "_wep_key", "key1", "ieee80211r", "nasid", "mobility_domain", "eap_type",
                 "ca_cert", "client_cert", "password", "ieee80211w", "ieee80211w_max_timeout">>

\* Options whose widget may have one of several values; the others are filled in.
WidgetValues == "mode" :> WifiModes @@ "encryption" :> Encryptions @@ "cipher" :> {"auto", "ccmp"}
           @@ "_wpa_key" :> Phrases \cup {""} @@ "_wep_key" :> {"1", "2"}
           @@ "ieee80211r" :> {"0", "1"} @@ "eap_type" :> {"tls", "peap"} @@ "ieee80211w" :> {"", "1", "2"}

\* Map.checkDepends(): no option depends on one after it.
Met(o, widgets, seen) ==
  NeedsOf[o] = {} \/ \E d \in NeedsOf[o] : \A p \in DOMAIN d : widgets[p] = d[p] /\ p \in seen
ShownOf(widgets) ==
  LET upto[i \in 0..Len(OptionOrder)] ==
        IF i = 0 THEN {}
        ELSE LET seen == upto[i - 1] IN
             IF Met(OptionOrder[i], widgets, seen) THEN seen \cup {OptionOrder[i]} ELSE seen
  IN upto[Len(OptionOrder)]

\* The defaults of ieee80211w, by encryption: updateDefaultValue().
DefaultOf(e) == IF e \in {"sae", "owe", "wpa3", "wpa3-mixed"} THEN "2"
                ELSE IF e = "sae-mixed" THEN "1" ELSE ""
Defaulted(widgets) ==
  IF "ieee80211w" \in ShownOf(widgets) /\ untouched /\ mfp = ""
  THEN [widgets EXCEPT !["ieee80211w"] = DefaultOf(widgets["encryption"])]
  ELSE widgets

\* encr.crypto_support
Supported(m, e) ==
  \/ e = "none"
  \/ /\ <<m, e>> \notin Lacking
     /\ CASE m \in {"ap", "sta"} -> TRUE
          [] m = "adhoc" -> e \in Wep \cup {"psk", "psk2", "psk-mixed"}
          [] m = "mesh" -> e = "sae"
          [] m = "ahdemo" -> e \in Wep
          [] m = "monitor" -> FALSE

-----------------------------------------------------------------------------
(* The section *)

\* "extra" are the options that are there under their own names.
SecurityInit ==
  /\ stanza = [mode |-> "ap", enc |-> "none", cipher |-> "auto", key |-> "", mfp |-> "", eap |-> "", extra |-> {"ssid", "hidden"}]
  /\ answers = <<>> /\ untouched = TRUE /\ mfp = "" /\ changes = 0
  /\ phrase = "" /\ partly = "no" /\ default = FALSE

Slots == {"1", "2"} \* of four
\* cfgvalue() of the options; a list shows its first value where it has none other.
Filled(s) ==
  [o \in DOMAIN NeedsOf |->
     CASE o = "mode" -> s.mode
       [] o = "encryption" -> IF s.enc = "" THEN "none" ELSE s.enc
       [] o = "cipher" -> s.cipher
       [] o = "_wpa_key" -> IF s.key \in Slots THEN "" ELSE s.key
       [] o = "_wep_key" -> IF s.key \in Slots THEN s.key ELSE "1"
       [] o = "ieee80211r" -> IF o \in s.extra THEN "1" ELSE "0"
       [] o = "eap_type" -> IF s.eap = "" THEN "tls" ELSE s.eap
       [] o = "ieee80211w" -> s.mfp
       [] OTHER -> "filled"]

OpenSecurity ==
  /\ answers = <<>>
  /\ untouched' = TRUE /\ mfp' = stanza.mfp
  /\ answers' = LET w == Filled(stanza) IN
              IF "ieee80211w" \in ShownOf(w) /\ stanza.mfp = ""
              THEN [w EXCEPT !["ieee80211w"] = DefaultOf(w["encryption"])] ELSE w
  /\ changes' = 0
  /\ UNCHANGED <<stanza, phrase, partly, default>>

ChangeWidget ==
  /\ answers # <<>> /\ changes < MaxChanges
  /\ \E o \in ShownOf(answers) \cap DOMAIN WidgetValues : \E v \in WidgetValues[o] \ {answers[o]} :
       IF o = "ieee80211w" THEN untouched' = FALSE /\ answers' = [answers EXCEPT ![o] = v]
       ELSE UNCHANGED untouched /\ answers' = Defaulted([answers EXCEPT ![o] = v])
  /\ changes' = changes + 1
  /\ UNCHANGED <<stanza, mfp, phrase, partly, default>>

\* parse() of the options that share an option of the section: those shown that
\* differ are written, and what is removed where they are not is by their own name.
WriteMode(s) == [s EXCEPT !.mode = answers["mode"]]
WriteEncryption(s, seen) ==
  LET e == answers["encryption"] IN
  IF "encryption" \notin seen THEN [s EXCEPT !.enc = "", !.cipher = "auto"]
  ELSE IF ~Supported(answers["mode"], e) \/ e = s.enc THEN s
  ELSE [s EXCEPT !.enc = e, !.cipher = IF "cipher" \in seen THEN answers["cipher"] ELSE "auto",
                 !.key = IF e \in Eap THEN "" ELSE @]
WriteCipher(s, seen) ==
  IF "cipher" \in seen THEN [s EXCEPT !.enc = answers["encryption"], !.cipher = answers["cipher"]] ELSE s
WritePhrase(s, seen) ==
  IF "_wpa_key" \in seen /\ answers["_wpa_key"] # ""
  THEN [s EXCEPT !.key = answers["_wpa_key"]] ELSE s
RemovesKey(s, seen) == [s EXCEPT !.key = IF "_wep_key" \in seen THEN answers["_wep_key"] ELSE ""] \* mutant
WriteSlot(s, seen) ==
  IF "_wep_key" \in seen THEN [s EXCEPT !.key = answers["_wep_key"]] ELSE s
WriteRest(s, seen) ==
  [s EXCEPT !.mfp = IF "ieee80211w" \in seen THEN answers["ieee80211w"] ELSE "",
            !.eap = IF "eap_type" \in seen THEN answers["eap_type"] ELSE "",
            !.extra = (seen \ DOMAIN WidgetValues)
                      \cup (IF answers["ieee80211r"] = "1" THEN seen \cap {"ieee80211r"} ELSE {})]
StanzaParsed(s, seen) ==
  WriteRest(WriteSlot(WritePhrase(WriteCipher(WriteEncryption(WriteMode(s), seen), seen), seen), seen), seen)

\* A save that is refused has written what is valid, and with a cipher the encryption.
SaveDialog ==
  LET seen == ShownOf(answers)
      refused == "encryption" \in seen /\ ~Supported(answers["mode"], answers["encryption"])
  IN
  /\ answers # <<>>
  /\ stanza' = StanzaParsed(stanza, seen)
  /\ partly' = IF refused THEN "now" ELSE IF partly = "now" THEN "once" ELSE partly
  /\ IF refused THEN UNCHANGED <<answers, phrase, default>>
     ELSE /\ answers' = <<>>
          /\ phrase' = IF "_wpa_key" \in seen THEN answers["_wpa_key"] ELSE ""
          /\ default' = ("ieee80211w" \in seen /\ untouched /\ mfp = "")
  /\ UNCHANGED <<untouched, mfp, changes>>

CloseDialog ==
  /\ answers # <<>> /\ answers' = <<>>
  /\ UNCHANGED <<stanza, untouched, mfp, changes, phrase, partly, default>>

SecurityNext == OpenSecurity \/ ChangeWidget \/ SaveDialog \/ CloseDialog
SecuritySpec == SecurityInit /\ [][SecurityNext]_securityVars

-----------------------------------------------------------------------------
(* Properties, of a section that no refused save has left half written *)

\* The key is the one that was shown, a slot with WEP, none with EAP (unless EAP was
\* written by a save that was refused); keys of slots are there only with WEP.
KeyFits ==
  /\ phrase # "" => stanza.key = phrase
  /\ stanza.enc \in Wep => stanza.key \in Slots
  /\ stanza.enc \in Eap /\ partly = "no" => stanza.key = ""
  /\ "key1" \in stanza.extra => stanza.enc \in Wep

\* What is in the section is shown when the dialog is opened again, nothing else.
NothingHidden ==
  LET seen == ShownOf(Filled(stanza)) IN
  seen \ DOMAIN WidgetValues \subseteq stanza.extra /\ stanza.extra \subseteq seen

\* The mode can have the encryption, also where the mode was changed after it.
EncryptionFits == Supported(stanza.mode, IF stanza.enc = "" THEN "none" ELSE stanza.enc)

\* Where nothing was stored or chosen frames are protected as the encryption asks.
ProtectedByDefault == default => stanza.mfp = DefaultOf(stanza.enc)

SecuritySound == partly # "now" => KeyFits /\ NothingHidden /\ EncryptionFits /\ ProtectedByDefault
=============================================================================
