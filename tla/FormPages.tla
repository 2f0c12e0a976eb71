------------------------------ MODULE FormPages ------------------------------
(***************************************************************************)
(* The management pages in the browser and the forms of the legacy         *)
(* framework.  There are pages that only list their options, and parts of  *)
(* pages with a state of their own: the picker of files, tabs, the types   *)
(* of values, forms over data of the page, the upload of firmware and      *)
(* backups, the dialog of a wireless network.  There are pages that ask    *)
(* again and again: the attended upgrade, graphs, names of connections,    *)
(* the tables of interfaces and of radios.  And there are forms whose      *)
(* sections refer to each other.  Each is used by itself, and they share   *)
(* no state: "form" tells which one a behaviour is of, and the variables   *)
(* of the others are Idle.                                                 *)
(***************************************************************************)
EXTENDS FileBrowser, Tabs, Validation, JsonConfig, Firmware, WifiDialog,
        OptionForm, NetworkSheets, ServiceSheets, AttendedUpgrade, StatusPages,
        IfaceRows, RadioPages, NetworkRefs, FormDepends, FormSave, SwitchVlan,
        LegacyForm, Widgets, TLC

-----------------------------------------------------------------------------
(* Parts of pages *)

CONSTANTS sub, doc1, doc2,     \* a directory and files
          pane1, pane2, pane3, \* panes of a tab group
          Idle                 \* the value of a variable that is not used

VARIABLE form

AllForms == ProtocolForms @@ FirewallForms @@ NetworkForms @@ SystemForms @@ ApplicationForms

partsVars == <<pickerVars, tabVars, checkVars, jsonVars, flashVars, securityVars, sheetVars>>
InterfaceForms == {"picker", "tabs", "types", "json", "flash", "security", "sheet"}

FolderOf == sub :> Top @@ doc1 :> sub @@ doc2 :> Top
PaneLayouts == {<<pane1, pane2, pane3>>, <<pane1, pane3>>}
FieldTypes == Trees1 \cup Trees2 \cup Trees3
OneWord == {<<Word(n, t)>> : n \in BOOLEAN, t \in Words} \cup {<<Word(TRUE, NoWord)>>}
TwoWords == {<<Word(n, "24"), Word(FALSE, u)>> : n \in BOOLEAN, u \in {"24", "addr/99"}}
FieldContents == OneWord \cup TwoWords
SectionKinds == <<"A", "B">>
SomeFiles == {[valid |-> TRUE, forceable |-> TRUE, fits |-> TRUE, backup |-> TRUE],
              [valid |-> TRUE, forceable |-> TRUE, fits |-> FALSE, backup |-> FALSE],
              [valid |-> FALSE, forceable |-> TRUE, fits |-> TRUE, backup |-> TRUE],
              [valid |-> FALSE, forceable |-> FALSE, fits |-> TRUE, backup |-> FALSE]}
ProgramsLacking == {<<"sta", "sae">>}

PartsInit ==
  /\ IF form = "picker" THEN BrowserInit
     ELSE disk = Idle /\ picker = Idle /\ calls = Idle /\ another = Idle /\ excused = Idle
  /\ IF form = "tabs" THEN TabsInit
     ELSE /\ panes = Idle /\ option = Idle /\ menu = Idle /\ opened = Idle
          /\ kept = Idle /\ chosen = Idle /\ refused = Idle /\ thrown = Idle
  /\ IF form = "types" THEN CheckInit
     ELSE /\ datatype = Idle /\ tree = Idle /\ optional = Idle
          /\ entered = Idle /\ invalid = Idle /\ verdict = Idle
  /\ IF form = "json" THEN JsonInit ELSE items = Idle /\ order = Idle /\ raised = Idle
  /\ IF form = "flash" THEN FlashInit
     ELSE /\ job = Idle /\ stage = Idle /\ uploaded = Idle /\ described = Idle /\ keep = Idle
          /\ force = Idle /\ tmp = Idle /\ router = Idle /\ meddled = Idle
  /\ IF form = "security" THEN SecurityInit
     ELSE /\ stanza = Idle /\ answers = Idle /\ untouched = Idle /\ mfp = Idle
          /\ changes = Idle /\ phrase = Idle /\ partly = Idle /\ default = Idle
  /\ IF form = "sheet" THEN SheetInit
     ELSE /\ sheet = Idle /\ settings = Idle /\ loaded = Idle
          /\ widgets = Idle /\ edits = Idle /\ left = Idle

PartsNext ==
  \/ form = "picker" /\ BrowserNext
     /\ UNCHANGED <<tabVars, checkVars, jsonVars, flashVars, securityVars, sheetVars>>
  \/ form = "tabs" /\ TabsNext
     /\ UNCHANGED <<pickerVars, checkVars, jsonVars, flashVars, securityVars, sheetVars>>
  \/ form = "types" /\ CheckNext
     /\ UNCHANGED <<pickerVars, tabVars, jsonVars, flashVars, securityVars, sheetVars>>
  \/ form = "json" /\ JsonNext
     /\ UNCHANGED <<pickerVars, tabVars, checkVars, flashVars, securityVars, sheetVars>>
  \/ form = "flash" /\ FlashNext
     /\ UNCHANGED <<pickerVars, tabVars, checkVars, jsonVars, securityVars, sheetVars>>
  \/ form = "security" /\ SecurityNext
     /\ UNCHANGED <<pickerVars, tabVars, checkVars, jsonVars, flashVars, sheetVars>>
  \/ form = "sheet" /\ SheetNext
     /\ UNCHANGED <<pickerVars, tabVars, checkVars, jsonVars, flashVars, securityVars>>

\* The picker, tabs and the upload of firmware keep what they promise.
PartsSound ==
  /\ form = "picker" => BrowserSound
  /\ form = "tabs" => TabsSound
  /\ form = "flash" => FlashSound

\* So do the types of values, and the options that are stored and listed.
DataSound ==
  /\ form = "types" => ValidSound
  /\ form = "json" => ListedInOrder
  /\ form = "security" => SecuritySound
  /\ form = "sheet" => SheetSound

-----------------------------------------------------------------------------
(* Pages that poll *)

CONSTANTS ra, rb \* radios

pollVars == <<upgradeVars, graphVars, lookupVars, rowVars, tableVars, radioVars>>
PollForms == {"upgrade", "graphs", "names", "interfaces", "radios", "networks"}

\* Speeds, a counter that is reset, a jump; loads.
SomeReadings == <<<<10, 12, 16, 20, 20, 26, 30>>, <<5, 50, 17, 16, 0, 20, 99>>, <<10, 12, 22, 32, 4, 6, 8>>>>
SomeFlows == {<<"a", "b">>, <<"b", "a", "c">>}
\* Networks of one radio, of two, and some without a name.
SomeLayouts == {0 :> ra @@ 2 :> ra @@ 1 :> rb, (0 - 2) :> ra @@ (0 - 1) :> rb @@ 1 :> ra}

PollInit ==
  /\ IF form = "upgrade" THEN UpgradeInit
     ELSE /\ facts = Idle /\ prefs = Idle /\ begun = Idle /\ button = Idle /\ editable = Idle
          /\ edited = Idle /\ packages = Idle /\ dict = Idle /\ exchange = Idle /\ built = Idle
          /\ file = Idle /\ flashed = Idle /\ machine = Idle /\ pings = Idle /\ doubled = Idle
          /\ prompt = Idle
  /\ IF form = "graphs" THEN GraphInit
     ELSE /\ status = Idle /\ ring = Idle /\ stamp = Idle /\ fill = Idle /\ values = Idle
          /\ samples = Idle /\ sums = Idle /\ first = Idle /\ missed = Idle
  /\ IF form = "names" THEN LookupsInit
     ELSE /\ enabled = Idle /\ waits = Idle /\ dns_cache = Idle /\ recheck = Idle /\ lookup = Idle
          /\ idle = Idle /\ misses = Idle /\ unnamed = Idle /\ crossed = Idle
  /\ IF form = "interfaces" THEN RowsInit
     ELSE /\ row = Idle /\ up = Idle /\ inbound = Idle /\ asking = Idle /\ question = Idle
          /\ poll = Idle /\ states = Idle /\ wish = Idle /\ agreed = Idle /\ commands = Idle
          /\ replaced = Idle /\ presses = Idle
  /\ IF form = "radios" THEN TableInit
     ELSE mark = Idle /\ polling = Idle /\ due = Idle /\ late = Idle /\ unasked = Idle /\ scan = Idle
  /\ IF form = "networks" THEN RadioInit
     ELSE /\ wireless = Idle /\ saved = Idle /\ labels = Idle /\ adding = Idle /\ wanted = Idle
          /\ roused = Idle /\ leftover = Idle /\ contrary = Idle /\ total = Idle

PollNext ==
  \/ form = "upgrade" /\ UpgradeNext
     /\ UNCHANGED <<graphVars, lookupVars, rowVars, tableVars, radioVars>>
  \/ form = "graphs" /\ GraphNext
     /\ UNCHANGED <<upgradeVars, lookupVars, rowVars, tableVars, radioVars>>
  \/ form = "names" /\ LookupsNext
     /\ UNCHANGED <<upgradeVars, graphVars, rowVars, tableVars, radioVars>>
  \/ form = "interfaces" /\ RowsNext
     /\ UNCHANGED <<upgradeVars, graphVars, lookupVars, tableVars, radioVars>>
  \/ form = "radios" /\ TableNext
     /\ UNCHANGED <<upgradeVars, graphVars, lookupVars, rowVars, radioVars>>
  \/ form = "networks" /\ RadioNext
     /\ UNCHANGED <<upgradeVars, graphVars, lookupVars, rowVars, tableVars>>

\* Each page does what it was asked for, at the time and once.
PagesKeepUp ==
  /\ form = "upgrade" => UpgradeSound
  /\ form = "interfaces" => RowsSound
  /\ form = "radios" => TablesSound

\* What a page or a widget shows is what was answered, stored or selected.
ShowsWhatIs ==
  /\ form = "widget" => WidgetSound
  /\ form = "graphs" => GraphsSound
  /\ form = "names" => NamesSound
  /\ form = "networks" => SwitchedSound

-----------------------------------------------------------------------------
(* Forms, and all of them *)

CONSTANTS mode, key,           \* options of a form
          ca, cb,              \* choices of a dropdown
          s1, name, flag, text \* a section of a legacy form, its options

browserVars == <<refVars, depVars, formVars, vlanVars, widgetVars, freqVars>>
frameworkVars == <<legacyVars, dependVars>>
formsVars == <<form, partsVars, pollVars, browserVars, frameworkVars>>

Forms == InterfaceForms \cup PollForms \cup
         {"refs", "depends", "save", "switch", "legacy", "fields", "widget", "wifi"}

FormNeeds == mode :> Empty @@ key :> mode
LegacyParts == <<s1>>
LegacyFields == <<name, flag, text>>

\* Interfaces and zones of a firewall are interchangeable.
NameSymmetry == Permutations(Networks) \cup Permutations(ZoneNames)

WidgetChoices == <<ca, cb>>
RadioChannels == "11g" :> <<"1", "6">> @@ "11a" :> <<"36">>
SomeRadios == {[modes |-> {"", "n", "ac"}, widths |-> {"", "HT20", "HT40", "VHT80"}, acs |-> FALSE],
               [modes |-> {"", "n"}, widths |-> {"", "HT20"}, acs |-> FALSE],
               [modes |-> {""}, widths |-> {""}, acs |-> TRUE]}

FormsInit ==
  /\ form \in Forms
  /\ PartsInit
  /\ PollInit
  /\ IF form = "refs" THEN RefInit
     ELSE /\ interfaces = Idle /\ wifi = Idle /\ attached = Idle /\ zoneName = Idle
          /\ covers = Idle /\ policies = Idle /\ chains = Idle /\ asked = Idle
  /\ IF form = "save" THEN FormInit
     ELSE /\ device = Idle /\ cache = Idle /\ copy = Idle /\ input = Idle /\ rows = Idle
          /\ dialog = Idle /\ added = Idle /\ saving = Idle /\ failed = Idle /\ before = Idle
  /\ IF form = "switch" THEN SwitchInit
     ELSE vlans = Idle /\ carrier = Idle /\ table = Idle /\ inDevice = Idle /\ inputs = Idle
  /\ IF form = "legacy" THEN LegacyInit
     ELSE staged = Idle /\ page = Idle /\ post = Idle /\ others = Idle /\ quiet = Idle /\ found = Idle
  /\ IF form = "widget" THEN WidgetInit ELSE kind = Idle /\ widget = Idle
  /\ IF form = "fields" THEN DependInit
     ELSE conditions = Idle /\ content = Idle /\ shown = Idle /\ updating = Idle /\ rounds = Idle
  /\ IF form = "wifi" THEN FreqInit
     ELSE radio = Idle /\ stored = Idle /\ freq = Idle /\ touched = Idle /\ watched = Idle /\ picked = Idle
  /\ IF form = "depends" THEN DepInit
     ELSE needs = Idle /\ on = Idle /\ visible = Idle /\ checked = Idle

BrowserForms ==
  \/ /\ form = "refs" /\ RefNext
     /\ UNCHANGED <<depVars, formVars, vlanVars, widgetVars, freqVars>>
  \/ /\ form = "depends" /\ DepNext
     /\ UNCHANGED <<refVars, formVars, vlanVars, widgetVars, freqVars>>
  \/ /\ form = "save" /\ FormNext
     /\ UNCHANGED <<refVars, depVars, vlanVars, widgetVars, freqVars>>
  \/ /\ form = "switch" /\ SwitchNext
     /\ UNCHANGED <<refVars, depVars, formVars, widgetVars, freqVars>>
  \/ /\ form = "widget" /\ WidgetNext
     /\ UNCHANGED <<refVars, depVars, formVars, vlanVars, freqVars>>
  \/ /\ form = "wifi" /\ FreqNext
     /\ UNCHANGED <<refVars, depVars, formVars, vlanVars, widgetVars>>

FrameworkForms ==
  \/ form = "legacy" /\ LegacyNext /\ UNCHANGED dependVars
  \/ form = "fields" /\ DependNext /\ UNCHANGED legacyVars

FormsNext ==
  \/ PartsNext /\ UNCHANGED <<form, pollVars, browserVars, frameworkVars>>
  \/ PollNext /\ UNCHANGED <<form, partsVars, browserVars, frameworkVars>>
  \/ BrowserForms /\ UNCHANGED <<form, partsVars, pollVars, frameworkVars>>
  \/ FrameworkForms /\ UNCHANGED <<form, partsVars, pollVars, browserVars>>

FormsSpec == FormsInit /\ [][FormsNext]_formsVars

-----------------------------------------------------------------------------
(* What each of the forms promises: see its module. *)

\* Interfaces, zones, wireless networks and rules that refer to each other.
RefsHold == form = "refs" => RefsSound

\* In both frameworks the options shown are those whose dependencies are met.
ShownAsNeeded == /\ form = "depends" => ShownIfSatisfied
                 /\ form = "fields" => Settled

\* Saving a page and a dialog over a copy of its data.
CopiesHold == form = "save" => FormSound

\* The table of VLANs on the router has no conflict, and the frequency of a radio
\* that nobody touched stays.
DevicesHold ==
  /\ form = "switch" => VlanIdsUnique /\ UntaggedOnce
  /\ form = "wifi" => FrequencyKept

\* What a form of the legacy framework reports is what it did.
StateHolds == form = "legacy" => StateTrue
=============================================================================
