SPECIFICATION FormsSpec
CONSTANTS
  Networks = {lan, wan}
  Wifis = {w1}
  Attached = {r1}
  ZoneIds = {1, 2}
  ZoneNames = {Lan, Wan}
  Absent = Absent
  MaxRules = 1
  Options = {1, 2, 3, 4}
  MaxNeeds = 2
  Sections = {s1}
  Opts = {mode, key}
  PageOpts = {mode}
  mode = mode
  key = key
  Needs <- FormNeeds
  Mandatory = {key}
  Values = {On, Off}
  On = On
  Bad = Bad
  Empty = Empty
  None = None
  Vlans = {v1, v2}
  Ids = {1, 2, 3}
  Cpu = cpu
  SwitchPorts = {cpu, p}
  Interfaces = {trunk}
  NoId = NoId
  Bare = Bare
  NoVlan = NoVlan
  MaxInputs = 2
  s1 = s1
  name = name
  flag = flag
  text = text
  Parts <- LegacyParts
  Fields <- LegacyFields
  Required = {name}
  Flags = {flag}
  Texts = {a}
  Wrong = Wrong
  NotSent = NotSent
  Unset = Unset
  Gone = Gone
  MaxOthers = 2
  LastField = 3
  FieldTexts = {on, off}
  NoText = NoText
  ca = ca
  cb = cb
  Offered <- WidgetChoices
  Customs = {cc}
  Placeholder = Placeholder
  Radios <- SomeRadios
  Channels <- RadioChannels
  Unoffered = Unoffered
  Never = Never
  sub = sub
  doc1 = doc1
  doc2 = doc2
  Top = Top
  Dirs = {sub}
  Docs = {doc1, doc2}
  Folder <- FolderOf
  Nowhere = Nowhere
  Idle = Idle
  pane1 = pane1
  pane2 = pane2
  pane3 = pane3
  Layouts <- PaneLayouts
  NoPane = NoPane
  Types <- FieldTypes
  Contents <- FieldContents
  SectionTypes <- SectionKinds
  MaxItems = 2
  MaxNumber = 2
  MaxIndex = 3
  Files <- SomeFiles
  NoFile = NoFile
  WifiModes = {"ap", "sta", "mesh"}
  Encryptions = {"none", "wep-open", "psk2", "sae", "wpa2"}
  Lacking <- ProgramsLacking
  Phrases = {"k"}
  MaxChanges = 2
  Sheets <- AllForms
  MaxEdits = 2
  Exchanges = {x1, x2}
  Lists = {"p", "q"}
  Installed = "i"
  OfUser = "u"
  NoList = NoList
  MaxFlashed = 2
  MaxPings = 2
  Readings <- SomeReadings
  Kept = 3
  Wanted = 4
  LastTime = 7
  Hosts = {"a", "b", "c"}
  Flows <- SomeFlows
  MaxAsked = 2
  Lookups = {l1, l2}
  NoName = NoName
  Ifaces = {i1, i2}
  NoRow = NoRow
  MaxPresses = 3
  RadioRows = {ra, rb}
  Stations = {t1, t2}
  NoScan = NoScan
  RadioLayouts <- SomeLayouts
  MaxSid = 3
  ra = ra
  rb = rb
INVARIANTS PartsSound DataSound RefsHold ShownAsNeeded CopiesHold DevicesHold StateHolds  ShowsWhatIs
PROPERTIES TabRestored InterfacesFollow SavedOrRestored SetAsAsked
CHECK_DEADLOCK FALSE
SYMMETRY NameSymmetry
