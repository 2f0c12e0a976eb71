------------------------------ MODULE FormSave ------------------------------
(***************************************************************************)
(* A form over the sections of a configuration (form.js: Map, GridSection, *)
(* AbstractValue): rows on the page with some of the options, and a dialog *)
(* with all options of one row, which is a Map of its own.  Both read and  *)
(* write the page's UCI cache: load() copies values from the cache into    *)
(* the options, parse() writes what differs from the copy back, and a save *)
(* sends the cache to the device.                                          *)
(***************************************************************************)
EXTENDS Naturals, FiniteSets

CONSTANTS Sections,   \* that exist or may be added
          Opts,       \* options of a section
          PageOpts,   \* those that can be edited on the page
          Needs,      \* which option must be set to On for an option to be shown
          Mandatory,  \* options that must not be empty
          Values,     \* values of an option
          On,         \* one of them
          Bad,        \* input that is not valid
          Empty,      \* no value, an empty widget
          None        \* no section

ASSUME NeedsAssumption == /\ PageOpts \subseteq Opts
                          /\ Needs \in [Opts -> Opts \cup {Empty}]
                          /\ \A o \in PageOpts : Needs[o] \in PageOpts \cup {Empty}
                          /\ On \in Values /\ {Bad, Empty} \cap Values = {}
                          /\ None \notin Sections

VARIABLES
  device,  \* what the device has: a value for each option of each section
  cache,   \* the same in the page's UCI cache
  copy,    \* data: what load() read, for the map of the page and of the dialog
  input,   \* what is in the widgets
  rows,    \* the sections rendered on the page
  dialog,  \* the section edited in the dialog
  added,   \* addedSection: the section that was added by opening the dialog
  saving,  \* the map being saved, and what of its inputs and sections is to arrive
  failed,  \* history: did a save fail since all was loaded?
  before   \* history: the cache when the dialog was opened

formVars == <<device, cache, copy, input, rows, dialog, added, saving, failed, before>>

Maps == {"page", "dialog"}
Settings == [Opts -> Values \cup {Empty}]
Blank == [o \in Opts |-> Empty]
Configs == [Sections -> Settings \cup {None}]

In(config) == {s \in Sections : config[s] # None}
Edited(m) == IF m = "page" THEN rows ELSE {dialog} \ {None}
OptsOf(m) == IF m = "page" THEN PageOpts ELSE Opts
Loaded(config) == [s \in Sections |-> IF config[s] = None THEN Blank ELSE config[s]]
NoMap == [s \in Sections |-> Blank]

\* isActive(): an option that no widget was rendered for is not.
Active(m, s, o) ==
  /\ s \in Edited(m)
  /\ Needs[o] # Empty => input[m][s][Needs[o]] = On

NotSaving == [map |-> "none"]
FormIdle == saving = NotSaving

FormInit ==
  /\ device \in [Sections -> {Blank, None}]
  /\ cache = device
  /\ copy = [page |-> Loaded(device), dialog |-> NoMap]
  /\ input = copy
  /\ rows = In(device)
  /\ dialog = None /\ added = None
  /\ saving = NotSaving
  /\ failed = FALSE
  /\ before = device

-----------------------------------------------------------------------------
(* parse() *)

Unchecked(m, s, o) == FALSE \* mutant
Invalid(m, s, o) == Active(m, s, o) /\ input[m][s][o] = Bad
Missing(m, s, o) ==
  Active(m, s, o) /\ input[m][s][o] = Empty /\ o \in Mandatory

\* cfgsections(): the rows that the cache still has, and a section added to it
\* that no row shows.
Parsed(m, config) == IF m = "page" THEN In(config) ELSE Edited(m)

Refused(m, config) ==
  \E s \in Parsed(m, config), o \in OptsOf(m) : Invalid(m, s, o) \/ Missing(m, s, o)

\* What parse() leaves in the cache, for each option on its own: one that is
\* refused does not keep the others from being written.
WriteAlways(m, s, o, old) == IF input[m][s][o] \in Values THEN input[m][s][o] ELSE Empty \* mutant
Written(m, s, o, old) ==
  IF ~Active(m, s, o) THEN Empty
  ELSE IF Invalid(m, s, o) \/ Missing(m, s, o) THEN old
  ELSE IF input[m][s][o] = copy[m][s][o] /\ input[m][s][o] # Empty THEN old
  ELSE input[m][s][o]

AfterParse(m, config) ==
  [s \in Sections |->
     IF config[s] = None \/ s \notin Parsed(m, config) THEN config[s]
     ELSE [o \in Opts |-> IF o \in OptsOf(m) THEN Written(m, s, o, config[s][o]) ELSE config[s][o]]]

\* What a user expects of the save: what the form shows.
Demanded(m, config) ==
  [s \in Sections |->
     IF config[s] = None \/ s \notin Edited(m) THEN config[s]
     ELSE [o \in Opts |->
             IF o \notin OptsOf(m) THEN config[s][o]
             ELSE IF Active(m, s, o) THEN input[m][s][o] ELSE Empty]]

\* save() up to the request.  What parse() refused is reported in a dialog that
\* takes the place of the one being edited, or not at all after a button of
\* the page.
SaveForm(m, config) ==
  /\ cache' = AfterParse(m, config)
  /\ IF Refused(m, config)
     THEN /\ failed' = TRUE
          /\ dialog' = None
          /\ added' = IF m = "dialog" THEN None ELSE added
          /\ UNCHANGED saving
     ELSE /\ saving' = [map |-> m, demanded |-> Demanded(m, config)]
          /\ UNCHANGED <<failed, dialog, added>>

-----------------------------------------------------------------------------
(* The user *)

\* A dialog that is closed takes its map with it.
WithDialog(maps) == IF dialog' = None THEN [maps EXCEPT !.dialog = NoMap] ELSE maps

Type(m, s, o, v) ==
  /\ FormIdle /\ s \in Edited(m) /\ o \in OptsOf(m) /\ Active(m, s, o)
  /\ m = "page" => dialog = None
  /\ input[m][s][o] # v
  /\ input' = [input EXCEPT ![m][s][o] = v]
  /\ UNCHANGED <<device, cache, copy, rows, dialog, added, saving, failed, before>>

Save(m) ==
  /\ FormIdle /\ (m = "dialog" <=> dialog # None)
  /\ SaveForm(m, cache)
  /\ copy' = WithDialog(copy) /\ input' = WithDialog(input)
  /\ UNCHANGED <<device, rows, before>>

\* reset(): the widgets are rendered again from the copies.
Reset ==
  /\ FormIdle /\ dialog = None
  /\ input' = [input EXCEPT !.page = copy.page]
  /\ rows' = In(cache)
  /\ UNCHANGED <<device, cache, copy, dialog, added, saving, failed, before>>

\* The buttons to remove a row, and to add one in a section without dialog.
RemoveRow(s) ==
  /\ FormIdle /\ dialog = None /\ s \in rows
  /\ SaveForm("page", [cache EXCEPT ![s] = None])
  /\ UNCHANGED <<device, copy, input, rows, before>>

AddRow(s) ==
  /\ FormIdle /\ dialog = None /\ cache[s] = None
  /\ SaveForm("page", [cache EXCEPT ![s] = Blank])
  /\ UNCHANGED <<device, copy, input, rows, before>>

\* renderMoreOptionsModal() makes a new map and loads it.
OpenDialog(s, config) ==
  /\ dialog' = s
  /\ copy' = [copy EXCEPT !.dialog = Loaded(config)]
  /\ input' = [input EXCEPT !.dialog = Loaded(config)]

EditRow(s) ==
  /\ FormIdle /\ dialog = None /\ s \in rows /\ cache[s] # None
  /\ OpenDialog(s, cache)
  /\ before' = cache
  /\ UNCHANGED <<device, cache, rows, added, saving, failed>>

\* The add button of a grid.
AddInDialog(s) ==
  /\ FormIdle /\ dialog = None /\ cache[s] = None
  /\ cache' = [cache EXCEPT ![s] = Blank]
  /\ added' = s
  /\ OpenDialog(s, cache')
  /\ before' = cache
  /\ UNCHANGED <<device, rows, saving, failed>>

AddedWhenSaved == None

KeepAdded == cache \* mutant
WithoutAdded == IF added = None THEN cache ELSE [cache EXCEPT ![added] = None]

\* handleModalCancel()
Dismiss ==
  /\ FormIdle /\ dialog # None
  /\ cache' = WithoutAdded
  /\ added' = None /\ dialog' = None
  /\ copy' = WithDialog(copy) /\ input' = WithDialog(input)
  /\ UNCHANGED <<device, rows, saving, failed, before>>

-----------------------------------------------------------------------------
(* The request, and what follows it *)

OnlyDialog == "dialog" \* mutant
AlsoLoaded == "page"

\* uci.save() has brought the device to what the cache says and loaded it; the
\* map is loaded and rendered.  After the dialog also the map of the page is.
Saved ==
  LET m == saving.map IN
  /\ ~FormIdle
  /\ device' = cache
  /\ dialog' = None
  /\ copy' = WithDialog([copy EXCEPT ![m] = Loaded(cache), ![AlsoLoaded] = Loaded(cache)])
  /\ input' = WithDialog([input EXCEPT ![m] = copy'[m], !.page = copy'.page])
  /\ rows' = In(cache)
  /\ added' = IF m = "dialog" THEN AddedWhenSaved ELSE added
  /\ saving' = NotSaving
  /\ failed' = FALSE
  /\ UNCHANGED <<cache, before>>

\* The request, or its answer, is lost.
SaveFails ==
  /\ ~FormIdle
  /\ device' \in {device, cache}
  /\ saving' = NotSaving
  /\ failed' = TRUE
  /\ dialog' = None
  /\ copy' = WithDialog(copy) /\ input' = WithDialog(input)
  /\ added' = IF saving.map = "dialog" THEN None ELSE added
  /\ UNCHANGED <<cache, rows, before>>

FormNext ==
  \/ \E m \in Maps, s \in Sections, o \in Opts, v \in Values \cup {Bad, Empty} : Type(m, s, o, v)
  \/ \E m \in Maps : Save(m)
  \/ \E s \in Sections : RemoveRow(s) \/ AddRow(s) \/ EditRow(s) \/ AddInDialog(s)
  \/ Reset \/ Dismiss \/ Saved \/ SaveFails

FormSpec == FormInit /\ [][FormNext]_formVars

-----------------------------------------------------------------------------
(* Properties *)

\* No invalid value gets into the cache or to the device, though a save that is
\* refused writes part of the form, and the next one sends it.
FormTypeOK ==
  /\ device \in Configs /\ cache \in Configs
  /\ \A m \in Maps : copy[m] \in [Sections -> Settings]
  /\ rows \subseteq Sections
  /\ {dialog, added} \subseteq Sections \cup {None}

\* Unless a save failed, the page shows the sections there are, and what it
\* compares its widgets with is what the cache has, also after the dialog,
\* a map of its own, has changed the same sections.
CopiesFresh ==
  FormIdle /\ ~failed /\ dialog = None =>
    rows = In(cache) /\ copy.page = Loaded(cache)

\* A save that ends well brought what the form showed to the device: options
\* that are hidden are gone, those not in the form are as they were.  After a
\* failed save of the page that does not hold: what is set back to the value
\* that was loaded is not written over what the failed save left in the cache.
SaveAsShown ==
  [][ ~FormIdle /\ FormIdle' /\ ~failed' /\ (failed => saving.map = "dialog")
        => device' = saving.demanded ]_formVars

\* Dismissing a dialog leaves the configuration as it was when the dialog was
\* opened: the row added for it goes, any other stays.
DismissRestores == [][ dialog # dialog' /\ Dismiss => cache' = before ]_formVars

\* What the widgets are compared with is valid and is what the cache has.
FormSound == FormTypeOK /\ CopiesFresh

\* A save brings what is shown to the device, a dismissed dialog nothing.
SavedOrRestored == SaveAsShown /\ DismissRestores
=============================================================================
