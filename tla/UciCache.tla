------------------------------ MODULE UciCache ------------------------------
(***************************************************************************)
(* The page's copy of a configuration file (uci.js): edits are noted in    *)
(* creates, changes and deletes on top of the loaded values until save()   *)
(* sends them to the device as one batch of calls, has the sections put in *)
(* order, forgets its notes and loads the file again.                      *)
(*                                                                         *)
(* Nothing locks the page meanwhile: it may edit, and save again, between  *)
(* any two steps of a save.  Callbacks of one HTTP answer run without      *)
(* interruption and are one step.  The .index numbers of the sections are  *)
(* kept as the order they sort in.                                         *)
(***************************************************************************)
EXTENDS UciFile

CONSTANTS Slots,    \* saves that may be under way at one time
          Edits,    \* bound: the kinds of edits the page makes
          Faults,   \* "call": calls may fail; "lost": HTTP requests may fail
          BusyEdits \* may the page edit while a save is under way?

ASSUME SwitchAssumption ==
  /\ Edits \subseteq {"set", "unset", "add", "remove", "move"}
  /\ Faults \subseteq {"call", "lost"}
  /\ BusyEdits \in BOOLEAN

VARIABLES
  remote,  \* rpcd: the file with the uncommitted delta of the session
  page,    \* uci.js: this.state for the file, and this.loaded
  save,    \* save() calls under way and their requests
  origin   \* history: the page's identifier of an anonymous section added

vars == <<remote, page, save, origin>>

-----------------------------------------------------------------------------
(* this.state: the notes of the page and what it reads through them *)

Unloaded == [loaded  |-> FALSE,
             base    |-> Empty,                    \* values
             fresh   |-> <<>>,                     \* keys of creates
             creates |-> [s \in Sids |-> Blank],
             names   |-> [s \in Sids |-> s],       \* .name of what creates holds
             changes |-> [s \in Sids |-> Blank],
             deletes |-> [s \in Sids |-> {}],      \* lists of options
             removed |-> {},                       \* sections marked true in deletes
             order   |-> <<>>,                     \* what sections() lists, by key
             touched |-> FALSE,                    \* creates, changes, deletes know the file
             reorder |-> FALSE]

Fresh(p, sid) == Contains(p.fresh, sid)

Get(p, sid, o) ==
  IF Fresh(p, sid) THEN p.creates[sid][o]
  ELSE IF sid \in p.removed \/ o \in p.deletes[sid] THEN None
  ELSE Merge(p.base.opts[sid], p.changes[sid])[o]

\* What get() tells of the file, and sections() once the file is loaded.
View(p) ==
  [secs |-> p.order,
   opts |-> [s \in Sids |-> [o \in Options |-> Get(p, s, o)]]]

UndeleteNever(p, sid, opt) == p.deletes[sid] \* mutant
Undelete(p, sid, opt) == p.deletes[sid] \ {opt}

SetOption(p, sid, opt, val) ==
  IF Fresh(p, sid) THEN [p EXCEPT !.creates[sid][opt] = val]
  ELSE IF sid \in p.removed \/ ~Has(p.base, sid) THEN p
  ELSE [p EXCEPT !.changes[sid][opt] = val,
                 !.deletes[sid] = Undelete(p, sid, opt),
                 !.touched = TRUE]

UnsetOption(p, sid, opt) ==
  IF Fresh(p, sid) THEN [p EXCEPT !.creates[sid][opt] = None]
  ELSE IF \/ sid \in p.removed
          \/ p.base.opts[sid][opt] = None /\ p.changes[sid][opt] = None
       THEN p
  ELSE [p EXCEPT !.deletes[sid] = @ \cup {opt}, !.touched = TRUE]

ChangesStay(p, sid) == p.changes[sid] \* mutant
ChangesLeft(p, sid) == Blank

AddSection(p, sid) ==
  [p EXCEPT !.fresh = Append(@, sid),
            !.creates[sid] = Blank,
            !.names[sid] = sid,
            !.order = Append(@, sid),
            !.touched = TRUE]

RemoveSection(p, sid) ==
  IF Fresh(p, sid)
  THEN [p EXCEPT !.fresh = Without(@, sid), !.creates[sid] = Blank,
                 !.names[sid] = sid, !.order = Without(@, sid)]
  ELSE IF ~Has(p.base, sid) THEN p
  ELSE [p EXCEPT !.changes[sid] = ChangesLeft(p, sid), !.deletes[sid] = {},
                 !.removed = @ \cup {sid}, !.order = Without(@, sid),
                 !.touched = TRUE]

MoveSection(p, sid1, sid2, after) ==
  [p EXCEPT !.order = Placed(@, sid1, sid2, after), !.reorder = TRUE]

\* unload(): everything but reorder is forgotten.
UnloadKeepsCreates(p) == [p EXCEPT !.loaded = FALSE, !.base = Empty] \* mutant
Unload(p) == [Unloaded EXCEPT !.reorder = p.reorder]

\* The answer of a load becomes the values; the notes made since stay.
Install(p, file) ==
  [p EXCEPT !.loaded = TRUE, !.base = file,
            !.order = Kept(file.secs, Sids \ p.removed) \o p.fresh]

-----------------------------------------------------------------------------
(* The calls of a save *)

Call(op, sid, new, gone) == [op |-> op, sid |-> sid, new |-> new, gone |-> gone]

DeleteCalls(p) ==
  SetToSeq({Call("drop", s, Blank, {}) : s \in p.removed}
           \cup {Call("unset", s, Blank, p.deletes[s]) :
                   s \in {t \in Stored : p.deletes[t] # {}}})

AddCalls(p) ==
  [i \in 1..Len(p.fresh) |-> Call("add", p.fresh[i], p.creates[p.fresh[i]], {})]

SetCalls(p) ==
  SetToSeq({Call("set", s, p.changes[s], {}) :
              s \in {t \in Stored : p.changes[t] # Blank}})

CallsDeleteLast(p) == AddCalls(p) \o SetCalls(p) \o DeleteCalls(p) \* mutant
Calls(p) == DeleteCalls(p) \o AddCalls(p) \o SetCalls(p)

\* The file belongs to the packages save() unloads and loads again.
Dirty(p) == p.touched \/ p.reorder

Idle == [pc |-> "idle", calls |-> <<>>, replies |-> <<>>, snew |-> <<>>,
         dirty |-> FALSE, names |-> <<>>, file |-> Empty,
         want |-> Empty,                 \* history: the view at the start,
         clean |-> TRUE, plain |-> TRUE] \* is it still wanted, is it faithful

\* Something came in between: the history is not kept any longer.
Spoil(s) == [s EXCEPT !.clean = FALSE, !.want = Empty]

Active == {k \in Slots : save[k].pc # "idle"}

\* What save() takes for a name where a call returned none.
NoNameStatus == 0 \* mutant
NoName == None

\* Section i of snew gets reply i of the batch as its name.
Renamed(p, s) ==
  [p EXCEPT !.names = [sid \in Sids |->
     IF Fresh(p, sid) /\ Contains(s.snew, sid)
     THEN s.replies[PlaceIn(s.snew, sid)]
     ELSE @[sid]]]

\* .name of all sections in the order of their .index; removed ones, which the
\* code names too, are unknown to the device by then and left out.
NamesInOrder(p) == [i \in 1..Len(p.order) |-> p.names[p.order[i]]]

-----------------------------------------------------------------------------
\* Bound: the file begins empty or with a named and an anonymous section.
FirstFile(secs, opts) ==
  [secs |-> secs, opts |-> [s \in Sids |-> IF Contains(secs, s) THEN opts[s] ELSE Blank]]

Init ==
  /\ \E secs \in {<<>>} \cup (Named \X Pool), opts \in [Stored -> Sections] :
       remote = FirstFile(secs, opts)
  /\ page = Install(Unloaded, remote)
  /\ save = [k \in Slots |-> Idle]
  /\ origin = [s \in Pool |-> None]

(* Edits of the page *)

\* An edit now is not part of what the saves under way were to bring about.
Spoiled == [k \in Slots |-> IF save[k].pc = "idle" THEN Idle
                            ELSE Spoil(save[k])]

\* A view edits the sections it lists.
Editing(kind, sid) ==
  /\ kind \in Edits
  /\ BusyEdits \/ Active = {}
  /\ Contains(page.order, sid)
  /\ save' = Spoiled
  /\ UNCHANGED remote

PageSet(sid, o, v) ==
  /\ Editing("set", sid)
  /\ page' = SetOption(page, sid, o, v)
  /\ UNCHANGED origin

PageUnset(sid, o) ==
  /\ Editing("unset", sid)
  /\ page' = UnsetOption(page, sid, o)
  /\ UNCHANGED origin

PageRemove(sid) ==
  /\ Editing("remove", sid)
  /\ page' = RemoveSection(page, sid)
  /\ UNCHANGED origin

\* While a saved section has its new name but not yet its new key, move()
\* throws when it reaches the section: such calls are left out.
PageMove(sid, ref, after) ==
  /\ Editing("move", sid)
  /\ page.loaded /\ ref # sid /\ (ref # None => Contains(page.order, ref))
  /\ \A s \in Sids : page.names[s] = s
  /\ page' = MoveSection(page, sid, ref, after)
  /\ UNCHANGED origin

\* Bound: the device has an identifier for every section still to be added.
PoolLeft ==
  Cardinality({s \in Pool : ~Has(remote, s)})
    > Cardinality({s \in Temps : Fresh(page, s) \/ \E k \in Slots : Contains(save[k].snew, s)})

\* createSID() makes an identifier not in use; a name is not given twice.
PageAdd(sid) ==
  /\ "add" \in Edits
  /\ BusyEdits \/ Active = {}
  /\ \/ /\ sid \in Temps /\ ~Fresh(page, sid)
        /\ \A k \in Slots : ~Contains(save[k].snew, sid)
        /\ PoolLeft
     \/ sid \in Named /\ page.loaded /\ ~Contains(page.order, sid)
  /\ page' = AddSection(page, sid)
  /\ save' = Spoiled
  /\ origin' = [s \in Pool |-> IF origin[s] = sid THEN None ELSE origin[s]]
  /\ UNCHANGED remote

-----------------------------------------------------------------------------
(* save() *)

\* The second half of save(): unload() and load() the file, if it belongs to
\* the packages concerned, otherwise the save is over.
Reload(k, s, p) ==
  IF s.dirty
  THEN /\ page' = Unload(p)
       /\ save' = [save EXCEPT ![k] = [s EXCEPT !.pc = "load"]]
  ELSE /\ page' = p
       /\ save' = [save EXCEPT ![k] = Idle]

\* All calls are answered: the created sections get their names, and
\* reorderSections() sends the order if a section was moved.
Continue(k, s, p) ==
  LET q == [p EXCEPT !.reorder = FALSE] IN
  \/ /\ p.reorder /\ p.order # <<>>
     /\ page' = q
     /\ save' = [save EXCEPT ![k] = [s EXCEPT !.pc = "order", !.names = NamesInOrder(p)]]
  \/ /\ ~(p.reorder /\ p.order # <<>>)
     /\ Reload(k, s, q)

\* The notes save() carries over as they are meant: no option is both changed
\* and deleted; no reply of a deletion stands before the names an order call
\* needs; no lost save had added sections; no order call was lost.
Faithful(p) ==
  /\ \A s \in Stored : \A o \in p.deletes[s] : p.changes[s][o] = None
  /\ p.reorder => p.fresh = <<>> \/ DeleteCalls(p) = <<>>
  /\ \A s \in Stored : Has(remote, s) => Has(p.base, s)
  /\ p.reorder \/ p.order = Install(p, remote).order

\* Bound: as many identifiers left as anonymous sections to add.
PoolSuffices ==
  Cardinality({s \in Pool : ~Has(remote, s)})
    >= Cardinality({s \in Temps : Fresh(page, s)})

SaveStart(k) ==
  /\ save[k].pc = "idle" /\ PoolSuffices
  /\ LET s == [Idle EXCEPT !.pc = "calls", !.calls = Calls(page), !.snew = page.fresh,
                           !.dirty = Dirty(page), !.want = View(page),
                           !.plain = Faithful(page)]
         t == IF page.loaded /\ Active = {} THEN s ELSE Spoil(s)
     IN IF s.calls = <<>> THEN Continue(k, t, page)
        ELSE page' = page /\ save' = [Spoiled EXCEPT ![k] = t]
  /\ UNCHANGED <<remote, origin>>

\* The first of the calls left is answered with a name.
Replied(s, name) ==
  [s EXCEPT !.calls = Tail(@), !.replies = Append(@, name),
            !.pc = IF Tail(s.calls) = <<>> THEN "answered" ELSE @]

\* The device carries out the calls of a batch one after the other; a call
\* that fails changes nothing, and the answer holds no name in its place.
ServerCall(k) ==
  /\ save[k].pc = "calls"
  /\ LET c == Head(save[k].calls)
         reply(name) == [save EXCEPT ![k] = Replied(@, name)]
     IN
     \/ /\ c.op = "drop" /\ remote' = DropFrom(remote, c.sid)
        /\ save' = reply(NoName) /\ UNCHANGED origin
     \/ /\ c.op = "unset" /\ remote' = UnsetIn(remote, c.sid, c.gone)
        /\ save' = reply(NoName) /\ UNCHANGED origin
     \/ /\ c.op = "set" /\ remote' = SetIn(remote, c.sid, c.new)
        /\ save' = reply(NoName) /\ UNCHANGED origin
     \/ /\ c.op = "add" /\ c.sid \in Named /\ remote' = AddTo(remote, c.sid, c.new)
        /\ save' = reply(c.sid) /\ UNCHANGED origin
     \/ /\ c.op = "add" /\ c.sid \in Temps
        /\ \E id \in Pool :
             /\ ~Has(remote, id)
             /\ remote' = AddTo(remote, id, c.new)
             /\ save' = reply(id)
             /\ origin' = [origin EXCEPT ![id] = c.sid]
     \/ /\ "call" \in Faults
        /\ save' = [save EXCEPT ![k] = Spoil(Replied(@, NoName))]
        /\ UNCHANGED <<remote, origin>>
  /\ UNCHANGED page

Answered(k) ==
  /\ save[k].pc = "answered"
  /\ Continue(k, save[k], Renamed(page, save[k]))
  /\ UNCHANGED <<remote, origin>>

ServerOrder(k) ==
  /\ save[k].pc = "order"
  /\ \/ /\ remote' = OrderIn(remote, save[k].names)
        /\ save' = [save EXCEPT ![k].pc = "ordered"]
     \/ /\ "call" \in Faults
        /\ save' = [save EXCEPT ![k] = [Spoil(@) EXCEPT !.pc = "ordered"]]
        /\ UNCHANGED remote
  /\ UNCHANGED <<page, origin>>

Ordered(k) ==
  /\ save[k].pc = "ordered"
  /\ Reload(k, save[k], page)
  /\ UNCHANGED <<remote, origin>>

ServerGet(k) ==
  /\ save[k].pc = "load"
  /\ save' = [save EXCEPT ![k].pc = "loaded", ![k].file = remote]
  /\ UNCHANGED <<remote, page, origin>>

Loaded(k) ==
  /\ save[k].pc = "loaded"
  /\ page' = Install(page, save[k].file)
  /\ save' = [save EXCEPT ![k] = Idle]
  /\ UNCHANGED <<remote, origin>>

\* A request that did not reach the device, or an answer, is lost: the
\* promise save() returned rejects and nothing it kept is undone.
Rejected(k) ==
  /\ "lost" \in Faults
  /\ \/ save[k].pc \in {"answered", "order", "ordered", "load", "loaded"}
     \/ save[k].pc = "calls" /\ save[k].replies = <<>>
  /\ save' = [save EXCEPT ![k] = Idle]
  /\ UNCHANGED <<remote, page, origin>>

Page == \E sid \in Sids :
          \/ PageAdd(sid)
          \/ PageRemove(sid)
          \/ \E o \in Options : PageUnset(sid, o) \/ \E v \in Values : PageSet(sid, o, v)
          \/ \E ref \in Sids \cup {None}, after \in BOOLEAN : PageMove(sid, ref, after)

Save(k) == \/ ServerCall(k) \/ Answered(k)
           \/ ServerOrder(k) \/ Ordered(k)
           \/ ServerGet(k) \/ Loaded(k)

Next == \/ Page
        \/ \E k \in Slots : SaveStart(k) \/ Save(k) \/ Rejected(k)

Spec == Init /\ [][Next]_vars

-----------------------------------------------------------------------------
(* Properties *)

Files == [secs : Seq(Sids), opts : [Sids -> Sections]]
Names == Sids \cup {None}
Pages == [loaded : BOOLEAN, base : Files, fresh : Seq(Named \cup Temps),
          creates : [Sids -> Sections], names : [Sids -> Names],
          changes : [Sids -> Sections], deletes : [Sids -> SUBSET Options],
          removed : SUBSET Stored, order : Seq(Sids),
          touched : BOOLEAN, reorder : BOOLEAN]
CallRecords == [op : {"drop", "unset", "add", "set"}, sid : Sids,
                new : Sections, gone : SUBSET Options]
Steps == {"idle", "calls", "answered", "order", "ordered", "load", "loaded"}
SaveRecords == [pc : Steps, calls : Seq(CallRecords), replies : Seq(Names),
                snew : Seq(Named \cup Temps), dirty : BOOLEAN, names : Seq(Names),
                file : Files, want : Files, clean : BOOLEAN, plain : BOOLEAN]

TypeOK == /\ remote \in Files
          /\ page \in Pages
          /\ save \in [Slots -> SaveRecords]
          /\ origin \in [Pool -> Temps \cup {None}]

\* The notes never contradict each other: a removed section keeps no other
\* note, nothing is listed twice, and what was created is listed.
NotesAgree ==
  /\ \A s \in page.removed : /\ page.changes[s] = Blank
                             /\ page.deletes[s] = {}
                             /\ Contains(page.order, s) => Fresh(page, s)
  /\ IsInjective(page.order)
  /\ \A i \in 1..Len(page.fresh) : Contains(page.order, page.fresh[i])

\* An edit shows in what get() and sections() tell next, and nothing else
\* does: however the option or the section was created, changed, deleted,
\* removed and added again before, and whatever save is under way.
EditShown ==
  [][\A sid \in Sids, o \in Options :
       /\ \A v \in Values :
            PageSet(sid, o, v)
              => View(page)' = SetIn(View(page), sid, [Blank EXCEPT ![o] = v])
       /\ PageUnset(sid, o) => View(page)' = UnsetIn(View(page), sid, {o})
       /\ PageAdd(sid) => View(page)' = AddTo(View(page), sid, Blank)
       /\ PageRemove(sid) => View(page)' = DropFrom(View(page), sid)]_vars

Brought(k) == SameUpToNew(save[k].want, save[k].file)

\* What save() leaves on the device is the file the page showed when it
\* began, also when an earlier attempt got half way; unless a call failed,
\* the page was edited meanwhile, or the notes were not faithful.
SavedIsShown ==
  \A k \in Slots :
    save[k].pc = "loaded" /\ save[k].clean /\ save[k].plain => Brought(k)

\* uci.js 514: "If the value is `null` or an empty string, the option will be
\* removed": after save() the device holds what the page showed.
SavedAlways == \A k \in Slots : save[k].pc = "loaded" /\ save[k].clean => Brought(k)

\* A section the page added once exists once on the device.
AddedOnce ==
  \A s, t \in Pool :
    /\ Has(remote, s) /\ Has(remote, t)
    /\ origin[s] = origin[t] /\ origin[s] # None
    => s = t
=============================================================================
