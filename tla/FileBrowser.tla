----------------------------- MODULE FileBrowser -----------------------------
(***************************************************************************)
(* The file picker (ui.js: UIFileUpload).  A button with the name of the   *)
(* file selected opens a listing of a directory, with links to select a    *)
(* file or enter a directory and buttons to delete and to upload.  Each    *)
(* waits for the router, and meanwhile the user goes on.  An answer to a   *)
(* deletion or an upload lists the directory again, by way of the element  *)
(* that was clicked: that one may be gone from the page by then.           *)
(* The form never calls setValue().                                        *)
(***************************************************************************)
EXTENDS Naturals, FiniteSets

CONSTANTS Top,    \* the directory the picker is confined to
          Dirs,   \* directories in it
          Docs,   \* files
          Folder, \* the directory of a file or directory
          Nowhere \* no file, no directory, no answer

ASSUME BrowserAssumption ==
  /\ Top \notin Dirs /\ (Dirs \cup {Top}) \cap Docs = {}
  /\ Nowhere \notin Dirs \cup Docs \cup {Top}
  /\ Folder \in [Dirs \cup Docs -> Dirs \cup {Top}]

VARIABLES
  disk,    \* the files and directories there are
  picker,  \* the widget: see BrowserInit
  calls,   \* requests under way
  another, \* is another picker of the page open?
  excused  \* history: the file selected may be missing, see GoneForCause

pickerVars == <<disk, picker, calls, another, excused>>

Entries == Dirs \cup Docs
CallIds == 1..2 \* bound: requests at a time
NoCall == [op |-> "none"]

\* "mark" is the row shown as selected, with its button Deselect; "stat" the file
\* that the picker found or was given last, which tells it where to open.
BrowserInit ==
  \E found \in SUBSET Entries, v \in Docs \cup {Nowhere} :
    /\ \A e \in found : Folder[e] \in found \cup {Top}
    /\ disk = found
    /\ picker = [value |-> v, label |-> v, stat |-> IF v \in found THEN v ELSE Nowhere,
                 open |-> FALSE, dir |-> Top, rows |-> {}, mark |-> Nowhere]
    /\ calls = [c \in CallIds |-> NoCall]
    /\ another = FALSE
    /\ excused = (v \notin found)

-----------------------------------------------------------------------------
(* Requests *)

\* "here": is the element that was clicked still part of the page?
Request(op, at) == [op |-> op, at |-> at, here |-> TRUE, got |-> Nowhere]
Free(c) == calls[c] = NoCall /\ \A d \in CallIds : d < c => calls[d] # NoCall
Under(op, at) == \E c \in CallIds : calls[c] # NoCall /\ calls[c].op = op /\ calls[c].at = at

\* The rows, or all of the listing, are replaced.
Detached(ops, cs) ==
  [c \in CallIds |-> IF cs[c] # NoCall /\ cs[c].op \in ops THEN [cs[c] EXCEPT !.here = FALSE] ELSE cs[c]]
RowsGone(cs) == Detached({"delete"}, cs)
ListingGone(cs) == Detached({"delete", "upload"}, cs)

Content(d, found) == {e \in found : Folder[e] = d}

\* fs.list() resolves to nothing where it fails.
RouterLists(c) ==
  /\ calls[c] # NoCall /\ calls[c].op \in {"open", "list"} /\ calls[c].got = Nowhere
  /\ calls' = [calls EXCEPT ![c].got = Content(calls[c].at, disk)]
  /\ UNCHANGED <<disk, picker, another, excused>>

\* A directory goes with all that is in it.
Removed(e, found) == {x \in found : x = e \/ Folder[x] = e}

RouterDeletes(c) ==
  /\ calls[c] # NoCall /\ calls[c].op = "delete" /\ calls[c].got = Nowhere
  /\ \/ /\ calls[c].at \in disk
        /\ disk' = disk \ Removed(calls[c].at, disk)
        /\ calls' = [calls EXCEPT ![c].got = TRUE]
        /\ excused' = (excused \/ picker.value \in Removed(calls[c].at, disk) \ {calls[c].at})
     \/ calls' = [calls EXCEPT ![c].got = FALSE] /\ UNCHANGED <<disk, excused>>
  /\ UNCHANGED <<picker, another>>

RouterStores(c) ==
  /\ calls[c] # NoCall /\ calls[c].op = "upload" /\ calls[c].got = Nowhere
  /\ \/ /\ Folder[calls[c].at] \in disk \cup {Top}
        /\ disk' = disk \cup {calls[c].at}
        /\ calls' = [calls EXCEPT ![c].got = TRUE]
     \/ calls' = [calls EXCEPT ![c].got = FALSE] /\ UNCHANGED disk
  /\ UNCHANGED <<picker, another, excused>>

-----------------------------------------------------------------------------
(* The widget *)

\* renderListing()
ListingOf(p, d, list) ==
  [p EXCEPT !.dir = d, !.rows = list, !.mark = IF p.value \in list THEN p.value ELSE Nowhere]

\* dom.content(ul, spinner)
Waiting(p) == [p EXCEPT !.rows = {}, !.mark = Nowhere]
WithoutListing(p) == [p EXCEPT !.open = FALSE] \* handleCancel()
Cleared(p) == [p EXCEPT !.value = Nowhere, !.label = Nowhere]

handleFileBrowser(c) ==
  /\ ~picker.open /\ Free(c)
  /\ \A d \in CallIds : calls[d].op # "open"
  /\ calls' = [calls EXCEPT ![c] = Request("open", IF picker.stat = Nowhere THEN Top
                                                   ELSE Folder[picker.stat])]
  /\ UNCHANGED <<disk, picker, another, excused>>

\* The answer to handleFileBrowser() or handleSelect(): the first closes every
\* picker that is open and opens this one.
ListAnswer(c) ==
  /\ calls[c] # NoCall /\ calls[c].op \in {"open", "list"} /\ calls[c].got # Nowhere
  /\ LET shown == ListingOf(picker, calls[c].at, calls[c].got) IN
     IF calls[c].op = "open"
     THEN picker' = [shown EXCEPT !.open = TRUE] /\ another' = FALSE
     ELSE picker' = shown /\ UNCHANGED another
  /\ calls' = ListingGone([calls EXCEPT ![c] = NoCall])
  /\ UNCHANGED <<disk, excused>>

handleCancel ==
  /\ picker.open
  /\ picker' = WithoutListing(picker)
  /\ UNCHANGED <<disk, calls, another, excused>>

\* The button Deselect.
handleReset ==
  /\ picker.open /\ picker.mark # Nowhere
  /\ picker' = WithoutListing(Cleared(picker))
  /\ excused' = FALSE
  /\ UNCHANGED <<disk, calls, another>>

\* handleSelect() of a file.
SelectFile(f) ==
  /\ picker.open /\ f \in picker.rows \cap Docs
  /\ picker' = [WithoutListing(picker) EXCEPT !.value = f, !.label = f, !.stat = f]
  /\ excused' = (f \notin disk \/ Under("delete", f))
  /\ UNCHANGED <<disk, calls, another>>

\* handleSelect() of a directory: a row, or one of those above.
EnterDirectory(c, d) ==
  /\ picker.open /\ Free(c)
  /\ d \in (picker.rows \cap Dirs) \cup {picker.dir, Top}
  /\ picker' = Waiting(picker)
  /\ calls' = [RowsGone(calls) EXCEPT ![c] = Request("list", d)]
  /\ UNCHANGED <<disk, another, excused>>

SelectedAnyway(e) == picker \* mutant
Forgotten(e) == IF e = picker.value THEN Cleared(picker) ELSE picker

\* The button Delete, once confirmed.
handleDelete(c, e) ==
  /\ picker.open /\ e \in picker.rows /\ Free(c)
  /\ ~Under("delete", e)
  /\ picker' = Forgotten(e)
  /\ calls' = [calls EXCEPT ![c] = Request("delete", e)]
  /\ excused' = (excused /\ e # picker.value)
  /\ UNCHANGED <<disk, another>>

\* A file of that name is overwritten, once confirmed; a directory refused.
handleUpload(c, f) ==
  /\ picker.open /\ Free(c)
  /\ f \in Docs /\ Folder[f] = picker.dir
  /\ ~\E d \in CallIds : calls[d] # NoCall /\ calls[d].op = "upload" /\ calls[d].here
  /\ calls' = [calls EXCEPT ![c] = Request("upload", f)]
  /\ UNCHANGED <<disk, picker, another, excused>>

\* handleSelect() of the directory again.  Where the element clicked has gone from
\* the page it finds no listing and fails: what was deleted is reported as if it
\* had not been.
Done(c) ==
  /\ calls[c] # NoCall /\ calls[c].op \in {"delete", "upload"} /\ calls[c].got # Nowhere
  /\ IF calls[c].here /\ (calls[c].got \/ calls[c].op = "upload")
     THEN /\ picker' = Waiting(picker)
          /\ calls' = [RowsGone(calls) EXCEPT ![c] = Request("list", Folder[calls[c].at])]
     ELSE calls' = [calls EXCEPT ![c] = NoCall] /\ UNCHANGED picker
  /\ UNCHANGED <<disk, another, excused>>

\* The other picker, of which only this much matters here.
AnotherOpened ==
  /\ ~another
  /\ another' = TRUE /\ picker' = WithoutListing(picker)
  /\ UNCHANGED <<disk, calls, excused>>
AnotherClosed == another /\ another' = FALSE /\ UNCHANGED <<disk, picker, calls, excused>>

BrowserNext ==
  \/ \E c \in CallIds :
       \/ RouterLists(c) \/ RouterDeletes(c) \/ RouterStores(c)
       \/ handleFileBrowser(c) \/ ListAnswer(c) \/ Done(c)
       \/ \E d \in Dirs \cup {Top} : EnterDirectory(c, d)
       \/ \E e \in Entries : handleDelete(c, e) \/ handleUpload(c, e)
  \/ handleCancel \/ handleReset
  \/ \E f \in Docs : SelectFile(f)
  \/ AnotherOpened \/ AnotherClosed
BrowserSpec == BrowserInit /\ [][BrowserNext]_pickerVars

-----------------------------------------------------------------------------
(* Properties *)

\* The name on the button is that of the value that the form will save.
LabelTrue == picker.label = picker.value

\* Of two pickers only one is open, whichever of their listings arrives first.
OneOpen == ~(picker.open /\ another)

\* A listing never marks a file as selected while another one is.
MarkTrue == picker.open /\ picker.mark # Nowhere => picker.value \in {picker.mark, Nowhere}

\* The value names a file that is not there only if it was missing when selected
\* (the page, or a listing, was older), or went with its directory, or was
\* selected while its deletion was under way: never after an ordinary deletion.
GoneForCause == picker.value \notin disk \cup {Nowhere} => excused

BrowserSound == LabelTrue /\ OneOpen /\ MarkTrue /\ GoneForCause
=============================================================================
