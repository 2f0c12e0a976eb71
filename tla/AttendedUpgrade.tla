---------------------------- MODULE AttendedUpgrade ----------------------------
(***************************************************************************)
(* The page "Attended Sysupgrade": it asks the router what is installed,   *)
(* then a server for newer packages, then for a firmware built with them,  *)
(* downloads that into the browser, uploads it to the router, has it       *)
(* flashed and waits for the router.  The server may put a request off, in *)
(* which case it is sent again; the search stays possible meanwhile.       *)
(***************************************************************************)
EXTENDS Naturals, Sequences

CONSTANTS Exchanges, \* bound: requests under way at a time
          Lists,     \* lists of packages that the server proposes
          Installed, \* the list of those installed,
          OfUser,    \* the list as edited by the user
          NoList,    \* no list
          MaxFlashed,\* bound: firmwares flashed
          MaxPings   \* ping_max

ASSUME UpgradeAssumption == MaxFlashed \in Nat /\ MaxPings \in Nat

VARIABLES
  facts,    \* calls to the router: "asked", "known", "unknown" (an answer without a
            \* result) or "silent" (none, or not with status 200)
  prefs, \* auto_search and advanced_mode
  begun,    \* has setup_ready() gone on?
  button,   \* upgrade_button: what it does, is it shown and enabled?
  editable, \* edit_button is shown
  edited,   \* data.edit_packages
  packages, \* data.packages
  dict,     \* request_dict
  exchange, \* requests of the page to the server and the router
  built,    \* data.files, data.sysupgrade: the packages of the firmware created
  file,     \* the firmware on the router
  flashed,  \* firmwares flashed
  machine,   \* "up", "starting" to flash, "down" or "new"
  pings,    \* pings left
  doubled,  \* history: a search was started before an earlier one had ended
  prompt    \* history: the router went down before the first ping

upgradeVars == <<facts, prefs, begun, button, editable, edited, packages, dict, exchange,
                 built, file, flashed, machine, pings, doubled, prompt>>
pageFacts == <<facts, prefs, begun>>
firmwareVars == <<built, file, flashed, machine, pings, prompt>>

NoExchange == [path |-> "none", at |-> "none", body |-> NoList]
Sent(path, body) == [path |-> path, at |-> "way", body |-> body]

UpgradeInit ==
  /\ facts = [f \in {"packages", "release"} |-> "asked"]
  /\ prefs \in [auto : BOOLEAN, advanced : BOOLEAN]
  /\ begun = FALSE /\ button = [does |-> "search", on |-> FALSE]
  /\ editable = FALSE /\ edited = FALSE /\ packages = NoList
  /\ dict = [installed |-> NoList, packages |-> NoList]
  /\ exchange = [x \in Exchanges |-> NoExchange]
  /\ built = NoList /\ file = NoList /\ flashed = <<>>
  /\ machine = "up" /\ pings = MaxPings /\ doubled = FALSE /\ prompt = FALSE

\* ubus_call()
AnswerCall(f) ==
  /\ facts[f] = "asked"
  /\ \E r \in {"known", "unknown", "silent"} :
       /\ facts' = [facts EXCEPT ![f] = r]
       /\ packages' = IF f = "packages" /\ r = "known" THEN Installed ELSE packages
  /\ UNCHANGED <<prefs, begun, button, editable, edited, dict, exchange, firmwareVars, doubled>>

AnyAnswer(f) == facts[f] # "asked" \* mutant
CountedAsClosed(f) == facts[f] \in {"known", "unknown"}

Exchange(x, request) == exchange' = [exchange EXCEPT ![x] = request]

\* Without the release nothing is sent: upgrade_check() throws.
UpgradeCheck ==
  IF facts["release"] = "known"
  THEN /\ dict' = [dict EXCEPT !.installed = packages]
       /\ \E x \in Exchanges : exchange[x] = NoExchange /\ Exchange(x, Sent("check", dict'))
       /\ doubled' = (doubled \/ \E x \in Exchanges : exchange[x] # NoExchange)
  ELSE UNCHANGED <<dict, exchange, doubled>>

SetupReady ==
  /\ ~begun /\ \A f \in DOMAIN facts : CountedAsClosed(f)
  /\ begun' = TRUE
  /\ IF prefs.auto
     THEN UpgradeCheck /\ UNCHANGED button
     ELSE button' = [button EXCEPT !.on = TRUE] /\ UNCHANGED <<dict, exchange, doubled>>
  /\ UNCHANGED <<facts, prefs, editable, edited, packages, firmwareVars>>

PressSearch ==
  /\ button = [does |-> "search", on |-> TRUE]
  /\ UpgradeCheck
  /\ UNCHANGED <<pageFacts, button, editable, edited, packages, firmwareVars>>

\* server_request(): statuses 202, 502 and 503 put a request off, the others but
\* 200 end it, as does the loss of the connection.
PutOff(x) ==
  /\ exchange[x].path \in {"check", "request"} /\ exchange[x].at = "way"
  /\ Exchange(x, [exchange[x] EXCEPT !.at = "timer"])
  /\ UNCHANGED <<pageFacts, button, editable, edited, packages, dict, firmwareVars, doubled>>

\* What is sent again is request_dict as it is by then.
SendAgain(x) ==
  /\ exchange[x].path \in {"check", "request"} /\ exchange[x].at = "timer"
  /\ Exchange(x, Sent(exchange[x].path, dict))
  /\ UNCHANGED <<pageFacts, button, editable, edited, packages, dict, firmwareVars, doubled>>

\* Refused, lost, or an answer that the page cannot read: nothing is told but by
\* the status box, and the button stays as it is.
Fails(x) ==
  /\ exchange[x].path \in {"check", "request", "download", "upload"} /\ exchange[x].at = "way"
  /\ Exchange(x, NoExchange)
  /\ UNCHANGED <<pageFacts, button, editable, edited, packages, dict, firmwareVars, doubled>>

UpgradeCheckCallback(x) ==
  /\ exchange[x].path = "check" /\ exchange[x].at = "way"
  /\ packages' \in Lists
  /\ editable' = (editable \/ prefs.advanced)
  /\ button' = [does |-> "request", on |-> TRUE]
  /\ Exchange(x, NoExchange)
  /\ UNCHANGED <<pageFacts, edited, dict, firmwareVars, doubled>>

EditPackages ==
  /\ editable
  /\ editable' = FALSE /\ edited' = TRUE
  /\ UNCHANGED <<pageFacts, button, packages, dict, exchange, firmwareVars, doubled>>

FromServer == packages \* mutant
Requested == IF edited THEN OfUser ELSE packages

UpgradeRequest ==
  /\ button = [does |-> "request", on |-> TRUE]
  /\ button' = [button EXCEPT !.on = FALSE]
  /\ editable' = FALSE
  /\ dict' = [installed |-> NoList, packages |-> Requested]
  /\ \E x \in Exchanges : exchange[x] = NoExchange /\ Exchange(x, Sent("request", dict'))
  /\ UNCHANGED <<pageFacts, edited, packages, firmwareVars, doubled>>

\* The server builds a firmware with the packages it was asked for.
UpgradeRequestCallback(x) ==
  /\ exchange[x].path = "request" /\ exchange[x].at = "way"
  /\ built' = exchange[x].body.packages
  /\ button' = [does |-> "flash", on |-> TRUE]
  /\ Exchange(x, NoExchange)
  /\ UNCHANGED <<pageFacts, editable, edited, packages, dict, file, flashed, machine, pings, doubled, prompt>>

DownloadImage ==
  /\ button = [does |-> "flash", on |-> TRUE]
  /\ button' = [button EXCEPT !.on = FALSE]
  /\ \E x \in Exchanges : exchange[x] = NoExchange /\ Exchange(x, Sent("download", built))
  /\ UNCHANGED <<pageFacts, editable, edited, packages, dict, firmwareVars, doubled>>

UploadImage(x) ==
  /\ exchange[x].path = "download" /\ exchange[x].at = "way"
  /\ Exchange(x, Sent("upload", exchange[x].body))
  /\ UNCHANGED <<pageFacts, button, editable, edited, packages, dict, firmwareVars, doubled>>

\* The upload has arrived: upgrade_start, and pings from ten seconds later on.
FlashImage(x) ==
  /\ exchange[x].path = "upload" /\ exchange[x].at = "way"
  /\ Len(flashed) < MaxFlashed /\ machine \in {"up", "starting"}
  /\ file' = exchange[x].body
  /\ flashed' = Append(flashed, file')
  /\ machine' = "starting" /\ pings' = MaxPings
  /\ Exchange(x, [path |-> "ping", at |-> "timer", body |-> NoList])
  /\ UNCHANGED <<pageFacts, button, editable, edited, packages, dict, built, doubled, prompt>>

GoesDown ==
  /\ machine = "starting"
  /\ machine' = "down"
  /\ prompt' = (pings = MaxPings)
  /\ UNCHANGED <<pageFacts, button, editable, edited, packages, dict, exchange, built, file, flashed, pings, doubled>>

Boots ==
  /\ machine = "down"
  /\ machine' = "new"
  /\ UNCHANGED <<pageFacts, button, editable, edited, packages, dict, exchange, built, file, flashed, pings, doubled, prompt>>

AnyEvent == TRUE \* mutant
Answers == machine # "down"

\* A ping that is answered ends the waiting, one that is not is repeated.
PingUbus(x) ==
  /\ exchange[x].path = "ping"
  /\ pings' = IF pings > 0 THEN pings - 1 ELSE pings
  /\ IF pings > 0 /\ Answers
     THEN button' = [does |-> "reload", on |-> TRUE] /\ Exchange(x, NoExchange)
     ELSE UNCHANGED button /\ (IF pings > 0 THEN UNCHANGED exchange ELSE Exchange(x, NoExchange))
  /\ UNCHANGED <<pageFacts, editable, edited, packages, dict, built, file, flashed, machine, doubled, prompt>>

UpgradeNext ==
  \/ \E f \in DOMAIN facts : AnswerCall(f)
  \/ SetupReady \/ PressSearch \/ EditPackages \/ UpgradeRequest \/ DownloadImage
  \/ \E x \in Exchanges :
       \/ PutOff(x) \/ SendAgain(x) \/ Fails(x)
       \/ UpgradeCheckCallback(x) \/ UpgradeRequestCallback(x)
       \/ UploadImage(x) \/ FlashImage(x) \/ PingUbus(x)
  \/ GoesDown \/ Boots

-----------------------------------------------------------------------------

\* Nothing is asked of the server before every call to the router is answered.
AskedWhenKnown ==
  (\E x \in Exchanges : exchange[x] # NoExchange) => \A f \in DOMAIN facts : facts[f] \in {"known", "unknown"}

\* What is flashed has the packages that the page shows or the user's, and only
\* the search tells the server what is installed, unless two searches overlapped.
BuiltAsAsked ==
  ~doubled =>
    /\ \A i \in DOMAIN flashed : flashed[i] = IF edited THEN OfUser ELSE packages
    /\ \A x \in Exchanges : /\ exchange[x].path = "request" => exchange[x].body.installed = NoList
                            /\ exchange[x].path = "check" => exchange[x].body.packages = NoList

\* Without overlapping searches a page flashes once.
FlashedOnce == ~doubled => Len(flashed) <= 1

\* The page offers its reload when the new firmware runs, if the router went
\* down before the first ping and no searches overlapped.
ReloadWhenNew == prompt /\ ~doubled /\ button.does = "reload" => machine = "new"

UpgradeSound == AskedWhenKnown /\ BuiltAsAsked /\ FlashedOnce /\ ReloadWhenNew
=============================================================================
