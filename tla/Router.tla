-------------------------------- MODULE Router --------------------------------
(***************************************************************************)
(* Programs on the router, each with processes and messages of its own:    *)
(* serving pages, reading their templates, sampling bandwidth, gathering   *)
(* hints on hosts, looking up their names, computing with addresses, and,  *)
(* though the browser does it, working out what a package needs.  They     *)
(* share no state, so a behaviour is of one of them.                       *)
(***************************************************************************)
EXTENDS Dispatch, Bwc, Rrdns, HostHints, TemplateParser, CidrMath,
        Packages, TLC

CONSTANTS adm, p1, p2, \* entries of a menu: two pages below another
          fa,          \* the file they are registered in
          ga,          \* a group of rights
          fx,          \* a fact a page depends on
          Idle         \* the value of a variable that is not used

VARIABLE program

Programs == {"dispatch", "bwc", "rrdns", "hints", "template", "cidr", "install", "version"}
libraryVars == <<parserVars, cidrVars>>
packageVars == <<pkgVars, versionVars>>
routerVars == <<program, webVars, bwcVars, dnsVars, hintVars, libraryVars, packageVars>>

MenuNodes == {adm, p1, p2}
MenuAbove == adm :> {adm} @@ p1 :> {adm, p1} @@ p2 :> {adm, p2}
MenuChildren == adm :> {p1, p2} @@ p1 :> {} @@ p2 :> {}
MenuOrder == adm :> 1 @@ p1 :> 1 @@ p2 :> 2
MenuFile == adm :> fa @@ p1 :> fa @@ p2 :> fa
MenuFact == adm :> NoFact @@ p1 :> fx @@ p2 :> NoFact
MenuGroup == adm :> ga @@ p1 :> NoGroup @@ p2 :> NoGroup
MenuAlias == p1 :> p2

VersionSigns == {-1, 97}

RequestSymmetry == Permutations(Requests)

\* The variables of a program that does not run are Idle.
RouterInit ==
  /\ program \in Programs
  /\ IF program = "dispatch" THEN WebInit
     ELSE /\ files = Idle /\ newest = Idle /\ cache = Idle /\ sessions = Idle
          /\ request = Idle /\ since = Idle
  /\ IF program = "bwc" THEN BwcInit
     ELSE /\ clock = Idle /\ pidfile = Idle /\ daemon = Idle /\ database = Idle
          /\ dump = Idle /\ graph = Idle /\ overlapped = Idle
  /\ IF program = "rrdns" THEN DnsInit
     ELSE /\ addrs = Idle /\ limit = Idle /\ rest = Idle /\ reused = Idle
          /\ pending = Idle /\ known = Idle /\ network = Idle /\ names = Idle
          /\ ended = Idle /\ sent = Idle
  /\ IF program = "hints" THEN HintInit
     ELSE /\ source = Idle /\ hints = Idle /\ callback = Idle /\ timer = Idle
          /\ replies = Idle /\ answer = Idle /\ told = Idle /\ resolved = Idle
  /\ IF program = "template" THEN ParserInit
     ELSE /\ parser = Idle /\ handed = Idle /\ produced = Idle /\ passed = Idle
          /\ tags = Idle /\ earlier = Idle /\ blamed = Idle
  /\ IF program = "cidr" THEN CidrInit
     ELSE family = Idle /\ address = Idle /\ operand = Idle /\ outcome = Idle
  /\ IF program = "install" THEN PkgInit
     ELSE /\ catalog = Idle /\ opened = Idle /\ todo = Idle /\ seen = Idle
          /\ install = Idle /\ errors = Idle /\ wanted = Idle
  /\ IF program = "version" THEN VersionInit
     ELSE val = Idle /\ ref = Idle /\ order = Idle

RouterNext ==
  \/ /\ program = "dispatch" /\ WebNext
     /\ UNCHANGED <<program, bwcVars, dnsVars, hintVars, libraryVars, packageVars>>
  \/ /\ program = "bwc" /\ BwcNext
     /\ UNCHANGED <<program, webVars, dnsVars, hintVars, libraryVars, packageVars>>
  \/ /\ program = "rrdns" /\ DnsNext
     /\ UNCHANGED <<program, webVars, bwcVars, hintVars, libraryVars, packageVars>>
  \/ /\ program = "hints" /\ HintNext
     /\ UNCHANGED <<program, webVars, bwcVars, dnsVars, libraryVars, packageVars>>
  \/ /\ program = "template" /\ ParserNext
     /\ UNCHANGED <<program, webVars, bwcVars, dnsVars, hintVars, cidrVars, packageVars>>
  \/ /\ program = "cidr" /\ CidrNext
     /\ UNCHANGED <<program, webVars, bwcVars, dnsVars, hintVars, parserVars, packageVars>>
  \/ /\ program = "install" /\ PkgNext
     /\ UNCHANGED <<program, webVars, bwcVars, dnsVars, hintVars, libraryVars, versionVars>>
  \/ /\ program = "version" /\ VersionNext
     /\ UNCHANGED <<program, webVars, bwcVars, dnsVars, hintVars, libraryVars, pkgVars>>

RouterSpec == RouterInit /\ [][RouterNext]_routerVars

-----------------------------------------------------------------------------
(* What each of the programs promises: see its module. *)

\* Pages are served to those allowed, from a menu that is not out of date.
PagesHold == program = "dispatch" => ServedRight

\* The bandwidth daemon and its samples.
SamplesHold == program = "bwc" => SamplesSound

\* Reverse lookups answer with the names of the addresses asked for.
LookupHolds == program = "rrdns" => LookupSound

\* Host hints are complete and belong to their hosts.
HintsHold == program = "hints" => HintsSound

\* Templates keep their text, and errors are reported at their line.
TemplateHolds == program = "template" => TemplateSound

\* What is computed is what its definition says: addresses and their ranges, which
\* version is newer, and all that a package needs.
ComputedExactly == /\ program = "cidr" => AddedExactly /\ RangesAgree
                   /\ program = "version" => OrderedByParts
                   /\ program = "install" => NoneMissing
=============================================================================
