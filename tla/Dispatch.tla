------------------------------ MODULE Dispatch ------------------------------
(***************************************************************************)
(* Serving a page (dispatcher.lua): each request is a process that puts    *)
(* the menu tree together, from the menu files or from a cache file that   *)
(* all processes share, walks it along the path asked for, checks session, *)
(* access groups and token, and renders the page, or goes on with another  *)
(* path: dispatch() calls itself for entries that stand for others.        *)
(*                                                                         *)
(* Paths are nodes of the tree.  Dependencies on files and settings are    *)
(* looked at when the tree is put together; what was found is cached.      *)
(***************************************************************************)
EXTENDS Naturals

CONSTANTS Requests, Sids, Groups, Facts, Files,
          Nodes,       \* of the menu tree
          Above,       \* the nodes on the path to a node, the node included
          Children,    \* the nodes below a node
          Order,       \* their place in the menu
          File,        \* the menu file a node is registered in
          Fact,        \* what a node depends on, or NoFact
          Group,       \* the access group it requires, or NoGroup
          Guarded,     \* nodes with "auth": a session is needed there and below
          FirstChild,  \* nodes that stand for the first below them
          Alias,       \* for nodes that stand for another: the other
          Post,        \* nodes that are only served with the session's token
          MaxVersion,  \* bound: the versions of menu files that are installed
          NoFact, NoGroup, NoCache, NoSession

ASSUME TreeAssumption ==
  /\ \A n \in Nodes : /\ n \in Above[n] /\ Above[n] \subseteq Nodes /\ Children[n] \subseteq Nodes
                      /\ \A m \in Above[n] : Above[m] \subseteq Above[n]
                      /\ Order[n] \in Nat /\ File[n] \in Files
  /\ DOMAIN Alias \subseteq Nodes /\ FirstChild \cap DOMAIN Alias = {}
  /\ \A n \in DOMAIN Alias : Alias[n] \in Nodes
  /\ NoSession \notin Nodes \cup Sids

VARIABLES
  files,    \* the menu files: the version of each, 0 where there is none
  newest,   \* the last version that was installed
  cache,    \* the cache file: the fingerprint in its name, the tree, whether it is whole
  sessions, \* rpcd's sessions: the access groups
  request,  \* the requests
  since     \* history: the versions of the menu files since a request began

webVars == <<files, newest, cache, sessions, request, since>>

\* A tree: the version of each file it was read from, the dependencies found.
Tree(versions, found) == [versions |-> versions, found |-> found]
NoTree == Tree([f \in Files |-> 0], {})

NoRequest == [at |-> "none", path |-> NoSession, sid |-> NoSession, token |-> FALSE,
              key |-> NoCache, tree |-> NoTree, user |-> NoSession, granted |-> {}]

WebInit ==
  /\ files \in [Files -> {0, 1}]
  /\ newest = 1
  /\ cache = NoCache
  /\ sessions \in [Sids -> SUBSET Groups]
  /\ request = [r \in Requests |-> NoRequest]
  /\ since = [r \in Requests |-> [f \in Files |-> {}]]

At(r, place) == request[r].at = place

-----------------------------------------------------------------------------
(* The tree: createtree_json() *)

\* A request for any path, whose body has the session's token or not.  One
\* without a cookie ends as one whose session has ended.
Arrive(r, path, sid, token) ==
  /\ At(r, "none")
  /\ request' = [request EXCEPT ![r] = [NoRequest EXCEPT
                   !.at = "dispatch", !.path = path, !.sid = sid, !.token = token]]
  /\ since' = [since EXCEPT ![r] = [f \in Files |-> {files[f]}]]
  /\ UNCHANGED <<files, newest, cache, sessions>>

NamesOnly(versions) == [f \in Files |-> IF versions[f] = 0 THEN 0 ELSE 1] \* mutant
Fingerprint(versions) == versions

TakeFingerprint(r) ==
  /\ At(r, "dispatch")
  /\ request' = [request EXCEPT ![r].at = "open", ![r].key = Fingerprint(files)]
  /\ UNCHANGED <<files, newest, cache, sessions, since>>

\* A file that another process has not finished cannot be parsed.
Readable(r) == cache # NoCache /\ cache.key = request[r].key /\ cache.whole

OpenCache(r) ==
  /\ At(r, "open")
  /\ request' = IF Readable(r)
                THEN [request EXCEPT ![r].at = "walk", ![r].key = NoCache, ![r].tree = cache.tree]
                ELSE [request EXCEPT ![r].at = "build"]
  /\ UNCHANGED <<files, newest, cache, sessions, since>>

\* All caches are removed, then the menu files that were listed are read, and
\* their dependencies, on files and settings of any package, looked at.
Build(r) ==
  LET listed(f) == request[r].key[f] # 0 IN
  /\ At(r, "build")
  /\ cache' = NoCache
  /\ \E found \in SUBSET Facts :
       request' = [request EXCEPT ![r].at = "create", ![r].tree =
                     Tree([f \in Files |-> IF listed(f) THEN files[f] ELSE 0], found)]
  /\ UNCHANGED <<files, newest, sessions, since>>

CreateCache(r) ==
  /\ At(r, "create")
  /\ cache' = [key |-> request[r].key, tree |-> request[r].tree, whole |-> FALSE]
  /\ request' = [request EXCEPT ![r].at = "write"]
  /\ UNCHANGED <<files, newest, sessions, since>>

\* What is written to a file that was removed meanwhile is lost.
WriteCache(r) ==
  /\ At(r, "write")
  /\ cache' = IF cache # NoCache /\ cache.key = request[r].key
              THEN [cache EXCEPT !.tree = request[r].tree, !.whole = TRUE] ELSE cache
  /\ request' = [request EXCEPT ![r].at = "walk", ![r].key = NoCache]
  /\ UNCHANGED <<files, newest, sessions, since>>

-----------------------------------------------------------------------------
(* The walk, and the checks *)

\* An entry that stands for its first child needs one.
InTree(tree, n) == tree.versions[File[n]] # 0
Usable(tree, n) ==
  /\ InTree(tree, n)
  /\ Fact[n] \in tree.found \cup {NoFact}
  /\ n \in FirstChild => \E c \in Children[n] : InTree(tree, c)

\* The entries from the root on, as far as they can be used.
PathOnly(r) == {n \in {request[r].path} : Usable(request[r].tree, n)} \* mutant
Walked(r) ==
  {n \in Above[request[r].path] : \A m \in Above[n] : Usable(request[r].tree, m)}

Page(r) == request[r].path \in Walked(r)

Ends(r, outcome) ==
  /\ request' = [request EXCEPT ![r] = [NoRequest EXCEPT !.at = outcome]]
  /\ since' = [since EXCEPT ![r] = [f \in Files |-> {}]]

Renders(r) == request' = [request EXCEPT ![r].at = "rendered"] /\ UNCHANGED since


\* session_retrieve(): two calls, between which the session may end.
GetSession(r) ==
  LET sid == request[r].sid IN
  /\ At(r, "walk") /\ Walked(r) \cap Guarded # {}
  /\ IF sid \in Sids /\ sessions[sid] # NoSession
     THEN request' = [request EXCEPT ![r].at = "access", ![r].user = sid] /\ UNCHANGED since
     ELSE Ends(r, "login")
  /\ UNCHANGED <<files, newest, cache, sessions>>

GetAccess(r) ==
  LET sid == request[r].sid IN
  /\ At(r, "access")
  /\ request' = [request EXCEPT ![r].at = "check",
                   ![r].granted = IF sessions[sid] = NoSession THEN {} ELSE sessions[sid]]
  /\ UNCHANGED <<files, newest, cache, sessions, since>>

Required(r) == {Group[n] : n \in Walked(r)} \ {NoGroup}

\* find_subnode() does not look at the dependencies of the children.
First(tree, n) ==
  CHOOSE c \in Children[n] : /\ InTree(tree, c)
                             /\ \A d \in Children[n] : InTree(tree, d) => Order[c] <= Order[d]

GoesOn(r, path) ==
  /\ UNCHANGED since
  /\ request' = [request EXCEPT ![r] = [NoRequest EXCEPT
                   !.at = "dispatch", !.path = path,
                   !.sid = request[r].sid, !.token = request[r].token]]

\* With access groups along a path that leads nowhere, "page.readonly" is set
\* where there is no page.
Check(r) ==
  LET page == request[r].path IN
  /\ \/ At(r, "check")
     \/ At(r, "walk") /\ Walked(r) \cap Guarded = {}
  /\ IF ~(Required(r) \subseteq request[r].granted) THEN Ends(r, "forbidden")
     ELSE IF ~Page(r) THEN Ends(r, IF Required(r) = {} THEN "not found" ELSE "error")
     ELSE IF page \in Post /\ ~request[r].token THEN Ends(r, "forbidden")
     ELSE IF page \in FirstChild THEN GoesOn(r, First(request[r].tree, page))
     ELSE IF page \in DOMAIN Alias THEN GoesOn(r, Alias[page])
     ELSE Renders(r)
  /\ UNCHANGED <<files, newest, cache, sessions>>

-----------------------------------------------------------------------------
(* What happens meanwhile *)

\* A package is installed, upgraded or removed; no version comes twice.
MenuChanges(f) ==
  /\ \/ newest < MaxVersion /\ newest' = newest + 1
     \/ files[f] # 0 /\ newest' = newest
  /\ files' = [files EXCEPT ![f] = IF newest' = newest THEN 0 ELSE newest']
  /\ since' = [r \in Requests |-> IF request[r].path = NoSession
                                  THEN since[r]
                                  ELSE [since[r] EXCEPT ![f] = @ \cup {files'[f]}]]
  /\ UNCHANGED <<cache, sessions, request>>

SessionEnds(s) ==
  /\ sessions' = [sessions EXCEPT ![s] = NoSession]
  /\ UNCHANGED <<files, newest, cache, request, since>>

\* The browser sends its next request.
Served(r) ==
  /\ request[r].at \in {"login", "forbidden", "not found", "error", "rendered"}
  /\ request' = [request EXCEPT ![r] = NoRequest]
  /\ since' = [since EXCEPT ![r] = [f \in Files |-> {}]]
  /\ UNCHANGED <<files, newest, cache, sessions>>

RequestStep(r) ==
  \/ TakeFingerprint(r) \/ OpenCache(r) \/ Build(r) \/ CreateCache(r) \/ WriteCache(r)
  \/ GetSession(r) \/ GetAccess(r) \/ Check(r)

WebNext ==
  \/ \E r \in Requests :
       \/ \E path \in Nodes, sid \in Sids, token \in BOOLEAN : Arrive(r, path, sid, token)
       \/ RequestStep(r) \/ Served(r)
  \/ \E f \in Files : MenuChanges(f)
  \/ \E s \in Sids : SessionEnds(s)

WebSpec == WebInit /\ [][WebNext]_webVars

-----------------------------------------------------------------------------
(* Properties *)

\* A page is rendered only if, in the dispatch that rendered it, a session was
\* found where the page or one above needs it, that session had every group
\* required along the path, and the token was there; however the request got to
\* the page, through entries that stand for others or by its own path.
ServedIfAllowed ==
  \A r \in Requests : At(r, "rendered") =>
    LET path == Above[request[r].path] IN
    /\ path \cap Guarded # {} => request[r].user \in Sids
    /\ {Group[n] : n \in path} \ {NoGroup} \subseteq request[r].granted
    /\ request[r].path \in Post => request[r].token

\* A page is served from menu files that were installed at some time since the
\* request began, though the tree may come from a cache that other requests
\* write, remove and write again while packages are installed.
MenuFresh ==
  \A r \in Requests : At(r, "rendered") =>
    \A n \in Above[request[r].path] : request[r].tree.versions[File[n]] \in since[r][File[n]]

\* A page is rendered for whom it is meant, and from menu files that were there.
ServedRight == ServedIfAllowed /\ MenuFresh
=============================================================================
