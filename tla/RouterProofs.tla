---------------------------- MODULE RouterProofs ----------------------------
(***************************************************************************)
(* Proofs about the programs on the router: serving pages, looking up      *)
(* names, hints on hosts, templates, samples of the bandwidth.             *)
(***************************************************************************)
EXTENDS Router, Lists

-----------------------------------------------------------------------------
(* Serving a page *)

Keys == [Files -> Nat]
Trees == [versions : Keys, found : SUBSET Facts]
CacheRecords == [key : Keys, tree : Trees, whole : BOOLEAN]
Over == {"login", "forbidden", "not found", "error"}
WithKey == {"open", "build", "create", "write"}
WithTree == {"create", "write", "walk", "access", "check", "rendered"}
Places == {"none", "dispatch"} \cup Over \cup WithKey \cup WithTree
RequestRecords ==
  [at : Places, path : Nodes \cup {NoSession}, sid : Sids \cup {NoSession}, token : BOOLEAN,
   key : Keys \cup {NoCache}, tree : Trees, user : Sids \cup {NoSession}, granted : SUBSET Groups]

WebTyped ==
  /\ files \in Keys /\ newest \in Nat /\ \A f \in Files : files[f] <= newest
  /\ cache \in CacheRecords \cup {NoCache}
  /\ sessions \in [Sids -> (SUBSET Groups) \cup {NoSession}]
  /\ request \in [Requests -> RequestRecords]
  /\ since \in [Requests -> [Files -> SUBSET Nat]]

Granted(q) ==
  LET path == Above[q.path] IN
  /\ path \cap Guarded # {} => q.user \in Sids
  /\ {Group[n] : n \in path} \ {NoGroup} \subseteq q.granted
  /\ q.path \in Post => q.token

\* What a request has is from menu files that were there since it began.
RequestOK(q, had) ==
  /\ q.at \notin Over \cup {"none"} => q.path \in Nodes /\ \A f \in Files : files[f] \in had[f]
  /\ q.at \in WithKey => /\ q.key \in Keys
                         /\ \A f \in Files : q.key[f] \in had[f] /\ q.key[f] <= newest
  /\ q.at \in WithTree => \A f \in Files : q.tree.versions[f] \in had[f]
  /\ q.at \in {"access", "check"} => q.user \in Sids
  /\ q.at = "access" => q.sid \in Sids
  /\ q.at = "rendered" => Granted(q)

\* A tree that was read when the fingerprint did not hold any longer is of files
\* that all requests with this fingerprint saw change.
Outlived(key, versions) ==
  \A f \in Files : versions[f] # key[f] =>
    /\ key[f] # 0 /\ files[f] # key[f]
    /\ \A r \in Requests : At(r, "open") /\ request[r].key[f] = key[f] => versions[f] \in since[r][f]

WebInv ==
  /\ WebTyped
  /\ \A r \in Requests : RequestOK(request[r], since[r])
  /\ \A r \in Requests : request[r].at \in {"create", "write"}
                           => Outlived(request[r].key, request[r].tree.versions)
  /\ cache # NoCache => /\ Outlived(cache.key, cache.tree.versions)
                        /\ \A f \in Files : cache.key[f] <= newest

LEMMA NoRequestOK ==
  ASSUME NEW q, NEW at \in Over \cup {"none"},
         (q = NoRequest /\ at = "none") \/ q = [NoRequest EXCEPT !.at = at]
  PROVE  /\ q \in RequestRecords /\ q.at = at
         /\ \A had : RequestOK(q, had)
<1>1. NoTree \in Trees
  BY DEF NoTree, Tree, Trees, Keys
<1>2. /\ NoRequest \in RequestRecords /\ NoRequest.at = "none"
      /\ [NoRequest EXCEPT !.at = at] \in RequestRecords /\ [NoRequest EXCEPT !.at = at].at = at
  BY <1>1 DEF NoRequest, RequestRecords, Places
<1>3. q \in RequestRecords /\ q.at = at
  BY <1>2
<1>4. QED
  BY <1>3 DEF RequestOK, Over, WithKey, WithTree

LEMMA WebStart == WebInit => WebInv
<1> SUFFICES ASSUME WebInit PROVE WebInv
  OBVIOUS
<1>2. NoRequest \in RequestRecords /\ NoRequest.at = "none" /\ \A had : RequestOK(NoRequest, had)
  BY NoRequestOK
<1>3. WebTyped
  <2>1. newest \in Nat /\ newest = 1
    BY DEF WebInit
  <2>2. ASSUME NEW f \in Files PROVE files[f] \in Nat /\ files[f] <= newest
    BY <2>1 DEF WebInit
  <2>3. files \in Keys
    BY <2>2 DEF WebInit, Keys
  <2>4. request \in [Requests -> RequestRecords]
    BY <1>2 DEF WebInit
  <2>5. since \in [Requests -> [Files -> SUBSET Nat]]
    BY DEF WebInit
  <2>6. sessions \in [Sids -> (SUBSET Groups) \cup {NoSession}]
    BY DEF WebInit
  <2>7. QED
    BY <2>1, <2>2, <2>3, <2>4, <2>5, <2>6 DEF WebInit, WebTyped
<1>4. QED
  BY <1>2, <1>3 DEF WebInit, WebInv

\* One request takes a step, and the menu files stay.
LEMMA OneMoves ==
  ASSUME WebInv, NEW r \in Requests, NEW q \in RequestRecords, NEW had \in [Files -> SUBSET Nat],
         request' = [request EXCEPT ![r] = q],
         since' = [since EXCEPT ![r] = had] \/ (since' = since /\ had = since[r]),
         files' = files, newest' = newest, sessions' = sessions,
         RequestOK(q, had),
         q.at \in {"create", "write"} => Outlived(q.key, q.tree.versions),
         q.at = "open" => \A f \in Files : q.key[f] = files[f],
         NEW c \in CacheRecords \cup {NoCache}, cache' = c,
         c # NoCache => Outlived(c.key, c.tree.versions) /\ \A f \in Files : c.key[f] <= newest
  PROVE  WebInv'
<1>1. /\ request'[r] = q /\ since'[r] = had
      /\ \A s \in Requests \ {r} : request'[s] = request[s] /\ since'[s] = since[s]
  BY DEF WebInv, WebTyped
<1>2. WebTyped'
  BY DEF WebInv, WebTyped
<1>3. \A s \in Requests : RequestOK(request[s], since[s])'
  BY <1>1 DEF WebInv, RequestOK, Granted
<1>4. ASSUME NEW key, NEW versions, Outlived(key, versions), NEW f \in Files, versions[f] # key[f]
      PROVE  /\ key[f] # 0 /\ files'[f] # key[f]
             /\ \A s \in Requests : request'[s].at = "open" /\ request'[s].key[f] = key[f]
                                      => versions[f] \in since'[s][f]
  BY <1>1, <1>4 DEF Outlived, At
<1>5. ASSUME NEW s \in Requests, request'[s].at \in {"create", "write"}
      PROVE  Outlived(request[s].key, request[s].tree.versions)'
  <2>1. PICK key, versions : key = request'[s].key /\ versions = request'[s].tree.versions
    OBVIOUS
  <2>2. Outlived(key, versions)
    BY <1>1, <1>5, <2>1 DEF WebInv
  <2>3. \A f \in Files : versions[f] # key[f] =>
          /\ key[f] # 0 /\ files'[f] # key[f]
          /\ \A u \in Requests : request'[u].at = "open" /\ request'[u].key[f] = key[f]
                                   => versions[f] \in since'[u][f]
    BY <1>4, <2>2
  <2>4. QED
    BY <2>1, <2>3 DEF Outlived, At
<1>6. ASSUME c # NoCache
      PROVE  Outlived(cache.key, cache.tree.versions)' /\ \A f \in Files : cache'.key[f] <= newest'
  <2>1. PICK key, versions : key = c.key /\ versions = c.tree.versions
    OBVIOUS
  <2>2. Outlived(key, versions)
    BY <1>6, <2>1
  <2>3. \A f \in Files : versions[f] # key[f] =>
          /\ key[f] # 0 /\ files'[f] # key[f]
          /\ \A u \in Requests : request'[u].at = "open" /\ request'[u].key[f] = key[f]
                                   => versions[f] \in since'[u][f]
    BY <1>4, <2>2
  <2>4. QED
    BY <1>6, <2>1, <2>3 DEF Outlived, At
<1>7. QED
  BY <1>2, <1>3, <1>5, <1>6 DEF WebInv

LEMMA ArriveInv ==
  ASSUME WebInv, NEW r \in Requests, NEW path \in Nodes, NEW sid \in Sids, NEW token \in BOOLEAN,
         Arrive(r, path, sid, token)
  PROVE  WebInv'
<1> DEFINE q == [NoRequest EXCEPT !.at = "dispatch", !.path = path, !.sid = sid, !.token = token]
           had == [f \in Files |-> {files[f]}]
<1>1. /\ request' = [request EXCEPT ![r] = q] /\ since' = [since EXCEPT ![r] = had]
      /\ files' = files /\ newest' = newest /\ sessions' = sessions /\ cache' = cache
  BY DEF Arrive
<1>2. q \in RequestRecords /\ q.at = "dispatch" /\ q.path = path
  <2>1. NoTree \in Trees
    BY DEF NoTree, Tree, Trees, Keys
  <2>2. QED
    BY <2>1 DEF NoRequest, RequestRecords, Places
<1>3. had \in [Files -> SUBSET Nat] /\ \A f \in Files : files[f] \in had[f]
  BY DEF WebInv, WebTyped, Keys
<1> HIDE DEF q, had
<1>4. RequestOK(q, had)
  BY <1>2, <1>3 DEF RequestOK, WithKey, WithTree
<1>5. cache \in CacheRecords \cup {NoCache}
  BY DEF WebInv, WebTyped
<1>6. QED
  BY <1>1, <1>2, <1>3, <1>4, <1>5, OneMoves DEF WebInv

LEMMA FingerprintInv ==
  ASSUME WebInv, NEW r \in Requests, TakeFingerprint(r)
  PROVE  WebInv'
<1> DEFINE q == [request[r] EXCEPT !.at = "open", !.key = files]
<1>1. /\ request' = [request EXCEPT ![r] = q] /\ since' = since /\ request[r].at = "dispatch"
      /\ files' = files /\ newest' = newest /\ sessions' = sessions /\ cache' = cache
  BY DEF TakeFingerprint, Fingerprint, At
<1>2. /\ request[r] \in RequestRecords /\ since[r] \in [Files -> SUBSET Nat]
      /\ files \in Keys /\ cache \in CacheRecords \cup {NoCache} /\ RequestOK(request[r], since[r])
      /\ \A f \in Files : files[f] <= newest
  BY DEF WebInv, WebTyped
<1>3. /\ q \in RequestRecords /\ q.at = "open" /\ q.path = request[r].path /\ q.key = files
  BY <1>2 DEF RequestRecords, Places, WithKey
<1> HIDE DEF q
<1>4. RequestOK(q, since[r])
  BY <1>1, <1>2, <1>3 DEF RequestOK, WithKey, WithTree, Over
<1>5. QED
  BY <1>1, <1>2, <1>3, <1>4, OneMoves DEF WebInv

LEMMA OpenInv ==
  ASSUME WebInv, NEW r \in Requests, OpenCache(r)
  PROVE  WebInv'
<1>1. /\ since' = since /\ request[r].at = "open"
      /\ files' = files /\ newest' = newest /\ sessions' = sessions /\ cache' = cache
  BY DEF OpenCache, At
<1>2. /\ request[r] \in RequestRecords /\ since[r] \in [Files -> SUBSET Nat]
      /\ cache \in CacheRecords \cup {NoCache} /\ RequestOK(request[r], since[r])
  BY DEF WebInv, WebTyped
<1>3. CASE Readable(r)
  <2> DEFINE q == [request[r] EXCEPT !.at = "walk", !.key = NoCache, !.tree = cache.tree]
  <2>1. request' = [request EXCEPT ![r] = q]
    BY <1>3 DEF OpenCache
  <2>2. cache # NoCache /\ cache.key = request[r].key /\ cache \in CacheRecords
    BY <1>2, <1>3 DEF Readable
  <2>3. q \in RequestRecords /\ q.at = "walk" /\ q.path = request[r].path /\ q.tree = cache.tree
    BY <1>2, <2>2 DEF RequestRecords, Places, WithTree, CacheRecords
  <2>4. ASSUME NEW f \in Files PROVE cache.tree.versions[f] \in since[r][f]
    <3>1. request[r].key[f] \in since[r][f]
      BY <1>1, <1>2 DEF RequestOK, WithKey
    <3>2. QED
      BY <1>1, <2>2, <3>1 DEF WebInv, Outlived, At
  <2> HIDE DEF q
  <2>5. RequestOK(q, since[r])
    BY <1>1, <1>2, <2>3, <2>4 DEF RequestOK, WithKey, WithTree, Over
  <2>6. QED
    BY <1>1, <1>2, <2>1, <2>3, <2>5, OneMoves DEF WebInv
<1>4. CASE ~Readable(r)
  <2> DEFINE q == [request[r] EXCEPT !.at = "build"]
  <2>1. request' = [request EXCEPT ![r] = q]
    BY <1>4 DEF OpenCache
  <2>2. q \in RequestRecords /\ q.at = "build" /\ q.path = request[r].path /\ q.key = request[r].key
    BY <1>2 DEF RequestRecords, Places, WithKey
  <2> HIDE DEF q
  <2>3. RequestOK(q, since[r])
    BY <1>1, <1>2, <2>2 DEF RequestOK, WithKey, WithTree, Over
  <2>4. QED
    BY <1>1, <1>2, <2>1, <2>2, <2>3, OneMoves DEF WebInv
<1>5. QED
  BY <1>3, <1>4

LEMMA BuildInv ==
  ASSUME WebInv, NEW r \in Requests, Build(r)
  PROVE  WebInv'
<1> DEFINE versions == [f \in Files |-> IF request[r].key[f] # 0 THEN files[f] ELSE 0]
<1>1. PICK found \in SUBSET Facts :
        request' = [request EXCEPT ![r].at = "create", ![r].tree = Tree(versions, found)]
  BY DEF Build
<1> DEFINE q == [request[r] EXCEPT !.at = "create", !.tree = Tree(versions, found)]
<1>2. /\ since' = since /\ request[r].at = "build"
      /\ files' = files /\ newest' = newest /\ sessions' = sessions /\ cache' = NoCache
  BY DEF Build, At
<1>3. /\ request[r] \in RequestRecords /\ since[r] \in [Files -> SUBSET Nat]
      /\ files \in Keys /\ RequestOK(request[r], since[r])
  BY DEF WebInv, WebTyped
<1>4. versions \in Keys /\ \A f \in Files : versions[f] = IF request[r].key[f] # 0 THEN files[f] ELSE 0
  BY <1>3 DEF Keys
<1> HIDE DEF versions
<1>5. request' = [request EXCEPT ![r] = q]
  BY <1>1
<1>6. /\ q \in RequestRecords /\ q.at = "create" /\ q.path = request[r].path
      /\ q.tree.versions = versions /\ q.key = request[r].key
  BY <1>3, <1>4 DEF RequestRecords, Places, WithKey, Trees, Tree
<1> HIDE DEF q
<1>7. \A f \in Files : versions[f] \in since[r][f]
  BY <1>2, <1>3, <1>4 DEF RequestOK, WithKey, Over
<1>8. Outlived(q.key, q.tree.versions)
  <2> SUFFICES ASSUME NEW f \in Files, versions[f] # request[r].key[f]
               PROVE  /\ request[r].key[f] # 0 /\ files[f] # request[r].key[f]
                      /\ \A s \in Requests : At(s, "open") => versions[f] \in since[s][f]
    BY <1>6 DEF Outlived
  <2>1. request[r].key[f] # 0 /\ versions[f] = files[f]
    BY <1>4
  <2>2. ASSUME NEW s \in Requests, At(s, "open") PROVE files[f] \in since[s][f]
    <3>1. RequestOK(request[s], since[s])
      BY DEF WebInv
    <3>2. QED
      BY <2>2, <3>1 DEF RequestOK, At, Over
  <2>3. QED
    BY <2>1, <2>2
<1>9. RequestOK(q, since[r])
  BY <1>2, <1>3, <1>6, <1>7 DEF RequestOK, WithKey, WithTree, Over
<1>10. QED
  BY <1>2, <1>3, <1>5, <1>6, <1>8, <1>9, OneMoves

LEMMA CreateInv ==
  ASSUME WebInv, NEW r \in Requests, CreateCache(r)
  PROVE  WebInv'
<1> DEFINE q == [request[r] EXCEPT !.at = "write"]
           c == [key |-> request[r].key, tree |-> request[r].tree, whole |-> FALSE]
<1>1. /\ request' = [request EXCEPT ![r] = q] /\ since' = since /\ request[r].at = "create"
      /\ files' = files /\ newest' = newest /\ sessions' = sessions /\ cache' = c
  BY DEF CreateCache, At
<1>2. /\ request[r] \in RequestRecords /\ since[r] \in [Files -> SUBSET Nat]
      /\ RequestOK(request[r], since[r]) /\ request[r].key \in Keys
      /\ Outlived(request[r].key, request[r].tree.versions)
      /\ \A f \in Files : request[r].key[f] <= newest
  BY <1>1 DEF WebInv, WebTyped, RequestOK, WithKey
<1>3. /\ q \in RequestRecords /\ q.at = "write" /\ q.path = request[r].path
      /\ q.tree = request[r].tree /\ q.key = request[r].key
  BY <1>2 DEF RequestRecords, Places, WithKey
<1>4. c \in CacheRecords /\ c.key = request[r].key /\ c.tree = request[r].tree
  BY <1>2 DEF RequestRecords, CacheRecords
<1> HIDE DEF q, c
<1>5. RequestOK(q, since[r])
  BY <1>1, <1>2, <1>3 DEF RequestOK, WithKey, WithTree, Over
<1>6. QED
  BY <1>1, <1>2, <1>3, <1>4, <1>5, OneMoves

LEMMA WriteInv ==
  ASSUME WebInv, NEW r \in Requests, WriteCache(r)
  PROVE  WebInv'
<1> DEFINE q == [request[r] EXCEPT !.at = "walk", !.key = NoCache]
           c == IF cache # NoCache /\ cache.key = request[r].key
                THEN [cache EXCEPT !.tree = request[r].tree, !.whole = TRUE] ELSE cache
<1>1. /\ request' = [request EXCEPT ![r] = q] /\ since' = since /\ request[r].at = "write"
      /\ files' = files /\ newest' = newest /\ sessions' = sessions /\ cache' = c
  BY DEF WriteCache, At
<1>2. /\ request[r] \in RequestRecords /\ since[r] \in [Files -> SUBSET Nat]
      /\ RequestOK(request[r], since[r]) /\ cache \in CacheRecords \cup {NoCache}
      /\ Outlived(request[r].key, request[r].tree.versions)
  BY <1>1 DEF WebInv, WebTyped
<1>3. /\ q \in RequestRecords /\ q.at = "walk" /\ q.path = request[r].path
      /\ q.tree = request[r].tree
  BY <1>2 DEF RequestRecords, Places, WithTree
<1>4. /\ c \in CacheRecords \cup {NoCache}
      /\ c # NoCache => Outlived(c.key, c.tree.versions) /\ \A f \in Files : c.key[f] <= newest
  <2>1. CASE cache # NoCache /\ cache.key = request[r].key
    <3>1. /\ c \in CacheRecords /\ c.key = request[r].key /\ c.tree = request[r].tree
          /\ \A f \in Files : cache.key[f] <= newest
      BY <1>2, <2>1 DEF CacheRecords, RequestRecords, WebInv
    <3>2. QED
      BY <1>2, <2>1, <3>1
  <2>2. CASE ~(cache # NoCache /\ cache.key = request[r].key)
    BY <1>2, <2>2 DEF WebInv
  <2>3. QED
    BY <2>1, <2>2
<1> HIDE DEF q, c
<1>5. RequestOK(q, since[r])
  BY <1>1, <1>2, <1>3 DEF RequestOK, WithKey, WithTree, Over
<1>6. QED
  BY <1>1, <1>2, <1>3, <1>4, <1>5, OneMoves

LEMMA EndsInv ==
  ASSUME WebInv, NEW r \in Requests, NEW at \in Over, Ends(r, at),
         files' = files, newest' = newest, sessions' = sessions, cache' = cache
  PROVE  WebInv'
<1> DEFINE q == [NoRequest EXCEPT !.at = at]
           had == [f \in Files |-> {}]
<1>1. /\ request' = [request EXCEPT ![r] = q] /\ since' = [since EXCEPT ![r] = had]
      /\ cache \in CacheRecords \cup {NoCache}
  BY DEF Ends, WebInv, WebTyped
<1>2. q \in RequestRecords /\ q.at = at /\ RequestOK(q, had)
  BY NoRequestOK
<1>3. had \in [Files -> SUBSET Nat]
  OBVIOUS
<1>4. q.at \notin {"create", "write", "open"}
  BY <1>2 DEF Over
<1> HIDE DEF q, had
<1>5. QED
  BY <1>1, <1>2, <1>3, <1>4, OneMoves DEF WebInv

LEMMA ServedInv ==
  ASSUME WebInv, NEW r \in Requests, Served(r)
  PROVE  WebInv'
<1> DEFINE had == [f \in Files |-> {}]
<1>1. /\ request' = [request EXCEPT ![r] = NoRequest] /\ since' = [since EXCEPT ![r] = had]
      /\ cache \in CacheRecords \cup {NoCache}
      /\ files' = files /\ newest' = newest /\ sessions' = sessions /\ cache' = cache
  BY DEF Served, WebInv, WebTyped
<1>2. NoRequest \in RequestRecords /\ NoRequest.at = "none" /\ RequestOK(NoRequest, had)
  BY NoRequestOK
<1>3. had \in [Files -> SUBSET Nat]
  OBVIOUS
<1> HIDE DEF had
<1>4. QED
  BY <1>1, <1>2, <1>3, OneMoves DEF WebInv

\* The path to a page that can be walked is walked as a whole.
LEMMA WalkedWhole ==
  ASSUME NEW r \in Requests, request[r].path \in Nodes, Page(r)
  PROVE  Walked(r) = Above[request[r].path]
<1>1. \A m \in Above[request[r].path] : Usable(request[r].tree, m)
  BY DEF Page, Walked
<1>2. \A n \in Above[request[r].path] : Above[n] \subseteq Above[request[r].path]
  BY TreeAssumption
<1>3. QED
  BY <1>1, <1>2 DEF Walked

LEMMA SessionInv ==
  ASSUME WebInv, NEW r \in Requests, GetSession(r)
  PROVE  WebInv'
<1>1. /\ request[r].at = "walk"
      /\ files' = files /\ newest' = newest /\ sessions' = sessions /\ cache' = cache
  BY DEF GetSession, At
<1>2. CASE request[r].sid \in Sids /\ sessions[request[r].sid] # NoSession
  <2> DEFINE q == [request[r] EXCEPT !.at = "access", !.user = request[r].sid]
  <2>1. request' = [request EXCEPT ![r] = q] /\ since' = since
    BY <1>2 DEF GetSession
  <2>2. /\ request[r] \in RequestRecords /\ since[r] \in [Files -> SUBSET Nat]
        /\ RequestOK(request[r], since[r]) /\ cache \in CacheRecords \cup {NoCache}
    BY DEF WebInv, WebTyped
  <2>3. /\ q \in RequestRecords /\ q.at = "access" /\ q.path = request[r].path
        /\ q.tree = request[r].tree /\ q.user \in Sids /\ q.sid \in Sids
    BY <1>2, <2>2 DEF RequestRecords, Places, WithTree
  <2> HIDE DEF q
  <2>4. RequestOK(q, since[r])
    BY <1>1, <2>2, <2>3 DEF RequestOK, WithKey, WithTree, Over
  <2>5. QED
    BY <1>1, <2>1, <2>2, <2>3, <2>4, OneMoves DEF WebInv
<1>3. CASE ~(request[r].sid \in Sids /\ sessions[request[r].sid] # NoSession)
  <2>1. Ends(r, "login") /\ "login" \in Over
    BY <1>3 DEF GetSession, Over
  <2>2. QED
    BY <1>1, <2>1, EndsInv
<1>4. QED
  BY <1>2, <1>3

LEMMA AccessInv ==
  ASSUME WebInv, NEW r \in Requests, GetAccess(r)
  PROVE  WebInv'
<1> DEFINE granted == IF sessions[request[r].sid] = NoSession THEN {} ELSE sessions[request[r].sid]
           q == [request[r] EXCEPT !.at = "check", !.granted = granted]
<1>1. /\ request[r].at = "access" /\ request' = [request EXCEPT ![r] = q] /\ since' = since
      /\ files' = files /\ newest' = newest /\ sessions' = sessions /\ cache' = cache
  BY DEF GetAccess, At
<1>2. /\ request[r] \in RequestRecords /\ since[r] \in [Files -> SUBSET Nat]
      /\ RequestOK(request[r], since[r]) /\ cache \in CacheRecords \cup {NoCache}
      /\ sessions \in [Sids -> (SUBSET Groups) \cup {NoSession}]
  BY DEF WebInv, WebTyped
<1>3. granted \in SUBSET Groups
  <2>1. request[r].sid \in Sids
    BY <1>1, <1>2 DEF RequestOK
  <2>2. QED
    BY <1>2, <2>1
<1> HIDE DEF granted
<1>4. /\ q \in RequestRecords /\ q.at = "check" /\ q.path = request[r].path
      /\ q.tree = request[r].tree /\ q.user = request[r].user
  BY <1>2, <1>3 DEF RequestRecords, Places, WithTree
<1> HIDE DEF q
<1>5. RequestOK(q, since[r])
  BY <1>1, <1>2, <1>4 DEF RequestOK, WithKey, WithTree, Over
<1>6. QED
  BY <1>1, <1>2, <1>4, <1>5, OneMoves DEF WebInv

\* There is a first child to go on with.
LEMMA FirstFound ==
  ASSUME NEW tree, NEW n \in Nodes, \E c \in Children[n] : InTree(tree, c)
  PROVE  First(tree, n) \in Nodes
<1> DEFINE places == {Order[c] : c \in {d \in Children[n] : InTree(tree, d)}}
<1>1. Children[n] \subseteq Nodes /\ \A c \in Nodes : Order[c] \in Nat
  BY TreeAssumption
<1>2. places \subseteq Nat /\ places # {}
  BY <1>1
<1>3. PICK least \in places : \A k \in places : least <= k
  BY <1>2, LeastNumber
<1>4. PICK c \in Children[n] : InTree(tree, c) /\ Order[c] = least
  BY <1>3
<1>5. \A d \in Children[n] : InTree(tree, d) => Order[c] <= Order[d]
  BY <1>3, <1>4
<1>6. First(tree, n) \in Children[n]
  BY <1>4, <1>5 DEF First
<1>7. QED
  BY <1>1, <1>6

LEMMA GoesOnInv ==
  ASSUME WebInv, NEW r \in Requests, request[r].at \in {"walk", "check"}, NEW path \in Nodes,
         GoesOn(r, path),
         files' = files, newest' = newest, sessions' = sessions, cache' = cache
  PROVE  WebInv'
<1> DEFINE q == [NoRequest EXCEPT !.at = "dispatch", !.path = path, !.sid = request[r].sid,
                                  !.token = request[r].token]
<1>1. request' = [request EXCEPT ![r] = q] /\ since' = since
  BY DEF GoesOn
<1>2. /\ request[r] \in RequestRecords /\ since[r] \in [Files -> SUBSET Nat]
      /\ RequestOK(request[r], since[r]) /\ cache \in CacheRecords \cup {NoCache}
  BY DEF WebInv, WebTyped
<1>3. q \in RequestRecords /\ q.at = "dispatch" /\ q.path = path
  <2>1. NoTree \in Trees
    BY DEF NoTree, Tree, Trees, Keys
  <2>2. QED
    BY <1>2, <2>1 DEF NoRequest, RequestRecords, Places
<1> HIDE DEF q
<1>4. RequestOK(q, since[r])
  BY <1>2, <1>3 DEF RequestOK, WithKey, WithTree, Over
<1>5. QED
  BY <1>1, <1>2, <1>3, <1>4, OneMoves DEF WebInv

LEMMA RendersInv ==
  ASSUME WebInv, NEW r \in Requests, request[r].at \in {"walk", "check"}, Renders(r),
         Granted(request[r]),
         files' = files, newest' = newest, sessions' = sessions, cache' = cache
  PROVE  WebInv'
<1> DEFINE q == [request[r] EXCEPT !.at = "rendered"]
<1>1. request' = [request EXCEPT ![r] = q] /\ since' = since
  BY DEF Renders
<1>2. /\ request[r] \in RequestRecords /\ since[r] \in [Files -> SUBSET Nat]
      /\ RequestOK(request[r], since[r]) /\ cache \in CacheRecords \cup {NoCache}
  BY DEF WebInv, WebTyped
<1>3. /\ q \in RequestRecords /\ q.at = "rendered" /\ q.path = request[r].path
      /\ q.tree = request[r].tree /\ q.user = request[r].user /\ q.granted = request[r].granted
      /\ q.token = request[r].token
  BY <1>2 DEF RequestRecords, Places, WithTree
<1> HIDE DEF q
<1>4. RequestOK(q, since[r])
  BY <1>2, <1>3 DEF RequestOK, WithKey, WithTree, Over, Granted
<1>5. QED
  BY <1>1, <1>2, <1>3, <1>4, OneMoves DEF WebInv

LEMMA CheckInv ==
  ASSUME WebInv, NEW r \in Requests, Check(r)
  PROVE  WebInv'
<1>1. /\ \/ request[r].at = "check"
         \/ request[r].at = "walk" /\ Walked(r) \cap Guarded = {}
      /\ files' = files /\ newest' = newest /\ sessions' = sessions /\ cache' = cache
  BY DEF Check, At
<1>2. request[r] \in RequestRecords /\ RequestOK(request[r], since[r])
  BY DEF WebInv, WebTyped
<1>3. request[r].path \in Nodes
  BY <1>1, <1>2 DEF RequestOK, Over
<1>4. CASE \E at \in Over : Ends(r, at)
  BY <1>1, <1>4, EndsInv
<1>5. CASE /\ Page(r) /\ request[r].path \in FirstChild
           /\ GoesOn(r, First(request[r].tree, request[r].path))
  <2>1. \E c \in Children[request[r].path] : InTree(request[r].tree, c)
    BY <1>3, <1>5, TreeAssumption DEF Page, Walked, Usable
  <2>2. QED
    BY <1>1, <1>3, <1>5, <2>1, FirstFound, GoesOnInv
<1>6. CASE request[r].path \in DOMAIN Alias /\ GoesOn(r, Alias[request[r].path])
  <2>1. Alias[request[r].path] \in Nodes
    BY <1>6, TreeAssumption
  <2>2. QED
    BY <1>1, <1>6, <2>1, GoesOnInv
<1>7. CASE /\ Required(r) \subseteq request[r].granted /\ Page(r) /\ Renders(r)
           /\ request[r].path \in Post => request[r].token
  <2>1. Walked(r) = Above[request[r].path]
    BY <1>3, <1>7, WalkedWhole
  <2>2. request[r].at = "check" => request[r].user \in Sids
    BY <1>2 DEF RequestOK
  <2>3. Granted(request[r])
    BY <1>1, <1>7, <2>1, <2>2 DEF Granted, Required
  <2>4. QED
    BY <1>1, <1>7, <2>3, RendersInv
<1>8. QED
  BY <1>4, <1>5, <1>6, <1>7 DEF Check, Over

\* A version never comes twice, so what is out of date stays out of date; and all
\* requests under way see a menu file change.
LEMMA MenuInv ==
  ASSUME WebInv, NEW f \in Files, MenuChanges(f)
  PROVE  WebInv'
<1>1. /\ files \in Keys /\ newest \in Nat /\ \A g \in Files : files[g] <= newest
      /\ request \in [Requests -> RequestRecords]
      /\ since \in [Requests -> [Files -> SUBSET Nat]]
      /\ cache' = cache /\ sessions' = sessions /\ request' = request
  BY DEF WebInv, WebTyped, MenuChanges
<1> DEFINE w == IF newest' = newest THEN 0 ELSE newest'
<1>2. /\ files' = [files EXCEPT ![f] = w] /\ newest' \in Nat /\ w \in Nat
      /\ w <= newest' /\ newest <= newest' /\ (w = 0 \/ newest < w)
      /\ \A n \in Nat : n <= newest => n <= newest'
  <2>1. files' = [files EXCEPT ![f] = w]
    BY DEF MenuChanges
  <2>2. newest' = newest + 1 \/ newest' = newest
    BY DEF MenuChanges
  <2>3. QED
    BY <1>1, <2>1, <2>2
<1> HIDE DEF w
<1>3. /\ files' \in Keys /\ files'[f] = w /\ \A g \in Files \ {f} : files'[g] = files[g]
  BY <1>1, <1>2 DEF Keys
<1>4. \A g \in Files : files'[g] <= newest'
  BY <1>1, <1>2, <1>3 DEF Keys
<1>5. ASSUME NEW r \in Requests
      PROVE  /\ since'[r] \in [Files -> SUBSET Nat] /\ \A g \in Files : since[r][g] \subseteq since'[r][g]
             /\ request[r].path # NoSession => w \in since'[r][f]
  <2>1. since'[r] = IF request[r].path = NoSession THEN since[r]
                    ELSE [since[r] EXCEPT ![f] = since[r][f] \cup {w}]
    BY <1>3, <1>5 DEF MenuChanges
  <2>2. since[r] \in [Files -> SUBSET Nat] /\ f \in Files
    BY <1>1
  <2>3. CASE request[r].path = NoSession
    BY <2>1, <2>2, <2>3
  <2>4. CASE request[r].path # NoSession
    <3>1. since'[r] = [since[r] EXCEPT ![f] = since[r][f] \cup {w}]
      BY <2>1, <2>4
    <3>2. /\ DOMAIN since'[r] = Files /\ since'[r] = [g \in Files |-> since'[r][g]]
          /\ since'[r][f] = since[r][f] \cup {w}
          /\ \A g \in Files \ {f} : since'[r][g] = since[r][g]
      BY <2>2, <3>1
    <3>3. \A g \in Files : since'[r][g] \in SUBSET Nat
      BY <1>2, <2>2, <3>2
    <3>4. QED
      BY <3>2, <3>3
  <2>5. QED
    BY <2>3, <2>4
<1>6. WebTyped'
  <2>1. DOMAIN since' = Requests /\ since' = [r \in Requests |-> since'[r]]
    BY DEF MenuChanges
  <2>2. since' \in [Requests -> [Files -> SUBSET Nat]]
    BY <1>5, <2>1
  <2>3. cache' \in CacheRecords \cup {NoCache} /\ sessions' \in [Sids -> (SUBSET Groups) \cup {NoSession}]
    BY <1>1 DEF WebInv, WebTyped
  <2>4. QED
    BY <1>1, <1>2, <1>3, <1>4, <2>2, <2>3 DEF WebTyped
<1>7. ASSUME NEW r \in Requests PROVE RequestOK(request[r], since[r])'
  <2>1. RequestOK(request[r], since[r]) /\ request'[r] = request[r]
    BY <1>1 DEF WebInv
  <2>2. ASSUME request[r].at \notin Over \cup {"none"}
        PROVE  request[r].path \in Nodes /\ \A g \in Files : files'[g] \in since'[r][g]
    <3>1. request[r].path \in Nodes /\ request[r].path # NoSession
      BY <2>1, <2>2, TreeAssumption DEF RequestOK
    <3>2. \A g \in Files : files[g] \in since[r][g]
      BY <2>1, <2>2 DEF RequestOK
    <3>3. QED
      BY <1>3, <1>5, <3>1, <3>2
  <2>3. ASSUME request[r].at \in WithKey
        PROVE  /\ request[r].key \in Keys
               /\ \A g \in Files : request[r].key[g] \in since'[r][g] /\ request[r].key[g] <= newest'
    <3>1. /\ request[r].key \in Keys
          /\ \A g \in Files : request[r].key[g] \in since[r][g] /\ request[r].key[g] <= newest
      BY <2>1, <2>3 DEF RequestOK
    <3>2. QED
      BY <1>2, <1>5, <3>1 DEF Keys
  <2>4. request[r].at \in WithTree => \A g \in Files : request[r].tree.versions[g] \in since'[r][g]
    BY <1>5, <2>1 DEF RequestOK
  <2>5. /\ request[r].at \in {"access", "check"} => request[r].user \in Sids
        /\ request[r].at = "access" => request[r].sid \in Sids
        /\ request[r].at = "rendered" => Granted(request[r])
    BY <2>1 DEF RequestOK
  <2>6. QED
    BY <2>1, <2>2, <2>3, <2>4, <2>5 DEF RequestOK, Granted
<1>8. ASSUME NEW key \in Keys, NEW versions, Outlived(key, versions),
             \A g \in Files : key[g] <= newest
      PROVE  \A g \in Files : versions[g] # key[g] =>
               /\ key[g] # 0 /\ files'[g] # key[g]
               /\ \A s \in Requests : request'[s].at = "open" /\ request'[s].key[g] = key[g]
                                        => versions[g] \in since'[s][g]
  <2> SUFFICES ASSUME NEW g \in Files, versions[g] # key[g]
               PROVE  /\ key[g] # 0 /\ files'[g] # key[g]
                      /\ \A s \in Requests : request'[s].at = "open" /\ request'[s].key[g] = key[g]
                                               => versions[g] \in since'[s][g]
    OBVIOUS
  <2>1. /\ key[g] # 0 /\ files[g] # key[g]
        /\ \A s \in Requests : request[s].at = "open" /\ request[s].key[g] = key[g]
                                 => versions[g] \in since[s][g]
    BY <1>8 DEF Outlived, At
  <2>2. key[g] \in Nat /\ key[g] <= newest
    BY <1>8 DEF Keys
  <2>3. files'[g] # key[g]
    BY <1>1, <1>2, <1>3, <2>1, <2>2
  <2>4. QED
    BY <1>1, <1>5, <2>1, <2>3
<1>9. ASSUME NEW r \in Requests, request[r].at \in {"create", "write"}
      PROVE  Outlived(request[r].key, request[r].tree.versions)'
  <2>1. PICK key, versions : key = request[r].key /\ versions = request[r].tree.versions
    OBVIOUS
  <2>2. Outlived(key, versions) /\ key \in Keys /\ \A g \in Files : key[g] <= newest
    BY <1>9, <2>1 DEF WebInv, RequestOK, WithKey
  <2>3. \A g \in Files : versions[g] # key[g] =>
               /\ key[g] # 0 /\ files'[g] # key[g]
               /\ \A s \in Requests : request'[s].at = "open" /\ request'[s].key[g] = key[g]
                                        => versions[g] \in since'[s][g]
    BY <1>8, <2>2
  <2>4. QED
    BY <1>1, <2>1, <2>3 DEF Outlived, At
<1>10. ASSUME cache # NoCache
       PROVE  Outlived(cache.key, cache.tree.versions)' /\ \A g \in Files : cache.key[g] <= newest'
  <2>1. PICK key, versions : key = cache.key /\ versions = cache.tree.versions
    OBVIOUS
  <2>2. Outlived(key, versions) /\ key \in Keys /\ \A g \in Files : key[g] <= newest
    BY <1>10, <2>1 DEF WebInv, WebTyped, CacheRecords
  <2>3. \A g \in Files : versions[g] # key[g] =>
               /\ key[g] # 0 /\ files'[g] # key[g]
               /\ \A s \in Requests : request'[s].at = "open" /\ request'[s].key[g] = key[g]
                                        => versions[g] \in since'[s][g]
    BY <1>8, <2>2
  <2>4. \A g \in Files : key[g] <= newest'
    BY <1>2, <2>2 DEF Keys
  <2>5. QED
    BY <1>1, <2>1, <2>3, <2>4 DEF Outlived, At
<1>11. QED
  BY <1>1, <1>6, <1>7, <1>9, <1>10 DEF WebInv

LEMMA SessionEndsInv ==
  ASSUME WebInv, NEW s \in Sids, SessionEnds(s)
  PROVE  WebInv'
<1>1. /\ sessions' = [sessions EXCEPT ![s] = NoSession]
      /\ files' = files /\ newest' = newest /\ cache' = cache /\ request' = request /\ since' = since
  BY DEF SessionEnds
<1>2. WebTyped'
  BY <1>1 DEF WebInv, WebTyped
<1>3. QED
  BY <1>1, <1>2 DEF WebInv, RequestOK, Granted, Outlived, At

LEMMA WebStep ==
  ASSUME WebInv, WebNext
  PROVE  WebInv'
<1>1. ASSUME NEW r \in Requests, RequestStep(r) \/ Served(r) PROVE WebInv'
  BY <1>1, FingerprintInv, OpenInv, BuildInv, CreateInv, WriteInv, SessionInv, AccessInv, CheckInv,
     ServedInv DEF RequestStep
<1>2. QED
  BY <1>1, ArriveInv, MenuInv, SessionEndsInv DEF WebNext

\* Whatever the menu, however many processes serve requests, put the menu
\* together and write, remove and read the cache file while packages come and go
\* (dispatcher.lua): a page is rendered only for whom it is meant, and from menu
\* files that were there since the request began.
THEOREM PagesServed == RouterSpec => []PagesHold
<1> DEFINE Inv == program = "dispatch" => WebInv
<1>1. RouterInit => Inv
  BY WebStart DEF RouterInit
<1>2. Inv /\ [RouterNext]_routerVars => Inv'
  <2> SUFFICES ASSUME Inv, [RouterNext]_routerVars, program' = "dispatch" PROVE WebInv'
    OBVIOUS
  <2>1. CASE program = "dispatch" /\ WebNext
    BY <2>1, WebStep
  <2>2. CASE program' = program /\ UNCHANGED webVars
    BY <2>2 DEF webVars, WebInv, WebTyped, RequestOK, Granted, Outlived, At
  <2>3. QED
    BY <2>1, <2>2 DEF RouterNext, routerVars
<1>3. Inv => PagesHold
  <2> SUFFICES ASSUME WebInv PROVE ServedRight
    BY DEF PagesHold
  <2>1. ServedIfAllowed
    BY DEF WebInv, ServedIfAllowed, RequestOK, Granted, At
  <2>2. ASSUME NEW r \in Requests, At(r, "rendered"), NEW n \in Above[request[r].path]
        PROVE  request[r].tree.versions[File[n]] \in since[r][File[n]]
    <3>1. RequestOK(request[r], since[r]) /\ request[r].at = "rendered"
      BY <2>2 DEF WebInv, At
    <3>2. request[r].path \in Nodes
      BY <3>1 DEF RequestOK, Over
    <3>3. File[n] \in Files
      BY <2>2, <3>2, TreeAssumption
    <3>4. QED
      BY <3>1, <3>3 DEF RequestOK, WithTree
  <2>3. QED
    BY <2>1, <2>2 DEF ServedRight, MenuFresh
<1>4. QED
  BY <1>1, <1>2, <1>3, PTL DEF RouterSpec

-----------------------------------------------------------------------------
(* The parser of templates *)

Whats == Texts \cup Tags \cup {Nothing, EndOfFile}
Chunks == [what : Whats, line : Nat, at : Nat, front : BOOLEAN]
Parsers == [in_expr : BOOLEAN, line : Nat, strip_before : BOOLEAN, strip_after : BOOLEAN,
            cur : Chunks, prv : Chunks]
ForLua == {"code", "expr"}

Drops(what) == what # Nothing /\ what.after

\* What the parser counts is what Lua got; the chunk it has found lies behind a
\* text, which brings Lua no line, and begins where the parser has counted to; and
\* the wish of the last tag is kept until the text behind it is formatted.
ParserInv ==
  /\ parser \in Parsers /\ produced \in Nat /\ passed \in Nat
  /\ parser.line = produced
  /\ blamed = <<>> =>
       /\ parser.in_expr => parser.cur.what.type = "text"
       /\ parser.cur.what.type \in ForLua => parser.cur.line = produced
       /\ parser.prv.what.type \in ForLua => parser.prv.line = produced - parser.prv.what.lines
       /\ parser.cur.what.type \notin {"text", "eof"}
            => (parser.strip_after <=> Drops(parser.cur.what))
       /\ parser.cur.what.type = "text" => (parser.cur.front <=> Drops(parser.prv.what))
  /\ TextKept /\ ErrorLine

LEMMA LineEndsType == \A what \in Whats : LineEnds(what) \in Nat
<1>1. \A what \in Whats : what.type \in ForLua => what.lines \in Nat
  BY LinesAssumption DEF Whats, Texts, Tags, Nothing, EndOfFile, ForLua
<1>2. QED
  BY <1>1 DEF LineEnds, ForLua

LEMMA ParserStart == ParserInit => ParserInv
<1> SUFFICES ASSUME ParserInit PROVE ParserInv
  OBVIOUS
<1>1. Nothing \in Whats /\ Nothing.type = "none"
  BY DEF Whats, Nothing
<1>2. parser \in Parsers /\ parser.line = 0 /\ parser.cur.what = Nothing /\ parser.prv.what = Nothing
      /\ ~parser.in_expr /\ ~parser.strip_after
  BY <1>1 DEF ParserInit, Parsers, Chunks, Chunk
<1>3. handed = Nothing /\ blamed = <<>> /\ produced = 0 /\ passed = 0
  BY DEF ParserInit
<1>4. TextKept /\ ErrorLine
  BY <1>3 DEF TextKept, ErrorLine
<1>5. QED
  BY <1>1, <1>2, <1>3, <1>4 DEF ParserInv, Drops, ForLua

\* A chunk is formatted when the one behind it, "p.cur", is known.
LEMMA FormatInv ==
  ASSUME ParserInv, blamed = <<>>, NEW p, p \in Parsers, FormatChunk(p), passed' \in Nat,
         p.line = parser.line, p.cur.line = produced,
         p.in_expr => p.cur.what.type = "text",
         p.cur.what.type \in ForLua => parser.cur.what.type = "text",
         p.cur.what.type \notin {"text", "eof"} => /\ p.strip_after <=> Drops(p.cur.what)
                                                   /\ p.strip_before <=> p.cur.what.before,
         p.cur.what.type = "text" => (p.cur.front <=> Drops(parser.cur.what)),
         p.cur.what.type = "text" => parser.cur.what.type # "text"
  PROVE  ParserInv'
<1>1. parser.cur \in Chunks /\ parser.cur.what \in Whats /\ parser.line = produced /\ produced \in Nat
  BY DEF ParserInv, Parsers, Chunks
<1>2. LineEnds(parser.cur.what) \in Nat /\ Counted(parser.cur.what) = LineEnds(parser.cur.what)
  BY <1>1, LineEndsType DEF Counted
<1>3. /\ parser' = [p EXCEPT !.prv = parser.cur, !.line = @ + Counted(parser.cur.what)]
      /\ produced' = produced + LineEnds(parser.cur.what)
      /\ earlier' = parser.prv.what /\ blamed' = blamed
      /\ handed' = IF parser.cur.what.type = "text"
                   THEN [type |-> "text", front |-> parser.cur.front, back |-> p.strip_before]
                   ELSE Nothing
  BY DEF FormatChunk
<1>4. /\ parser' \in Parsers /\ parser'.cur = p.cur /\ parser'.prv = parser.cur
      /\ parser'.line = p.line + Counted(parser.cur.what) /\ parser'.in_expr = p.in_expr
      /\ parser'.strip_after = p.strip_after
  <2>1. p.line + Counted(parser.cur.what) \in Nat
    BY <1>1, <1>2
  <2>2. QED
    BY <1>1, <1>3, <2>1 DEF Parsers
<1>5. parser'.line = produced' /\ produced' \in Nat
  BY <1>1, <1>2, <1>3, <1>4
<1>6. p.cur.what.type \in ForLua => p.cur.line = produced'
  <2>1. parser.cur.what.type = "text" => LineEnds(parser.cur.what) = 0
    BY DEF LineEnds
  <2>2. QED
    BY <1>1, <1>3, <2>1
<1>7. parser.cur.what.type \in ForLua => parser.cur.line = produced' - parser.cur.what.lines
  <2> SUFFICES ASSUME parser.cur.what.type \in ForLua
               PROVE  parser.cur.line = produced' - parser.cur.what.lines
    OBVIOUS
  <2>1. LineEnds(parser.cur.what) = parser.cur.what.lines /\ parser.cur.line = produced
    BY DEF LineEnds, ParserInv, ForLua
  <2>2. QED
    BY <1>1, <1>2, <1>3, <2>1
<1>8. TextKept'
  <2> SUFFICES ASSUME handed' # Nothing
               PROVE  /\ handed'.front <=> Drops(earlier')
                      /\ parser'.cur.what.type # "eof" => (handed'.back <=> parser'.cur.what.before)
    BY DEF TextKept, Drops
  <2>1. parser.cur.what.type = "text"
    BY <1>3
  <2>2. handed'.front = parser.cur.front /\ handed'.back = p.strip_before
    BY <1>3, <2>1
  <2>3. parser.cur.front <=> Drops(parser.prv.what)
    BY <2>1 DEF ParserInv
  <2>4. QED
    BY <1>3, <1>4, <2>1, <2>2, <2>3
<1>9. ErrorLine'
  BY <1>3 DEF ErrorLine
<1>10. QED
  BY <1>3, <1>4, <1>5, <1>6, <1>7, <1>8, <1>9 DEF ParserInv

LEMMA ChunkRead ==
  ASSUME ParserInv, NEW what, what \in Whats, NEW at, at \in Nat, NEW front, front \in BOOLEAN
  PROVE  Chunk(what, parser.line, at, front) \in Chunks
BY DEF ParserInv, Parsers, Chunks, Chunk

LEMMA ReadTextInv ==
  ASSUME ParserInv, NEW last, last \in BOOLEAN, ReadText(last)
  PROVE  ParserInv'
<1> DEFINE found(text) == Chunk(text, parser.line,
                            passed + IF parser.strip_after THEN text.lead ELSE 0, parser.strip_after)
           next(text) == [parser EXCEPT !.in_expr = ~last, !.cur = found(text)]
<1>1. PICK text \in Texts : FormatChunk(next(text)) /\ passed' = passed + text.lead + text.rest
  BY DEF ReadText
<1>2. /\ blamed = <<>> /\ parser.cur.what.type \notin {"text", "eof"}
      /\ parser \in Parsers /\ passed \in Nat /\ parser.line = produced
      /\ parser.strip_after <=> Drops(parser.cur.what)
  BY DEF ReadText, ParserInv
<1>3. text \in Whats /\ text.type = "text" /\ text.lead \in Nat /\ text.rest \in Nat
  BY LinesAssumption DEF Texts, Whats
<1>4. found(text) \in Chunks
  <2>1. passed + (IF parser.strip_after THEN text.lead ELSE 0) \in Nat
    BY <1>2, <1>3
  <2>2. parser.strip_after \in BOOLEAN
    BY <1>2 DEF Parsers
  <2>3. QED
    BY <1>3, <2>1, <2>2, ChunkRead
<1>5. found(text).what = text /\ found(text).line = parser.line /\ found(text).front = parser.strip_after
  BY DEF Chunk
<1> HIDE DEF found
<1>6. /\ next(text) \in Parsers /\ next(text).line = parser.line /\ next(text).cur = found(text)
  BY <1>2, <1>4 DEF Parsers
<1> HIDE DEF next
<1>7. PICK p : p = next(text)
  OBVIOUS
<1>8. p \in Parsers /\ FormatChunk(p) /\ p.line = parser.line /\ p.cur.line = produced
  BY <1>1, <1>2, <1>5, <1>6, <1>7, Zenon
<1>9. passed' \in Nat
  BY <1>1, <1>2, <1>3
<1>10. p.cur.what.type = "text" /\ (p.cur.front <=> Drops(parser.cur.what))
  BY <1>2, <1>3, <1>5, <1>6, <1>7, Zenon
<1>11. QED
  BY <1>2, <1>8, <1>9, <1>10, FormatInv DEF ForLua

LEMMA ReadEndInv ==
  ASSUME ParserInv, ReadEnd
  PROVE  ParserInv'
<1> DEFINE found == Chunk(EndOfFile, parser.line, passed, FALSE)
           next == [parser EXCEPT !.cur = found]
<1>1. FormatChunk(next) /\ passed' = passed /\ blamed = <<>> /\ ~parser.in_expr
  BY DEF ReadEnd
<1>2. parser \in Parsers /\ passed \in Nat /\ parser.line = produced
  BY DEF ParserInv
<1>3. EndOfFile \in Whats /\ EndOfFile.type = "eof"
  BY DEF Whats, EndOfFile
<1>4. found \in Chunks /\ found.what = EndOfFile /\ found.line = parser.line
  BY <1>2, <1>3, ChunkRead DEF Chunk
<1> HIDE DEF found
<1>5. next \in Parsers /\ next.line = parser.line /\ next.cur = found /\ next.in_expr = parser.in_expr
  BY <1>2, <1>4 DEF Parsers
<1> HIDE DEF next
<1>6. PICK p : p = next
  OBVIOUS
<1>7. QED
  BY <1>1, <1>2, <1>3, <1>4, <1>5, <1>6, FormatInv DEF ForLua

LEMMA ReadTagInv ==
  ASSUME ParserInv, ReadTag
  PROVE  ParserInv'
<1> DEFINE found(tag) == Chunk(tag, parser.line, passed, FALSE)
           next(tag) == [parser EXCEPT !.in_expr = FALSE,
             !.strip_before = StripAgain(@, tag.before), !.strip_after = StripAgain(@, tag.after),
             !.cur = found(tag)]
<1>1. PICK tag \in Tags : FormatChunk(next(tag)) /\ passed' = passed + tag.lines
  BY DEF ReadTag
<1>2. /\ blamed = <<>> /\ parser.cur.what.type = "text"
      /\ parser \in Parsers /\ passed \in Nat /\ parser.line = produced
  BY DEF ReadTag, ParserInv
<1>3. /\ tag \in Whats /\ tag.type \notin {"text", "eof", "none"} /\ tag.lines \in Nat
      /\ tag.before \in BOOLEAN /\ tag.after \in BOOLEAN
  BY LinesAssumption DEF Tags, Whats
<1>4. Drops(tag) <=> tag.after
  BY <1>3 DEF Drops, Nothing
<1>5. found(tag) \in Chunks /\ found(tag).what = tag /\ found(tag).line = parser.line
  BY <1>2, <1>3, ChunkRead DEF Chunk
<1> HIDE DEF found
<1>6. /\ next(tag) \in Parsers /\ next(tag).line = parser.line /\ next(tag).cur = found(tag)
      /\ ~next(tag).in_expr /\ next(tag).strip_after = tag.after /\ next(tag).strip_before = tag.before
  BY <1>2, <1>3, <1>5 DEF Parsers, StripAgain
<1> HIDE DEF next
<1>7. PICK p : p = next(tag)
  OBVIOUS
<1>8. /\ p \in Parsers /\ FormatChunk(p) /\ passed' \in Nat /\ p.line = parser.line /\ p.cur.line = produced
      /\ ~p.in_expr /\ p.cur.what.type \notin {"text", "eof"}
      /\ p.strip_after <=> Drops(p.cur.what)
      /\ p.strip_before <=> p.cur.what.before
  <2>1. p \in Parsers /\ FormatChunk(p) /\ p.line = parser.line /\ p.cur.line = produced /\ ~p.in_expr
    BY <1>1, <1>2, <1>5, <1>6, <1>7, Zenon
  <2>2. passed' \in Nat
    BY <1>1, <1>2, <1>3
  <2>3. p.cur.what = tag /\ p.strip_after = tag.after /\ p.strip_before = tag.before
    BY <1>5, <1>6, <1>7, Zenon
  <2>4. QED
    BY <1>3, <1>4, <2>1, <2>2, <2>3, Zenon
<1>9. QED
  BY <1>2, <1>8, FormatInv

LEMMA ErrorInv ==
  ASSUME ParserInv, NEW inside \in 0..MaxLines, TemplateError(inside)
  PROVE  ParserInv'
<1>1. /\ blamed = <<>> /\ UNCHANGED <<parser, handed, produced, passed, tags, earlier>>
      /\ blamed' = <<1 + parser.prv.at + inside,
           parser.prv.at + ((1 + produced - LineEnds(parser.prv.what) + inside) - parser.prv.line)>>
  BY DEF TemplateError
<1>2. blamed' # <<>>
  BY <1>1
<1>3. ASSUME parser.prv.what.type \in ForLua PROVE blamed'[1] = blamed'[2]
  <2>1. /\ LineEnds(parser.prv.what) = parser.prv.what.lines
        /\ parser.prv.line = produced - parser.prv.what.lines
    BY <1>1, <1>3 DEF LineEnds, ParserInv, ForLua
  <2>2. /\ parser.prv.line \in Nat /\ parser.prv.at \in Nat /\ produced \in Nat /\ inside \in Nat
        /\ LineEnds(parser.prv.what) \in Nat
    BY LinesAssumption, LineEndsType DEF ParserInv, Parsers, Chunks
  <2>3. 1 + parser.prv.at + inside
          = parser.prv.at + ((1 + produced - LineEnds(parser.prv.what) + inside) - parser.prv.line)
    BY <2>1, <2>2
  <2>4. QED
    BY <1>1, <2>3
<1>4. TextKept' /\ ErrorLine'
  BY <1>1, <1>2, <1>3 DEF TextKept, ErrorLine, ForLua
<1>5. QED
  BY <1>1, <1>2, <1>4 DEF ParserInv

LEMMA UnclosedInv ==
  ASSUME ParserInv, NEW lines \in 0..MaxLines, UnclosedTag(lines)
  PROVE  ParserInv'
<1>1. /\ parser' = [parser EXCEPT !.prv = parser.cur] /\ passed' = passed + lines
      /\ blamed' = <<passed', passed'>> /\ UNCHANGED <<handed, produced, tags, earlier>>
  BY DEF UnclosedTag
<1>2. parser' \in Parsers /\ parser'.line = parser.line /\ passed' \in Nat /\ blamed' # <<>>
  BY <1>1, LinesAssumption DEF ParserInv, Parsers
<1>3. TextKept' /\ ErrorLine'
  BY <1>1, <1>2 DEF TextKept, ErrorLine
<1>4. QED
  BY <1>1, <1>2, <1>3 DEF ParserInv

LEMMA ParserStep ==
  ASSUME ParserInv, ParserNext
  PROVE  ParserInv'
BY ReadTextInv, ReadEndInv, ReadTagInv, ErrorInv, UnclosedInv DEF ParserNext

\* Whatever texts and tags a template is made of (template_parser.c): white space
\* is dropped where the tags around it ask for it, and an error in code or in an
\* expression is told with its line, though the parser formats a chunk only when
\* it has found the next one, and by then has counted on.
THEOREM TemplatesRead == RouterSpec => []TemplateHolds
<1> DEFINE Inv == program = "template" => ParserInv
<1>1. RouterInit => Inv
  BY ParserStart DEF RouterInit
<1>2. Inv /\ [RouterNext]_routerVars => Inv'
  <2> SUFFICES ASSUME Inv, [RouterNext]_routerVars, program' = "template" PROVE ParserInv'
    OBVIOUS
  <2>1. CASE program = "template" /\ ParserNext
    BY <2>1, ParserStep
  <2>2. CASE program' = program /\ UNCHANGED parserVars
    BY <2>2 DEF parserVars, ParserInv, TextKept, ErrorLine
  <2>3. QED
    BY <2>1, <2>2 DEF RouterNext, routerVars, libraryVars
<1>3. Inv => TemplateHolds
  BY DEF ParserInv, TemplateHolds, TemplateSound
<1>4. QED
  BY <1>1, <1>2, <1>3, PTL DEF RouterSpec

-----------------------------------------------------------------------------
(* Hints on hosts *)

HintRecords == [ip : Ip4s \cup {NoAddr}, ip6 : Ip6s \cup {NoAddr}, name : HostNames \cup {NoName}]
Sources == {"neighbours", "hosts", "leases", "ethers", "interfaces", "lookup"}

Own(m, name) == name = NoName \/ <<m, name>> \in told

\* Nothing is sent before the lookup, which leaves the timer set as long as it
\* goes on and the callback as long as nothing is sent.
HintInv ==
  /\ \A m \in DOMAIN hints : hints[m] \in HintRecords /\ Own(m, hints[m].name)
  /\ source \in Sources \cup {"waiting", "over"}
  /\ source \in Sources \/ callback => replies = 0 /\ resolved = {} /\ DOMAIN answer = {}
  /\ source \in Sources => ~callback /\ ~timer
  /\ source = "waiting" => timer /\ (~callback => replies = 1)
  /\ source = "over" => replies = 1 /\ ~callback /\ ~timer
  /\ NamesBelong /\ ResolvedShown

LEMMA HintStart == HintInit => HintInv
<1> SUFFICES ASSUME HintInit PROVE HintInv
  OBVIOUS
<1>1. DOMAIN hints = {} /\ DOMAIN answer = {} /\ resolved = {} /\ replies = 0 /\ ~callback /\ ~timer
      /\ source = "neighbours"
  BY DEF HintInit
<1>2. NamesBelong /\ ResolvedShown
  BY <1>1 DEF NamesBelong, ResolvedShown
<1>3. QED
  BY <1>1, <1>2 DEF HintInv, Sources

\* What a source says of a host makes or completes its hint.
LEMMA TableInv ==
  ASSUME HintInv, NEW m \in Macs, NEW hint \in HintRecords, hints' = SetHint(m, hint),
         told \subseteq told', hint.name = NoName \/ <<m, hint.name>> \in told',
         UNCHANGED <<source, callback, timer, replies, answer, resolved>>
  PROVE  HintInv'
<1>1. /\ DOMAIN hints' = DOMAIN hints \cup {m} /\ hints'[m] = hint
      /\ \A x \in DOMAIN hints \ {m} : hints'[x] = hints[x]
  BY DEF SetHint
<1>2. ASSUME NEW x \in DOMAIN hints'
      PROVE  /\ hints'[x] \in HintRecords
             /\ hints'[x].name = NoName \/ <<x, hints'[x].name>> \in told'
  BY <1>1 DEF HintInv, Own
<1>3. NamesBelong' /\ ResolvedShown'
  BY DEF HintInv, NamesBelong, ResolvedShown
<1>4. QED
  BY <1>2, <1>3 DEF HintInv, Own

LEMMA HintType ==
  ASSUME HintInv, NEW m
  PROVE  Hint(m) \in HintRecords /\ Own(m, Hint(m).name)
BY DEF HintInv, Hint, NoHint, HintRecords, Own

LEMMA NeighbourInv ==
  ASSUME HintInv, NEW m \in Macs, NEW ip \in Ip4s \cup {NoAddr}, NEW ip6 \in Ip6s \cup {NoAddr},
         Neighbour(m, ip, ip6)
  PROVE  HintInv'
<1> DEFINE hint == [Hint(m) EXCEPT !.ip = IF ip = NoAddr THEN @ ELSE ip,
                                   !.ip6 = IF ip6 = NoAddr THEN @ ELSE ip6]
<1>1. hint \in HintRecords /\ hint.name = Hint(m).name
  BY HintType DEF HintRecords
<1>2. hints' = SetHint(m, hint) /\ UNCHANGED <<source, callback, timer, replies, answer, told, resolved>>
  BY DEF Neighbour
<1>3. hint.name = NoName \/ <<m, hint.name>> \in told
  BY <1>1, HintType DEF Own
<1> HIDE DEF hint
<1>4. QED
  BY <1>1, <1>2, <1>3, TableInv

LEMMA ReadHintInv ==
  ASSUME HintInv, NEW m \in Macs, NEW ip \in Ip4s \cup {NoAddr}, NEW ip6 \in Ip6s \cup {NoAddr},
         NEW name \in HostNames \cup {NoName}, ReadHint(m, ip, ip6, name)
  PROVE  HintInv'
<1> DEFINE hint == [ip   |-> Known(Hint(m).ip, ip, NoAddr),
                    ip6  |-> Known(Hint(m).ip6, ip6, NoAddr),
                    name |-> Known(Hint(m).name, name, NoName)]
<1>1. hint \in HintRecords /\ hint.name \in {Hint(m).name, name}
  BY HintType DEF HintRecords, Known
<1>2. /\ hints' = SetHint(m, hint) /\ told' = told \cup {<<m, name>>}
      /\ UNCHANGED <<source, callback, timer, replies, answer, resolved>>
  BY DEF ReadHint, FilledIn
<1>3. told \subseteq told' /\ (hint.name = NoName \/ <<m, hint.name>> \in told')
  BY <1>1, <1>2, HintType DEF Own
<1> HIDE DEF hint
<1>4. QED
  BY <1>1, <1>2, <1>3, TableInv

LEMMA SourceInv ==
  ASSUME HintInv, NextSource
  PROVE  HintInv'
<1>1. /\ source \in Sources /\ source' \in Sources
      /\ UNCHANGED <<hints, callback, timer, replies, answer, told, resolved>>
  BY DEF NextSource, After, Sources
<1>2. NamesBelong' /\ ResolvedShown'
  BY <1>1 DEF HintInv, NamesBelong, ResolvedShown
<1>3. QED
  BY <1>1, <1>2 DEF HintInv, Own, Sources

\* An answer without names has those of the sources.
LEMMA AnswerPlain ==
  ASSUME HintInv, Finish(NoNames), resolved = {}, UNCHANGED <<hints, told, resolved>>
  PROVE  NamesBelong' /\ ResolvedShown'
<1>1. DOMAIN answer' = DOMAIN hints /\ \A m \in DOMAIN hints : answer'[m] = hints[m]
  BY DEF Finish, NoNames
<1>2. QED
  BY <1>1 DEF HintInv, Own, NamesBelong, ResolvedShown

LEMMA LookupInv ==
  ASSUME HintInv, Lookup
  PROVE  HintInv'
<1>1. /\ source = "lookup" /\ UNCHANGED <<hints, told, resolved>>
      /\ replies = 0 /\ resolved = {} /\ DOMAIN answer = {} /\ ~callback /\ ~timer
  BY DEF Lookup, HintInv, Sources
<1>2. CASE source' = "waiting" /\ callback' /\ timer' /\ UNCHANGED <<replies, answer>>
  <2>1. NamesBelong' /\ ResolvedShown'
    BY <1>1, <1>2 DEF NamesBelong, ResolvedShown
  <2>2. QED
    BY <1>1, <1>2, <2>1 DEF HintInv, Sources, Own
<1>3. CASE source' = "over" /\ Finish(NoNames) /\ UNCHANGED <<callback, timer>>
  <2>1. replies' = 1
    BY <1>1, <1>3 DEF Finish
  <2>2. QED
    BY <1>1, <1>3, <2>1, AnswerPlain DEF HintInv, Sources, Own
<1>4. QED
  BY <1>2, <1>3 DEF Lookup

LEMMA CallEndsInv ==
  ASSUME HintInv, CallEnds, ~timer', source = "waiting"
  PROVE  HintInv'
<1>1. /\ ~callback' /\ source' = "over" /\ UNCHANGED <<hints, told, resolved>>
  BY DEF CallEnds
<1>2. CASE callback
  <2>1. Finish(NoNames) /\ replies = 0 /\ resolved = {}
    BY <1>2 DEF CallEnds, HintInv
  <2>2. replies' = 1
    BY <2>1 DEF Finish
  <2>3. NamesBelong' /\ ResolvedShown'
    BY <1>1, <2>1, AnswerPlain
  <2>4. QED
    BY <1>1, <2>2, <2>3 DEF HintInv, Sources, Own
<1>3. CASE ~callback
  <2>1. UNCHANGED <<replies, answer>> /\ replies = 1
    BY <1>3 DEF CallEnds, HintInv
  <2>2. NamesBelong' /\ ResolvedShown'
    BY <1>1, <2>1 DEF HintInv, NamesBelong, ResolvedShown
  <2>3. QED
    BY <1>1, <2>1, <2>2 DEF HintInv, Sources, Own
<1>4. QED
  BY <1>2, <1>3

LEMMA DataInv ==
  ASSUME HintInv, Data
  PROVE  HintInv'
<1>1. /\ source = "waiting" /\ callback /\ replies = 0 /\ ~callback'
      /\ UNCHANGED <<source, hints, timer, told>>
  BY DEF Data, HintInv, ClearedCallback
<1>2. PICK given \in SUBSET Asked : \E said \in [given -> HostNames] :
        /\ \E holders \in SUBSET DOMAIN hints : \E named \in [holders -> HostNames] :
             Naming(named, said) /\ Finish(named)
        /\ resolved' = {<<addr, said[addr]>> : addr \in given}
  BY DEF Data
<1>3. PICK said \in [given -> HostNames] :
        /\ \E holders \in SUBSET DOMAIN hints : \E named \in [holders -> HostNames] :
             Naming(named, said) /\ Finish(named)
        /\ resolved' = {<<addr, said[addr]>> : addr \in given}
  BY <1>2
<1>4. PICK holders \in SUBSET DOMAIN hints : \E named \in [holders -> HostNames] :
        Naming(named, said) /\ Finish(named)
  BY <1>3
<1>5. PICK named \in [holders -> HostNames] : Naming(named, said) /\ Finish(named)
  BY <1>4
<1>6. PICK first \in [{addr \in given : Holders(addr) # {}} -> DOMAIN hints] :
        /\ \A addr \in DOMAIN first : first[addr] \in Holders(addr)
        /\ DOMAIN named = {first[addr] : addr \in DOMAIN first}
        /\ \A m \in DOMAIN named : \E addr \in DOMAIN first : first[addr] = m /\ named[m] = said[addr]
  BY <1>5 DEF Naming
<1>7. /\ DOMAIN answer' = DOMAIN hints /\ replies' = 1
      /\ \A m \in DOMAIN hints :
           /\ answer'[m].ip = hints[m].ip /\ answer'[m].ip6 = hints[m].ip6
           /\ answer'[m].name = IF m \in DOMAIN named THEN named[m] ELSE hints[m].name
  <2>1. /\ answer' = [m \in DOMAIN hints |->
                        IF m \in DOMAIN named THEN [hints[m] EXCEPT !.name = named[m]] ELSE hints[m]]
        /\ replies' = 1
    BY <1>1, <1>5 DEF Finish, NameReplaced
  <2>2. \A m \in DOMAIN hints : hints[m] \in HintRecords
    BY DEF HintInv
  <2>3. QED
    BY <2>1, <2>2 DEF HintRecords
<1>8. \A addr \in given : /\ <<addr, said[addr]>> \in resolved'
                          /\ addr \in DOMAIN first => first[addr] \in DOMAIN hints /\ addr \in {hints[first[addr]].ip, hints[first[addr]].ip6}
  BY <1>3, <1>6 DEF Holders
<1>9. NamesBelong'
  <2> SUFFICES ASSUME NEW m \in DOMAIN hints, m \in DOMAIN named
               PROVE  \E addr \in {answer'[m].ip, answer'[m].ip6} : <<addr, answer'[m].name>> \in resolved'
    BY <1>1, <1>7 DEF NamesBelong, HintInv, Own
  <2>1. PICK addr \in DOMAIN first : first[addr] = m /\ named[m] = said[addr]
    BY <1>6
  <2>2. QED
    BY <1>6, <1>7, <1>8, <2>1
<1>10. ResolvedShown'
  <2> SUFFICES ASSUME \A m, n \in DOMAIN hints : m # n =>
                        {answer'[m].ip, answer'[m].ip6} \cap {answer'[n].ip, answer'[n].ip6} \subseteq {NoAddr},
                      NEW addr \in given
               PROVE  \E m \in DOMAIN hints :
                        addr \in {answer'[m].ip, answer'[m].ip6} /\ answer'[m].name = said[addr]
    BY <1>3, <1>7 DEF ResolvedShown
  <2>1. ASSUME NEW a \in Asked PROVE \E m \in DOMAIN hints :
          a # NoAddr /\ a = (IF hints[m].ip # NoAddr THEN hints[m].ip ELSE hints[m].ip6)
    BY DEF Asked
  <2>2. ASSUME NEW a \in given, NEW m \in DOMAIN hints, a \in {hints[m].ip, hints[m].ip6}
        PROVE  a = (IF hints[m].ip # NoAddr THEN hints[m].ip ELSE hints[m].ip6)
    <3>1. PICK n \in DOMAIN hints : a # NoAddr /\ a = (IF hints[n].ip # NoAddr THEN hints[n].ip ELSE hints[n].ip6)
      BY <2>1
    <3>2. n # m => a \in {NoAddr}
      BY <1>7, <2>2, <3>1
    <3>3. QED
      BY <3>1, <3>2
  <2>3. addr \in DOMAIN first
    <3>1. PICK m \in DOMAIN hints : addr = (IF hints[m].ip # NoAddr THEN hints[m].ip ELSE hints[m].ip6)
      BY <2>1
    <3>2. m \in Holders(addr)
      BY <3>1 DEF Holders
    <3>3. QED
      BY <1>6, <3>2
  <2>4. PICK m : m = first[addr]
    OBVIOUS
  <2>5. m \in DOMAIN hints /\ m \in DOMAIN named /\ addr \in {hints[m].ip, hints[m].ip6}
    BY <1>6, <1>8, <2>3, <2>4
  <2>6. PICK other \in DOMAIN first : first[other] = m /\ named[m] = said[other]
    BY <1>6, <2>5
  <2>7. other \in given /\ other \in {hints[m].ip, hints[m].ip6}
    BY <1>6, <1>8, <2>6
  <2>8. other = addr
    BY <2>2, <2>5, <2>7
  <2>9. QED
    BY <1>7, <2>5, <2>6, <2>8
<1>11. QED
  BY <1>1, <1>7, <1>9, <1>10 DEF HintInv, Own, Sources

LEMMA HintStep ==
  ASSUME HintInv, HintNext
  PROVE  HintInv'
<1>1. ASSUME Completed PROVE HintInv'
  BY <1>1, CallEndsInv DEF Completed
<1>2. ASSUME LookupTimeout PROVE HintInv'
  <2>1. source = "waiting"
    BY <1>2 DEF LookupTimeout, HintInv
  <2>2. QED
    BY <1>2, <2>1, CallEndsInv DEF LookupTimeout
<1>3. QED
  BY <1>1, <1>2, NeighbourInv, ReadHintInv, SourceInv, LookupInv, DataInv DEF HintNext

\* Whatever hosts, addresses and names the sources have (rpcd's luci.c): the
\* request is answered once, whichever of data, completion and timeout comes, and
\* in whatever order; no host is given a name that is not its own; and every
\* name that is looked up is shown.
THEOREM HintsAnswered == RouterSpec => []HintsHold
<1> DEFINE Inv == program = "hints" => HintInv
<1>1. RouterInit => Inv
  BY HintStart DEF RouterInit
<1>2. Inv /\ [RouterNext]_routerVars => Inv'
  <2> SUFFICES ASSUME Inv, [RouterNext]_routerVars, program' = "hints" PROVE HintInv'
    OBVIOUS
  <2>1. CASE program = "hints" /\ HintNext
    BY <2>1, HintStep
  <2>2. CASE program' = program /\ UNCHANGED hintVars
    BY <2>2 DEF hintVars, HintInv, Own, NamesBelong, ResolvedShown
  <2>3. QED
    BY <2>1, <2>2 DEF RouterNext, routerVars
<1>3. Inv => HintsHold
  <2> SUFFICES ASSUME HintInv PROVE HintsSound
    BY DEF HintsHold
  <2>1. AnsweredOnce
    BY DEF HintInv, AnsweredOnce
  <2>2. QED
    BY <2>1 DEF HintInv, HintsSound
<1>4. QED
  BY <1>1, <1>2, <1>3, PTL DEF RouterSpec

-----------------------------------------------------------------------------
(* Looking up names *)

Entries == Addrs \cup {Garbage}
Spent == Len(addrs) - Len(rest)

DnsTyped ==
  /\ addrs \in Seq(Entries) /\ rest \in Seq(Entries) /\ Len(rest) <= Len(addrs)
  /\ limit \in Nat /\ limit # 0
  /\ IsFiniteSet(pending) /\ pending \subseteq sent /\ network \subseteq sent
  /\ known = {q.addr : q \in sent}

\* What was read is what was sent, but for what is no address.
InOrder ==
  /\ \A i \in 1..Len(rest) : rest[i] = addrs[Spent + i]
  /\ \A i \in 1..Spent : addrs[i] \in known \cup {Garbage}
  /\ \A a \in known : \E i \in 1..Spent : a = addrs[i]

\* Until the call waits, every address that was read counts against the limit;
\* then each response lets one be read.  An address that is read for the first
\* time makes a query wait, so none waits only when all are read.
DnsInv ==
  /\ DnsTyped
  /\ ended \in {"starting", "no", "answered", "timeout"}
  /\ ended = "starting" => /\ ~reused /\ names = {}
                           /\ Cardinality(pending) <= Spent /\ Spent <= limit
  /\ WindowKept
  /\ NumbersDiffer => \A pair \in names : pair[1] = pair[2]
  /\ ~reused => \A pair \in names : pair[1] \in Given
  /\ ~reused => InOrder
  /\ Proper /\ ~reused /\ pending = {} => rest = <<>> \/ (ended = "starting" /\ Spent = 0)
  /\ ended = "answered" => pending = {}

\* If there are as many different addresses as places, no two are the same.
LEMMA Distinct ==
  ASSUME NEW S, addrs \in Seq(S), Proper,
         NEW i \in 1..Len(addrs), NEW j \in 1..Len(addrs), addrs[i] = addrs[j]
  PROVE  i = j
<1>1. Len(addrs) \in Nat /\ DOMAIN addrs = 1..Len(addrs) /\ addrs \in [1..Len(addrs) -> Given]
  BY DEF Given
<1>2. addrs \in Surjection(1..Len(addrs), Given)
  BY <1>1 DEF Surjection, Given
<1>3. IsFiniteSet(1..Len(addrs)) /\ Cardinality(1..Len(addrs)) = Len(addrs)
  BY <1>1, FS_Interval
<1>4. addrs \in Injection(1..Len(addrs), Given)
  BY <1>2, <1>3, FS_Surjection DEF Proper
<1>5. QED
  BY <1>4 DEF Injection, IsInjective

\* What the next entry "e" of the list becomes.
Queried(e, waiting) ==
  /\ IsFiniteSet(pending') /\ pending' \subseteq sent' /\ network' \subseteq sent' /\ sent \subseteq sent'
  /\ Cardinality(pending') <= Cardinality(waiting) + 1 /\ waiting \subseteq pending'
  /\ known' = {q.addr : q \in sent'}
  /\ known \subseteq known' /\ known' \subseteq known \cup ({e} \ {Garbage}) /\ e \in known' \cup {Garbage}
  /\ e \notin known \cup {Garbage} => pending' # {}

LEMMA NextQueryFacts ==
  ASSUME NEW e, NEW waiting, NEW coming, IsFiniteSet(waiting), waiting \subseteq sent, coming \subseteq sent,
         known = {q.addr : q \in sent}, NextQuery(e, waiting, coming)
  PROVE  Queried(e, waiting)
<1>1. Cardinality(waiting) \in Nat
  BY FS_CardinalityType
<1>2. CASE e \in known \cup {Garbage}
  <2>1. pending' = waiting /\ network' = coming /\ known' = known /\ sent' = sent
    BY <1>2 DEF NextQuery
  <2>2. Cardinality(pending') <= Cardinality(waiting) + 1
    BY <1>1, <2>1
  <2>3. QED
    BY <1>2, <2>1, <2>2 DEF Queried
<1>3. CASE e \notin known \cup {Garbage}
  <2>1. PICK id \in Ids :
          /\ pending' = IF \E q \in waiting : q.id = id THEN waiting
                        ELSE waiting \cup {Query(id, e)}
          /\ network' = coming \cup {Query(id, e)}
          /\ known' = known \cup {e}
          /\ sent' = sent \cup {Query(id, e)}
    BY <1>3 DEF NextQuery
  <2>2. PICK new : new = Query(id, e)
    OBVIOUS
  <2>3. new.addr = e
    BY <2>2 DEF Query
  <2>4. IsFiniteSet(pending') /\ Cardinality(pending') <= Cardinality(waiting) + 1
    <3>1. /\ IsFiniteSet(waiting \cup {new})
          /\ Cardinality(waiting \cup {new}) = IF new \in waiting THEN Cardinality(waiting) ELSE Cardinality(waiting) + 1
      BY FS_AddElement
    <3>2. pending' = waiting \/ pending' = waiting \cup {new}
      BY <2>1, <2>2
    <3>3. Cardinality(waiting \cup {new}) <= Cardinality(waiting) + 1
          /\ Cardinality(waiting) <= Cardinality(waiting) + 1
      BY <1>1, <3>1
    <3>4. QED
      BY <3>1, <3>2, <3>3, Zenon
  <2>5. pending' # {} /\ waiting \subseteq pending' /\ pending' \subseteq sent' /\ network' \subseteq sent'
    BY <2>1, <2>2
  <2>6. known' = {q.addr : q \in sent'}
    <3>1. known' = known \cup {e} /\ sent' = sent \cup {new}
      BY <2>1, <2>2
    <3>2. \A a : a \in known <=> \E q \in sent : a = q.addr
      OBVIOUS
    <3>3. \A a : a \in known' <=> \E q \in sent' : a = q.addr
      BY <2>3, <3>1, <3>2
    <3>4. QED
      BY <3>3, Zenon
  <2>7. QED
    BY <1>3, <2>1, <2>4, <2>5, <2>6 DEF Queried
<1>4. QED
  BY <1>2, <1>3

ReadOn(waiting) ==
  /\ DnsTyped' /\ sent \subseteq sent' /\ (~reused => InOrder')
  /\ Cardinality(pending') <= Cardinality(waiting) + 1 /\ waiting \subseteq pending'
  /\ rest = <<>> => pending' = waiting /\ rest' = rest /\ sent' = sent
  /\ ~reused /\ rest # <<>> => Len(rest') = Len(rest) - 1
  /\ Proper /\ ~reused /\ rest # <<>> => pending' # {}

LEMMA ReadNextFacts ==
  ASSUME DnsTyped, ~reused => InOrder, NEW waiting, waiting \subseteq pending,
         NEW coming, coming \subseteq network, ReadNext(waiting, coming), UNCHANGED <<addrs, limit>>
  PROVE  ReadOn(waiting)
<1>1. /\ IsFiniteSet(waiting) /\ waiting \subseteq sent /\ coming \subseteq sent
      /\ known = {q.addr : q \in sent} /\ Cardinality(waiting) \in Nat
  BY FS_Subset, FS_CardinalityType DEF DnsTyped
<1>2. /\ rest \in Seq(Entries) /\ addrs \in Seq(Entries) /\ Len(rest) \in Nat /\ Len(addrs) \in Nat
      /\ Len(rest) <= Len(addrs)
  BY DEF DnsTyped
<1>3. ASSUME NoQuery(waiting, coming) PROVE /\ pending' = waiting /\ sent' = sent /\ known' = known
                                            /\ IsFiniteSet(pending') /\ pending' \subseteq sent'
                                            /\ network' \subseteq sent' /\ known' = {q.addr : q \in sent'}
                                            /\ Cardinality(pending') <= Cardinality(waiting) + 1
  <2>1. pending' = waiting /\ network' = coming /\ sent' = sent /\ known' = known
    BY <1>3 DEF NoQuery
  <2>2. Cardinality(waiting) <= Cardinality(waiting) + 1
    BY <1>1
  <2>3. QED
    BY <1>1, <2>1, <2>2
<1>4. CASE rest = <<>>
  <2>1. NoQuery(waiting, coming) /\ rest' = rest
    BY <1>4 DEF ReadNext
  <2>2. DnsTyped'
    BY <1>3, <2>1 DEF DnsTyped
  <2>3. ~reused => InOrder'
    BY <1>3, <2>1 DEF InOrder, Spent
  <2>4. QED
    BY <1>3, <1>4, <2>1, <2>2, <2>3 DEF ReadOn
<1>5. CASE rest # <<>>
  <2>1. /\ Tail(rest) \in Seq(Entries) /\ Len(Tail(rest)) = Len(rest) - 1
        /\ \A i \in 1..Len(rest) - 1 : Tail(rest)[i] = rest[i + 1]
        /\ Head(rest) = rest[1] /\ Len(rest) # 0
    BY <1>2, <1>5, Shortened
  <2>2. CASE ~reused /\ rest' = Tail(rest) /\ NextQuery(Head(rest), waiting, coming)
    <3>1. Queried(Head(rest), waiting)
      BY <1>1, <2>2, NextQueryFacts
    <3>2. DnsTyped'
      BY <1>2, <2>1, <2>2, <3>1 DEF DnsTyped, Queried
    <3>3. Len(rest') = Len(rest) - 1 /\ Spent' = Spent + 1 /\ Spent \in Nat /\ Spent + 1 \in 1..Len(addrs)
          /\ 1 \in 1..Len(rest) /\ 1..Spent \subseteq 1..Len(addrs)
      BY <1>2, <2>1, <2>2 DEF Spent
    <3>4. InOrder
      BY <2>2
    <3>5. Head(rest) = addrs[Spent + 1]
      BY <2>1, <3>3, <3>4 DEF InOrder
    <3>6. \A i \in 1..Len(rest') : rest'[i] = addrs'[Spent' + i]
      <4> SUFFICES ASSUME NEW i \in 1..Len(rest') PROVE rest'[i] = addrs[Spent' + i]
        OBVIOUS
      <4>1. i \in Nat /\ i \in 1..Len(rest) - 1 /\ i + 1 \in 1..Len(rest)
        BY <1>2, <3>3
      <4>2. rest'[i] = rest[i + 1] /\ rest[i + 1] = addrs[Spent + (i + 1)]
        BY <2>1, <2>2, <3>4, <4>1 DEF InOrder
      <4>3. Spent + (i + 1) = Spent' + i
        BY <3>3, <4>1
      <4>4. QED
        BY <4>2, <4>3
    <3>7. \A i \in 1..Spent' : i \in 1..Spent \/ i = Spent + 1
      BY <3>3
    <3>8. \A i \in 1..Spent' : addrs'[i] \in known' \cup {Garbage}
      BY <3>1, <3>4, <3>5, <3>7 DEF InOrder, Queried
    <3>9. \A i \in 1..Spent : i \in 1..Spent'
      BY <3>3
    <3>10. Spent + 1 \in 1..Spent'
      BY <3>3
    <3>11. \A a \in known' : \E i \in 1..Spent' : a = addrs'[i]
      BY <3>1, <3>4, <3>5, <3>9, <3>10 DEF InOrder, Queried
    <3>12. InOrder'
      BY <3>6, <3>8, <3>11 DEF InOrder
    <3>13. ASSUME Proper PROVE pending' # {}
      <4>1. Head(rest) # Garbage
        BY <1>2, <3>3, <3>5, <3>13 DEF Proper, Given
      <4>2. ASSUME Head(rest) \in known PROVE FALSE
        <5>1. PICK i \in 1..Spent : Head(rest) = addrs[i]
          BY <3>4, <4>2 DEF InOrder
        <5>2. i \in 1..Len(addrs) /\ i # Spent + 1
          BY <3>3
        <5>3. QED
          BY <1>2, <3>3, <3>5, <3>13, <5>1, <5>2, Distinct
      <4>3. QED
        BY <3>1, <4>1, <4>2 DEF Queried
    <3>14. QED
      BY <1>5, <3>1, <3>2, <3>3, <3>12, <3>13 DEF ReadOn, Queried
  <2>3. CASE reused /\ rest' = Tail(rest)
             /\ \E e \in Addrs \cup {Garbage} : NextQuery(e, waiting, coming)
    <3>1. PICK e \in Addrs \cup {Garbage} : NextQuery(e, waiting, coming)
      BY <2>3
    <3>2. Queried(e, waiting)
      BY <1>1, <3>1, NextQueryFacts
    <3>3. DnsTyped'
      BY <1>2, <2>1, <2>3, <3>2 DEF DnsTyped, Queried
    <3>4. QED
      BY <1>5, <2>3, <3>2, <3>3 DEF ReadOn, Queried
  <2>4. CASE reused /\ rest' = <<>> /\ NoQuery(waiting, coming)
    <3>1. rest' \in Seq(Entries) /\ Len(rest') <= Len(addrs)
      BY <1>2, <2>4
    <3>2. DnsTyped'
      BY <1>3, <2>4, <3>1 DEF DnsTyped
    <3>3. QED
      BY <1>3, <1>5, <2>4, <3>2 DEF ReadOn
  <2>5. QED
    BY <1>5, <2>2, <2>3, <2>4 DEF ReadNext
<1>6. QED
  BY <1>4, <1>5

LEMMA DnsStart == DnsInit => DnsInv
<1> SUFFICES ASSUME DnsInit PROVE DnsInv
  OBVIOUS
<1>1. /\ rest = addrs /\ ~reused /\ pending = {} /\ known = {} /\ network = {} /\ names = {} /\ sent = {}
      /\ ended = "starting"
  BY DEF DnsInit
<1>2. limit \in Nat /\ limit # 0
  BY LimitAssumption DEF DnsInit
<1>3. addrs \in Seq(Entries)
  <2>1. PICK n \in 0..MaxAddrs : addrs \in [1..n -> Entries]
    BY DEF DnsInit, Entries
  <2>2. n \in Nat
    BY <2>1, LimitAssumption
  <2>3. QED
    BY <2>1, <2>2, SeqDef
<1>4. Len(addrs) \in Nat /\ Spent = 0
  BY <1>1, <1>3 DEF Spent
<1>5. IsFiniteSet(pending) /\ Cardinality(pending) = 0
  BY <1>1, FS_EmptySet
<1>6. DnsTyped
  BY <1>1, <1>2, <1>3, <1>4, <1>5 DEF DnsTyped
<1>7. InOrder
  BY <1>1, <1>4 DEF InOrder
<1>8. QED
  BY <1>1, <1>2, <1>4, <1>5, <1>6, <1>7 DEF DnsInv, WindowKept

LEMMA BeginInv ==
  ASSUME DnsInv, Begin
  PROVE  DnsInv'
<1>1. /\ ended = "starting" /\ ~reused /\ names = {} /\ DnsTyped /\ InOrder
      /\ Cardinality(pending) <= Spent /\ Spent <= limit
      /\ UNCHANGED <<addrs, limit, reused, names>>
  BY DEF Begin, DnsInv
<1>2. /\ Cardinality(pending) \in Nat /\ limit \in Nat /\ limit # 0 /\ Spent \in Nat
      /\ Len(rest) \in Nat /\ Len(addrs) \in Nat
  BY <1>1, FS_CardinalityType DEF DnsTyped, Spent
<1>3. CASE Spent < limit /\ rest # <<>>
  <2>1. ReadNext(pending, network) /\ ended' = ended
    BY <1>3 DEF Begin, Spent
  <2>2. ReadOn(pending)
    BY <1>1, <2>1, ReadNextFacts
  <2>3. /\ DnsTyped' /\ InOrder' /\ Len(rest') = Len(rest) - 1
        /\ Cardinality(pending') <= Cardinality(pending) + 1 /\ (Proper => pending' # {})
    BY <1>1, <1>3, <2>2 DEF ReadOn
  <2>4. Cardinality(pending') \in Nat
    BY <2>3, FS_CardinalityType DEF DnsTyped
  <2>5. Spent' = Spent + 1
    BY <1>1, <1>2, <2>3 DEF Spent
  <2>6. Cardinality(pending') <= Spent' /\ Spent' <= limit' /\ Cardinality(pending') <= limit'
    BY <1>1, <1>2, <1>3, <2>3, <2>4, <2>5
  <2>7. Proper' <=> Proper
    BY <1>1 DEF Proper, Given
  <2>8. QED
    BY <1>1, <2>1, <2>3, <2>6, <2>7 DEF DnsInv, WindowKept
<1>4. CASE ~(Spent < limit /\ rest # <<>>)
  <2>1. ended' = "no" /\ UNCHANGED <<rest, pending, known, network, sent>>
    BY <1>4 DEF Begin, Spent
  <2>2. DnsTyped' /\ InOrder' /\ Spent' = Spent
    BY <1>1, <2>1 DEF DnsTyped, InOrder, Spent
  <2>3. ASSUME Proper', pending' = {} PROVE rest' = <<>>
    <3>1. rest = <<>> \/ Spent = 0
      BY <1>1, <2>1, <2>3 DEF DnsInv, Proper, Given
    <3>2. QED
      BY <1>2, <1>4, <2>1, <3>1
  <2>4. QED
    BY <1>1, <2>1, <2>2, <2>3 DEF DnsInv, WindowKept
<1>5. QED
  BY <1>3, <1>4

\* No action changes what was given, nor the limit.
LEMMA IdleInv ==
  ASSUME DnsInv, UNCHANGED <<addrs, limit, rest, pending, known, names, sent>>, network' \subseteq network,
         ended = "no", reused => reused', ended' \in {"no", "timeout"}
  PROVE  DnsInv'
<1>1. DnsTyped' /\ (InOrder => InOrder') /\ WindowKept' /\ (Proper' <=> Proper) /\ Given' = Given
      /\ (NumbersDiffer' <=> NumbersDiffer)
  BY DEF DnsInv, DnsTyped, InOrder, Spent, WindowKept, Proper, Given, NumbersDiffer
<1>2. QED
  BY <1>1 DEF DnsInv

LEMMA RespondInv ==
  ASSUME DnsInv, NEW response \in network, NEW outc, Respond(response, outc)
  PROVE  DnsInv'
<1> DEFINE matching == Matching(response.id)
           waiting == pending \ matching
<1>1. /\ ended = "no" /\ UNCHANGED <<addrs, limit, reused>> /\ ended' = Ended(pending')
      /\ \/ names' = names
         \/ names' = names \cup {<<q.addr, response.addr>> : q \in matching}
  BY DEF Respond
<1>2. PICK c \in {network, network \ {response}} :
        IF matching # {} THEN ReadNext(waiting, c) ELSE NoQuery(waiting, c) /\ rest' = rest
  BY DEF Respond, MakesRoom
<1>3. matching \subseteq pending /\ waiting \subseteq pending /\ c \subseteq network
      /\ \A q \in matching : q.id = response.id
  BY <1>2 DEF Matching
<1>4. DnsTyped /\ (~reused => InOrder) /\ IsFiniteSet(pending) /\ Cardinality(pending) \in Nat
      /\ limit \in Nat /\ Cardinality(pending) <= limit
  BY FS_CardinalityType DEF DnsInv, DnsTyped, WindowKept
<1> HIDE DEF matching, waiting
<1>5. /\ DnsTyped' /\ sent \subseteq sent' /\ (~reused => InOrder') /\ Cardinality(pending') <= limit
      /\ Proper /\ ~reused /\ pending' = {} => rest' = <<>>
  <2>1. CASE matching # {}
    <3>1. ReadOn(waiting)
      BY <1>1, <1>2, <1>3, <1>4, <2>1, ReadNextFacts
    <3>2. PICK q : q \in matching
      BY <2>1
    <3>3. waiting \in SUBSET (pending \ {q}) /\ q \in pending
      BY <1>3, <3>2 DEF waiting
    <3>4. /\ IsFiniteSet(pending \ {q}) /\ Cardinality(pending \ {q}) = Cardinality(pending) - 1
      BY <1>4, <3>3, FS_RemoveElement
    <3>5. IsFiniteSet(waiting) /\ Cardinality(waiting) <= Cardinality(pending \ {q})
      BY <3>3, <3>4, FS_Subset
    <3>6. Cardinality(waiting) \in Nat
      BY <3>5, FS_CardinalityType
    <3>7. Cardinality(pending') <= Cardinality(waiting) + 1 /\ Cardinality(pending') \in Nat
      BY <3>1, FS_CardinalityType DEF ReadOn, DnsTyped
    <3>8. Cardinality(pending') <= limit
      BY <1>4, <3>4, <3>5, <3>6, <3>7
    <3>9. QED
      BY <3>1, <3>8 DEF ReadOn
  <2>2. CASE matching = {}
    <3>1. waiting = pending /\ NoQuery(pending, c) /\ rest' = rest
      BY <1>2, <2>2 DEF waiting
    <3>2. pending' = pending /\ network' = c /\ known' = known /\ sent' = sent
      BY <3>1 DEF NoQuery
    <3>3. DnsTyped' /\ (InOrder => InOrder')
      BY <1>1, <1>3, <1>4, <3>1, <3>2 DEF DnsTyped, InOrder, Spent
    <3>4. Proper /\ ~reused /\ pending = {} => rest = <<>>
      BY <1>1 DEF DnsInv
    <3>5. QED
      BY <1>4, <3>1, <3>2, <3>3, <3>4
  <2>3. QED
    BY <2>1, <2>2
<1>6. NumbersDiffer' => \A pair \in names' : pair[1] = pair[2]
  <2> SUFFICES ASSUME NumbersDiffer' PROVE \A pair \in names' : pair[1] = pair[2]
    OBVIOUS
  <2>1. NumbersDiffer
    BY <1>5 DEF NumbersDiffer
  <2>2. \A pair \in names : pair[1] = pair[2]
    BY <2>1 DEF DnsInv
  <2>3. \A q \in matching : q = response
    BY <1>3, <1>4, <2>1 DEF NumbersDiffer, DnsTyped
  <2>4. QED
    BY <1>1, <2>2, <2>3
<1>7. ~reused => \A pair \in names' : pair[1] \in Given
  <2> SUFFICES ASSUME ~reused PROVE \A pair \in names' : pair[1] \in Given
    OBVIOUS
  <2>1. \A pair \in names : pair[1] \in Given
    BY DEF DnsInv
  <2>2. \A i \in 1..Spent : addrs[i] \in Given
    <3>1. Len(addrs) \in Nat /\ Len(rest) \in Nat /\ DOMAIN addrs = 1..Len(addrs)
      BY <1>4 DEF DnsTyped
    <3>2. \A i \in 1..Spent : i \in 1..Len(addrs)
      BY <3>1 DEF Spent
    <3>3. QED
      BY <3>1, <3>2 DEF Given
  <2>3. \A q \in matching : q.addr \in Given
    BY <1>3, <1>4, <2>2 DEF InOrder, DnsTyped
  <2>4. QED
    BY <1>1, <2>1, <2>3
<1>8. Given' = Given /\ (Proper' <=> Proper)
  BY <1>1 DEF Given, Proper
<1>9. ended' \in {"answered", "no"} /\ (ended' = "answered" => pending' = {})
  BY <1>1 DEF Ended
<1>10. QED
  BY <1>1, <1>5, <1>6, <1>7, <1>8, <1>9 DEF DnsInv, WindowKept

LEMMA DnsStep ==
  ASSUME DnsInv, DnsNext
  PROVE  DnsInv'
<1>1. ASSUME OtherCall \/ DnsTimeout PROVE DnsInv'
  BY <1>1, IdleInv DEF OtherCall, DnsTimeout
<1>2. ASSUME NEW r \in network, Lost(r) PROVE DnsInv'
  BY <1>2, IdleInv DEF Lost
<1>3. QED
  BY <1>1, <1>2, BeginInv, RespondInv DEF DnsNext

\* However many addresses a call has, whatever its limit, and with responses that
\* come twice, late, not at all or malformed (rpcd-mod-rrdns): never more queries
\* wait than the limit, names are told for the addresses they are of, and no
\* call is answered before its time has run out with an address left untried.
THEOREM NamesLookedUp == RouterSpec => []LookupHolds
<1> DEFINE Inv == program = "rrdns" => DnsInv
<1>1. RouterInit => Inv
  BY DnsStart DEF RouterInit
<1>2. Inv /\ [RouterNext]_routerVars => Inv'
  <2> SUFFICES ASSUME Inv, [RouterNext]_routerVars, program' = "rrdns" PROVE DnsInv'
    OBVIOUS
  <2>1. CASE program = "rrdns" /\ DnsNext
    BY <2>1, DnsStep
  <2>2. CASE program' = program /\ UNCHANGED dnsVars
    BY <2>2 DEF dnsVars, DnsInv, DnsTyped, InOrder, Spent, WindowKept, Proper, Given, NumbersDiffer
  <2>3. QED
    BY <2>1, <2>2 DEF RouterNext, routerVars
<1>3. Inv => LookupHolds
  <2> SUFFICES ASSUME DnsInv PROVE LookupSound
    BY DEF LookupHolds
  <2>1. ASSUME ended = "answered", Proper, ~reused, NEW a \in Given
        PROVE  \E q \in sent : q.addr = a
    <3>1. rest = <<>> /\ DnsTyped /\ InOrder
      BY <2>1 DEF DnsInv
    <3>2. Len(addrs) \in Nat /\ DOMAIN addrs = 1..Len(addrs) /\ Spent = Len(addrs)
      BY <3>1 DEF DnsTyped, Spent
    <3>3. a \in known
      BY <2>1, <3>1, <3>2 DEF InOrder, Given, Proper
    <3>4. QED
      BY <3>1, <3>3 DEF DnsTyped
  <2>2. AllLookedUp
    BY <2>1 DEF AllLookedUp
  <2>3. QED
    BY <2>2 DEF DnsInv, OwnNames, LookupSound
<1>4. QED
  BY <1>1, <1>2, <1>3, PTL DEF RouterSpec

-----------------------------------------------------------------------------
(* Samples of the bandwidth *)

DumpFields == {"at", "pid", "printed", "slot", "latest", "left"}
Living == {"handler", "publish", "sample", "fill", "shift", "sleep", "count", "end"}
Settled == Living \cup {"exited"}
DaemonRecords == [at : Settled \cup {"unused", "forked"}, handler : BOOLEAN, countdown : Int,
                  entry : Nat, slot : Int]

BwcTyped ==
  /\ clock \in Nat
  /\ daemon \in [Daemons -> DaemonRecords]
  /\ DOMAIN dump = Pages /\ \A p \in Pages : DOMAIN dump[p] = DumpFields
  /\ DOMAIN graph = Pages /\ \A p \in Pages : DOMAIN graph[p] = {"times", "timestamp"}

\* A number that was written is that of a daemon whose handler is set.
NumbersOK ==
  /\ \A d \in Daemons : daemon[d].at \in Living => daemon[d].handler
  /\ pidfile \in Daemons => daemon[pidfile].at \in Settled
  /\ \A p \in Pages : dump[p].pid \in Daemons => daemon[dump[p].pid].at \in Settled

Full == database \in [1..Slots -> Nat]

DatabaseOK ==
  /\ database = NoFile \/ database = <<>> \/ Full
  /\ Full => \A i \in 1..(Slots - 1) : database[i] <= database[i + 1]

\* What a daemon that is about to write has found out still holds.
WriterOK(d) ==
  /\ daemon[d].at = "fill" => database = <<>>
  /\ daemon[d].at = "shift" => /\ Full /\ daemon[d].slot \in 1..Slots
                               /\ database[Slots] <= daemon[d].entry

\* What was printed is no newer than what comes next in the database, and what
\* the page took is no newer than what it has looked at.
PageOK(p) ==
  LET q == dump[p]  data == dump[p].printed  j == dump[p].slot - Slots
      times == graph[p].times  last == graph[p].timestamp
  IN
  /\ IF q.at = "print" THEN Full /\ q.slot \in Nat \ {0} ELSE q.slot = 0 /\ data = <<>> /\ q.latest = 0
  /\ data \in Seq(Nat) /\ Ascending(data)
  /\ q.slot \in 1..Slots /\ data # <<>> => data[Len(data)] <= database[q.slot]
  /\ times \in Seq(Nat) /\ Rising(times) /\ last \in Nat /\ q.latest \in Nat
  /\ \A i \in 1..Len(times) : times[i] <= last \/ times[i] <= q.latest
  /\ q.latest # 0 => last < q.latest /\ j - 1 \in 1..Len(data) /\ q.latest <= data[j - 1]

BwcInv ==
  /\ BwcTyped /\ NumbersOK
  /\ ~overlapped => /\ \A d, e \in Serving : d = e
                    /\ DatabaseOK
                    /\ \A d \in Daemons : WriterOK(d)
                    /\ \A p \in Pages : PageOK(p)

LEMMA BwcStart == BwcInit => BwcInv
<1> SUFFICES ASSUME BwcInit PROVE BwcInv
  OBVIOUS
<1>1. /\ clock = 1 /\ pidfile = "none" /\ database = NoFile
      /\ daemon = [d \in Daemons |-> Unused] /\ dump = [p \in Pages |-> NoDump]
      /\ graph = [p \in Pages |-> [times |-> <<>>, timestamp |-> 0]]
  BY DEF BwcInit
<1>2. Unused \in DaemonRecords /\ \A d \in Daemons : daemon[d] = Unused /\ daemon[d].at = "unused"
  BY <1>1 DEF Unused, DaemonRecords
<1>3. \A p \in Pages : /\ dump[p].at = "idle" /\ dump[p].pid = "none" /\ dump[p].printed = <<>>
                       /\ dump[p].slot = 0 /\ dump[p].latest = 0 /\ DOMAIN dump[p] = DumpFields
                       /\ graph[p].times = <<>> /\ graph[p].timestamp = 0
                       /\ DOMAIN graph[p] = {"times", "timestamp"}
  BY <1>1 DEF NoDump, DumpFields
<1>4. BwcTyped
  BY <1>1, <1>2, <1>3 DEF BwcTyped
<1>5. NumbersOK
  BY <1>1, <1>2, <1>3, BwcAssumption DEF NumbersOK, Living
<1>6. DatabaseOK /\ \A d, e \in Serving : d = e
  BY <1>1, <1>2, BwcAssumption DEF DatabaseOK, Full, NoFile, Serving
<1>7. ASSUME NEW p \in Pages PROVE PageOK(p)
  <2>1. \A data : data = <<>> => data \in Seq(Nat) /\ Ascending(data) /\ Rising(data) /\ Len(data) = 0
    BY DEF Ascending, Rising
  <2>2. dump[p].printed \in Seq(Nat) /\ Ascending(dump[p].printed) /\ graph[p].times \in Seq(Nat)
        /\ Rising(graph[p].times) /\ Len(graph[p].times) = 0
    BY <1>3, <2>1
  <2>3. QED
    BY <1>3, <2>2, BwcAssumption DEF PageOK
<1>8. QED
  BY <1>2, <1>4, <1>5, <1>6, <1>7 DEF BwcInv, WriterOK


Grows == Full => Full' /\ \A i \in 1..Slots : database[i] <= database'[i]

\* A dump under way does not mind that entries are replaced by newer ones.
LEMMA PageStays ==
  ASSUME NEW p \in Pages, PageOK(p), Grows, UNCHANGED <<dump, graph>>
  PROVE  PageOK(p)'
<1>1. dump[p].at = "print" => Full'
  BY DEF PageOK, Grows
<1>2. ASSUME dump[p].slot \in 1..Slots, dump[p].printed # <<>>
      PROVE  dump[p].printed[Len(dump[p].printed)] <= database'[dump[p].slot]
  <2>1. Full /\ dump[p].printed \in Seq(Nat)
    BY <1>2, BwcAssumption DEF PageOK
  <2>2. Full' /\ database[dump[p].slot] <= database'[dump[p].slot]
    BY <1>2, <2>1 DEF Grows
  <2>3. PICK latest : latest = dump[p].printed[Len(dump[p].printed)]
    OBVIOUS
  <2>4. latest \in Nat
    BY <1>2, <2>1, <2>3
  <2>5. latest <= database[dump[p].slot]
    BY <1>2, <2>3 DEF PageOK
  <2>6. database[dump[p].slot] \in Nat /\ database'[dump[p].slot] \in Nat
    BY <1>2, <2>1, <2>2 DEF Full
  <2>7. QED
    BY <2>2, <2>3, <2>4, <2>5, <2>6
<1>3. QED
  BY <1>1, <1>2 DEF PageOK

LEMMA DaemonMoves ==
  ASSUME BwcInv, NEW d \in Daemons, NEW from \in Living \cup {"forked"}, NEW q \in DaemonRecords,
         Step(d, from, q), q.at \in Settled, q.at \in Living => q.handler,
         pidfile' \in Daemons => pidfile' \in {d, pidfile},
         UNCHANGED <<clock, dump, graph, overlapped>>,
         ~overlapped => DatabaseOK' /\ WriterOK(d)' /\ Grows
  PROVE  BwcInv'
<1>1. /\ daemon[d].at = from /\ daemon' \in [Daemons -> DaemonRecords]
      /\ daemon'[d] = q /\ \A e \in Daemons \ {d} : daemon'[e] = daemon[e]
  BY DEF Step, BwcInv, BwcTyped
<1>2. BwcTyped'
  BY <1>1 DEF BwcInv, BwcTyped
<1>3. \A e \in Daemons : daemon[e].at \in Settled => daemon'[e].at \in Settled
  BY <1>1
<1>4. \A e \in Daemons : daemon'[e].at \in Living => daemon'[e].handler
  BY <1>1 DEF BwcInv, NumbersOK
<1>5. pidfile' \in Daemons => daemon'[pidfile'].at \in Settled
  <2>1. CASE pidfile' = d
    BY <1>1, <2>1
  <2>2. CASE pidfile' = pidfile
    BY <1>3, <2>2 DEF BwcInv, NumbersOK
  <2>3. QED
    BY <2>1, <2>2
<1>6. \A p \in Pages : dump'[p].pid \in Daemons => daemon'[dump'[p].pid].at \in Settled
  BY <1>3 DEF BwcInv, NumbersOK
<1>7. NumbersOK'
  BY <1>4, <1>5, <1>6 DEF NumbersOK
<1>8. ASSUME ~overlapped
      PROVE  /\ \A e, f \in Serving' : e = f
             /\ \A e \in Daemons : WriterOK(e)'
             /\ \A p \in Pages : PageOK(p)'
  <2>1. \A e, f \in Serving : e = f
    BY <1>8 DEF BwcInv
  <2>2. d \in Serving
    BY <1>1 DEF Serving, Living
  <2>3. Serving' \subseteq Serving
    BY <1>1, <2>2 DEF Serving
  <2>4. ASSUME NEW e \in Daemons \ {d} PROVE WriterOK(e)'
    <3>1. daemon'[e].at \notin {"fill", "shift"}
      BY <1>1, <2>1, <2>2 DEF Serving
    <3>2. QED
      BY <3>1 DEF WriterOK
  <2>5. ASSUME NEW p \in Pages PROVE PageOK(p)'
    BY <1>8, PageStays DEF BwcInv
  <2>6. QED
    BY <1>8, <2>1, <2>3, <2>4, <2>5
<1>9. QED
  BY <1>2, <1>7, <1>8 DEF BwcInv

\* The steps of a daemon that leave the database alone.
LEMMA PlainInv ==
  ASSUME BwcInv, NEW d \in Daemons,
         SetHandler(d) \/ EmptyPid(d) \/ WritePid(d) \/ Wake(d) \/ CountDown(d) \/ Exit(d)
  PROVE  BwcInv'
<1>1. daemon[d] \in DaemonRecords /\ clock \in Nat /\ (daemon[d].at \in Living => daemon[d].handler)
  BY DEF BwcInv, BwcTyped, NumbersOK
<1> DEFINE fine(q) == /\ q \in DaemonRecords /\ q.at \in Settled \ {"fill", "shift"}
                      /\ q.at \in Living => q.handler
<1>2. \E from \in Living \cup {"forked"} : \E q : Step(d, from, q) /\ fine(q)
  <2>1. CASE SetHandler(d)
    <3>1. fine([daemon[d] EXCEPT !.at = "handler", !.handler = TRUE])
      BY <1>1 DEF DaemonRecords, Settled, Living
    <3>2. QED
      BY <2>1, <3>1, Zenon DEF SetHandler
  <2>2. CASE EmptyPid(d)
    <3>1. fine([daemon[d] EXCEPT !.at = "publish"]) /\ "handler" \in Living
      BY <1>1, <2>2 DEF EmptyPid, AfterHandler, Goes, Step, DaemonRecords, Settled, Living
    <3>2. QED
      BY <2>2, <3>1, Zenon DEF EmptyPid, AfterHandler, Goes
  <2>3. CASE WritePid(d)
    <3>1. Patience \in Int
      BY BwcAssumption
    <3>2. daemon[d].at = "publish" /\ "publish" \in Living /\ daemon[d].handler
      BY <1>1, <2>3 DEF WritePid, Step, Living
    <3>3. fine([daemon[d] EXCEPT !.at = "sample", !.countdown = Patience])
      BY <1>1, <3>1, <3>2 DEF DaemonRecords, Settled, Living
    <3>4. QED
      BY <2>3, <3>2, <3>3, Zenon DEF WritePid
  <2>4. CASE Wake(d)
    <3>1. fine([daemon[d] EXCEPT !.at = "count", !.slot = daemon[d].countdown, !.entry = 0]) /\ "sleep" \in Living
      BY <1>1, <2>4 DEF Wake, Step, DaemonRecords, Settled, Living
    <3>2. QED
      BY <2>4, <3>1, Zenon DEF Wake
  <2>5. CASE CountDown(d)
    <3>1. daemon[d].slot - 1 \in Int
      BY <1>1 DEF DaemonRecords
    <3>2. \A to \in {"sample", "end"} : fine([daemon[d] EXCEPT !.at = to, !.countdown = daemon[d].slot - 1])
      BY <1>1, <2>5, <3>1 DEF CountDown, Step, DaemonRecords, Settled, Living
    <3>3. \E to \in {"sample", "end"} : Step(d, "count", [daemon[d] EXCEPT !.at = to, !.countdown = daemon[d].slot - 1])
      BY <2>5, Zenon DEF CountDown
    <3>4. "count" \in Living
      BY DEF Living
    <3>5. QED
      BY <3>2, <3>3, <3>4, Zenon
  <2>6. CASE Exit(d)
    <3>1. Unused \in DaemonRecords
      BY DEF Unused, DaemonRecords
    <3>2. fine([Unused EXCEPT !.at = "exited"]) /\ "end" \in Living
      BY <3>1 DEF DaemonRecords, Settled, Living
    <3>3. QED
      BY <2>6, <3>2, Zenon DEF Exit
  <2>7. QED
    BY <2>1, <2>2, <2>3, <2>4, <2>5, <2>6
<1>3. PICK from \in Living \cup {"forked"} : \E q : Step(d, from, q) /\ fine(q)
  BY <1>2
<1>4. PICK q : Step(d, from, q) /\ fine(q)
  BY <1>3
<1>5. UNCHANGED <<clock, database, dump, graph, overlapped>> /\ (pidfile' \in Daemons => pidfile' \in {d, pidfile})
  BY BwcAssumption DEF SetHandler, EmptyPid, WritePid, Wake, CountDown, Exit
<1>6. ~overlapped => DatabaseOK' /\ WriterOK(d)' /\ Grows
  <2>1. Grows
    BY <1>5 DEF Grows, Full
  <2>2. WriterOK(d)'
    BY <1>4 DEF Step, BwcInv, BwcTyped, WriterOK
  <2>3. DatabaseOK => DatabaseOK'
    BY <1>5 DEF DatabaseOK, Full
  <2>4. QED
    BY <2>1, <2>2, <2>3 DEF BwcInv
<1>7. QED
  BY <1>4, <1>5, <1>6, DaemonMoves

\* A file that is not there, or empty, is not full.
LEMMA NotFull == (database = NoFile \/ database = <<>>) => ~Full
<1>1. 1 \in 1..Slots
  BY BwcAssumption
<1>2. ASSUME database = NoFile, Full PROVE FALSE
  <2>1. database[1] \in Nat
    BY <1>1, <1>2 DEF Full
  <2>2. database[1] = -1
    BY <1>2 DEF NoFile
  <2>3. QED
    BY <2>1, <2>2
<1>3. ASSUME database = <<>>, Full PROVE FALSE
  <2>1. DOMAIN database = 1..Slots /\ database \in Seq(Nat)
    BY <1>3 DEF Full
  <2>2. DOMAIN database = 1..0
    BY <1>3
  <2>3. QED
    BY <1>1, <2>1, <2>2
<1>4. QED
  BY <1>2, <1>3

\* The steps that write the file, or are about to.
LEMMA FileInv ==
  ASSUME BwcInv, NEW d \in Daemons, CreateFile(d) \/ FillFile(d)
  PROVE  BwcInv'
<1>1. daemon[d] \in DaemonRecords /\ (daemon[d].at \in Living => daemon[d].handler)
  BY DEF BwcInv, BwcTyped, NumbersOK
<1>2. UNCHANGED <<clock, pidfile, dump, graph, overlapped>>
  BY DEF CreateFile, FillFile
<1>3. CASE CreateFile(d)
  <2> DEFINE q == [daemon[d] EXCEPT !.at = "fill"]
  <2>1. Step(d, "sample", q) /\ database = NoFile /\ database' = <<>>
    BY <1>3 DEF CreateFile, Goes
  <2>2. q \in DaemonRecords /\ q.at = "fill" /\ (daemon[d].at = "sample" => q.handler)
    BY <1>1 DEF DaemonRecords, Settled, Living
  <2>3. daemon[d].at = "sample" /\ daemon'[d] = q
    BY <2>1 DEF Step, BwcInv, BwcTyped
  <2>4. ~Full'
    BY <2>1, BwcAssumption DEF Full
  <2>5. DatabaseOK' /\ WriterOK(d)' /\ Grows
    BY <2>1, <2>2, <2>3, <2>4, NotFull DEF DatabaseOK, WriterOK, Grows
  <2>6. "sample" \in Living /\ "fill" \in Settled
    BY DEF Living, Settled
  <2> HIDE DEF q
  <2>7. QED
    BY <1>2, <2>1, <2>2, <2>3, <2>5, <2>6, DaemonMoves
<1>4. CASE FillFile(d)
  <2> DEFINE q == [daemon[d] EXCEPT !.at = "sample"]
  <2>1. Step(d, "fill", q) /\ database' = [i \in 1..Slots |-> 0]
    BY <1>4 DEF FillFile, Goes
  <2>2. q \in DaemonRecords /\ q.at = "sample" /\ (daemon[d].at = "fill" => q.handler)
    BY <1>1 DEF DaemonRecords, Settled, Living
  <2>3. daemon[d].at = "fill" /\ daemon'[d] = q
    BY <2>1 DEF Step, BwcInv, BwcTyped
  <2>4. Full' /\ \A i \in 1..Slots : database'[i] = 0
    BY <2>1 DEF Full
  <2>5. \A i \in 1..(Slots - 1) : i \in 1..Slots /\ i + 1 \in 1..Slots
    BY BwcAssumption
  <2>6. DatabaseOK'
    BY <2>4, <2>5 DEF DatabaseOK
  <2>7. ~overlapped => Grows
    BY <2>3, NotFull DEF BwcInv, WriterOK, Grows
  <2>8. WriterOK(d)'
    BY <2>2, <2>3 DEF WriterOK
  <2>9. "fill" \in Living /\ "sample" \in Settled
    BY DEF Living, Settled
  <2> HIDE DEF q
  <2>10. QED
    BY <1>2, <2>1, <2>2, <2>3, <2>6, <2>7, <2>8, <2>9, DaemonMoves
<1>5. QED
  BY <1>3, <1>4

\* What CheckEntry finds out holds until the entry is stored: there is no other daemon.
LEMMA EntryInv ==
  ASSUME BwcInv, NEW d \in Daemons, CheckEntry(d)
  PROVE  BwcInv'
<1>1. daemon[d] \in DaemonRecords /\ (daemon[d].at \in Living => daemon[d].handler) /\ clock \in Nat
  BY DEF BwcInv, BwcTyped, NumbersOK
<1> DEFINE q(to) == [daemon[d] EXCEPT !.at = to, !.entry = clock, !.slot = 1]
<1>2. /\ database # NoFile /\ Len(database) = Slots
      /\ UNCHANGED <<clock, pidfile, database, dump, graph, overlapped>>
  BY DEF CheckEntry
<1>3. PICK to : to = IF Newer(clock) THEN "shift" ELSE "sleep"
  OBVIOUS
<1>4. Step(d, "sample", q(to))
  BY <1>3 DEF CheckEntry
<1>5. daemon[d].at = "sample" /\ daemon'[d] = q(to)
  BY <1>4 DEF Step, BwcInv, BwcTyped
<1>6. /\ q(to) \in DaemonRecords /\ q(to).at = to /\ q(to).entry = clock /\ q(to).slot = 1 /\ q(to).handler
      /\ to \in Settled /\ "sample" \in Living /\ to # "fill"
  <2>1. to \in {"shift", "sleep"}
    BY <1>3
  <2>2. to \in Settled /\ "sample" \in Living /\ to # "fill" /\ daemon[d].handler
    BY <1>1, <1>5, <2>1 DEF Settled, Living
  <2>3. PICK one \in Int : one = 1
    OBVIOUS
  <2>4. /\ [daemon[d] EXCEPT !.at = to, !.entry = clock, !.slot = one] \in DaemonRecords
        /\ q(to).at = to /\ q(to).entry = clock /\ q(to).slot = 1 /\ q(to).handler = daemon[d].handler
    BY <1>1, <2>2 DEF DaemonRecords
  <2>5. QED
    BY <2>2, <2>3, <2>4
<1> HIDE DEF q
<1>7. ASSUME ~overlapped PROVE DatabaseOK' /\ WriterOK(d)' /\ Grows
  <2>1. DatabaseOK
    BY <1>7 DEF BwcInv
  <2>2. Full
    <3>1. database # <<>>
      BY <1>2, BwcAssumption
    <3>2. QED
      BY <1>2, <2>1, <3>1 DEF DatabaseOK
  <2>3. DatabaseOK' /\ Grows
    BY <1>2, <2>1, <2>2 DEF DatabaseOK, Grows, Full
  <2>4. Slots \in 1..Slots /\ 1 \in 1..Slots
    BY BwcAssumption
  <2>5. database[Slots] \in Nat
    BY <2>2, <2>4 DEF Full
  <2>6. to = "shift" => database[Slots] <= clock
    BY <1>1, <1>3, <2>5 DEF Newer
  <2>7. WriterOK(d)'
    BY <1>2, <1>5, <1>6, <2>2, <2>4, <2>6 DEF WriterOK, Full
  <2>8. QED
    BY <2>3, <2>7
<1>8. QED
  BY <1>2, <1>4, <1>6, <1>7, DaemonMoves

\* Each entry takes the value of the next one, which is no older, and the last
\* one that of the sample.
LEMMA StoreInv ==
  ASSUME BwcInv, NEW d \in Daemons, Shift(d) \/ Store(d)
  PROVE  BwcInv'
<1>1. daemon[d] \in DaemonRecords /\ (daemon[d].at \in Living => daemon[d].handler)
  BY DEF BwcInv, BwcTyped, NumbersOK
<1>2. UNCHANGED <<clock, pidfile, dump, graph, overlapped>> /\ daemon[d].at = "shift"
  BY DEF Shift, Store, Goes, Step
<1>3. Slots \in 1..Slots /\ \A i \in 1..(Slots - 1) : i \in 1..Slots /\ i + 1 \in 1..Slots /\ i # Slots
  BY BwcAssumption
<1>4. ASSUME ~overlapped
      PROVE  /\ Full /\ daemon[d].slot \in 1..Slots /\ daemon[d].entry \in Nat
             /\ database[Slots] <= daemon[d].entry
             /\ \A i \in 1..(Slots - 1) : database[i] <= database[i + 1]
             /\ \A i \in 1..Slots : database[i] \in Nat
  BY <1>1, <1>2, <1>4 DEF BwcInv, WriterOK, DatabaseOK, DaemonRecords, Full
<1>5. CASE Shift(d)
  <2> DEFINE slot == daemon[d].slot
             q == [daemon[d] EXCEPT !.slot = slot + 1]
  <2>1. /\ Step(d, "shift", q) /\ slot < Slots
        /\ database' = [database EXCEPT ![slot] = database[slot + 1]]
    BY <1>5 DEF Shift
  <2>2. slot + 1 \in Int
    BY <1>1 DEF DaemonRecords
  <2>3. q \in DaemonRecords /\ q.at = "shift" /\ q.handler /\ q.slot = slot + 1 /\ q.entry = daemon[d].entry
    BY <1>1, <1>2, <2>2 DEF DaemonRecords, Settled, Living
  <2>4. daemon'[d] = q /\ "shift" \in Living /\ "shift" \in Settled
    BY <2>1 DEF Step, BwcInv, BwcTyped, Living, Settled
  <2> HIDE DEF q, slot
  <2>5. ASSUME ~overlapped PROVE DatabaseOK' /\ WriterOK(d)' /\ Grows
    <3>1. slot \in 1..(Slots - 1) /\ slot + 1 \in 1..Slots
      BY <1>4, <2>1, <2>5, BwcAssumption DEF slot
    <3>2. /\ Full' /\ database'[slot] = database[slot + 1]
          /\ \A i \in 1..Slots \ {slot} : database'[i] = database[i]
      BY <1>3, <1>4, <2>1, <2>5, <3>1 DEF Full
    <3>3. \A i \in 1..Slots : database[i] <= database'[i]
      BY <1>4, <2>5, <3>1, <3>2
    <3>4. ASSUME NEW i \in 1..(Slots - 1) PROVE database'[i] <= database'[i + 1]
      <4>1. database'[i] <= database[i + 1]
        BY <1>3, <1>4, <2>5, <3>1, <3>2
      <4>2. database[i + 1] <= database'[i + 1]
        BY <1>3, <3>3
      <4>3. database'[i] \in Nat /\ database[i + 1] \in Nat /\ database'[i + 1] \in Nat
        BY <1>3, <1>4, <2>5, <3>2 DEF Full
      <4>4. QED
        BY <4>1, <4>2, <4>3
    <3>5. Slots # slot
      BY <1>3, <3>1
    <3>6. database'[Slots] = database[Slots]
      BY <1>3, <3>2, <3>5
    <3>7. QED
      BY <1>4, <2>3, <2>4, <2>5, <3>1, <3>2, <3>3, <3>4, <3>6 DEF DatabaseOK, WriterOK, Grows
  <2>6. QED
    BY <1>2, <2>1, <2>3, <2>4, <2>5, DaemonMoves
<1>6. CASE Store(d)
  <2> DEFINE q == [daemon[d] EXCEPT !.at = "sleep"]
  <2>1. /\ Step(d, "shift", q) /\ database' = [database EXCEPT ![Slots] = daemon[d].entry]
    BY <1>6 DEF Store, Goes
  <2>2. q \in DaemonRecords /\ q.at = "sleep" /\ q.handler
    BY <1>1, <1>2 DEF DaemonRecords, Settled, Living
  <2>3. daemon'[d] = q /\ "shift" \in Living /\ "sleep" \in Settled
    BY <2>1 DEF Step, BwcInv, BwcTyped, Living, Settled
  <2> HIDE DEF q
  <2>4. ASSUME ~overlapped PROVE DatabaseOK' /\ WriterOK(d)' /\ Grows
    <3>1. /\ Full' /\ database'[Slots] = daemon[d].entry
          /\ \A i \in 1..Slots \ {Slots} : database'[i] = database[i]
      BY <1>3, <1>4, <2>1, <2>4 DEF Full
    <3>2. \A i \in 1..Slots : database[i] <= database'[i]
      BY <1>4, <2>4, <3>1
    <3>3. ASSUME NEW i \in 1..(Slots - 1) PROVE database'[i] <= database'[i + 1]
      <4>1. database'[i] <= database[i + 1]
        BY <1>3, <1>4, <2>4, <3>1
      <4>2. database[i + 1] <= database'[i + 1]
        BY <1>3, <3>2
      <4>3. database'[i] \in Nat /\ database[i + 1] \in Nat /\ database'[i + 1] \in Nat
        BY <1>3, <1>4, <2>4, <3>1 DEF Full
      <4>4. QED
        BY <4>1, <4>2, <4>3
    <3>4. QED
      BY <2>2, <2>3, <3>1, <3>2, <3>3 DEF DatabaseOK, WriterOK, Grows
  <2>5. QED
    BY <1>2, <2>1, <2>2, <2>3, <2>4, DaemonMoves
<1>7. QED
  BY <1>5, <1>6

LEMMA DumpMoves ==
  ASSUME BwcInv, NEW p \in Pages, DOMAIN dump' = Pages, DOMAIN dump'[p] = DumpFields,
         DOMAIN graph' = Pages, DOMAIN graph'[p] = {"times", "timestamp"},
         \A o \in Pages \ {p} : dump'[o] = dump[o] /\ graph'[o] = graph[o],
         dump'[p].pid \in Daemons => dump'[p].pid \in {dump[p].pid, pidfile},
         UNCHANGED <<clock, pidfile, daemon, database, overlapped>>,
         ~overlapped => PageOK(p)'
  PROVE  BwcInv'
<1>1. BwcTyped'
  BY DEF BwcInv, BwcTyped
<1>2. NumbersOK'
  BY DEF BwcInv, NumbersOK
<1>3. ASSUME ~overlapped, NEW o \in Pages PROVE PageOK(o)'
  <2>1. o # p => PageOK(o)'
    BY <1>3 DEF BwcInv, PageOK, Full
  <2>2. QED
    BY <1>3, <2>1
<1>4. ASSUME ~overlapped
      PROVE  DatabaseOK' /\ (\A e, f \in Serving' : e = f) /\ \A d \in Daemons : WriterOK(d)'
  BY <1>4 DEF BwcInv, DatabaseOK, Full, Serving, WriterOK
<1>5. QED
  BY <1>1, <1>2, <1>3, <1>4 DEF BwcInv

\* A process that is not printing yet.
WaitsYet(p) ==
  /\ DOMAIN dump' = Pages /\ DOMAIN dump'[p] = DumpFields /\ \A o \in Pages \ {p} : dump'[o] = dump[o]
  /\ dump[p].at # "print" /\ dump'[p].at # "print"
  /\ dump'[p].printed = dump[p].printed /\ dump'[p].slot = dump[p].slot /\ dump'[p].latest = dump[p].latest

LEMMA WaitsYetOK ==
  ASSUME NEW p \in Pages, PageOK(p), WaitsYet(p), UNCHANGED graph
  PROVE  PageOK(p)'
<1>1. dump[p].slot = 0 /\ 0 \notin 1..Slots
  BY DEF PageOK, WaitsYet
<1>2. QED
  BY <1>1 DEF PageOK, WaitsYet

LEMMA WaitInv ==
  ASSUME BwcInv, NEW p \in Pages, WaitsYet(p), UNCHANGED <<clock, pidfile, daemon, database, graph, overlapped>>,
         dump'[p].pid \in {dump[p].pid, pidfile}
  PROVE  BwcInv'
BY WaitsYetOK, DumpMoves DEF WaitsYet, BwcInv, BwcTyped

LEMMA DumpStepWaits ==
  ASSUME BwcInv, NEW p \in Pages, NEW from, NEW to, DumpStep(p, from, to), from # "print", to # "print"
  PROVE  WaitsYet(p) /\ dump'[p].pid = dump[p].pid /\ dump[p].at = from
<1>1. /\ dump[p].at = from /\ dump' = [dump EXCEPT ![p].at = to]
      /\ DOMAIN dump = Pages /\ DOMAIN dump[p] = DumpFields
  BY DEF DumpStep, BwcInv, BwcTyped
<1>2. dump'[p] = [dump[p] EXCEPT !.at = to] /\ DOMAIN dump' = Pages /\ \A o \in Pages \ {p} : dump'[o] = dump[o]
  BY <1>1
<1>3. /\ DOMAIN dump'[p] = DumpFields /\ dump'[p].at = to /\ dump'[p].printed = dump[p].printed
      /\ dump'[p].slot = dump[p].slot /\ dump'[p].latest = dump[p].latest /\ dump'[p].pid = dump[p].pid
  BY <1>1, <1>2 DEF DumpFields
<1>4. QED
  BY <1>1, <1>2, <1>3 DEF WaitsYet

LEMMA ReadPidInv ==
  ASSUME BwcInv, NEW p \in Pages, ReadPid(p)
  PROVE  BwcInv'
<1>1. /\ dump[p].at = "idle" /\ DOMAIN dump = Pages /\ DOMAIN dump[p] = DumpFields
      /\ dump' = [dump EXCEPT ![p] = [dump[p] EXCEPT !.at = "ping", !.pid = pidfile, !.left = dump[p].left - 1]]
      /\ UNCHANGED <<clock, pidfile, daemon, database, graph, overlapped>>
  BY DEF ReadPid, BwcInv, BwcTyped
<1>2. dump'[p] = [dump[p] EXCEPT !.at = "ping", !.pid = pidfile, !.left = dump[p].left - 1]
      /\ DOMAIN dump' = Pages /\ \A o \in Pages \ {p} : dump'[o] = dump[o]
  BY <1>1
<1>3. /\ DOMAIN dump'[p] = DumpFields /\ dump'[p].at = "ping" /\ dump'[p].printed = dump[p].printed
      /\ dump'[p].slot = dump[p].slot /\ dump'[p].latest = dump[p].latest /\ dump'[p].pid = pidfile
  BY <1>1, <1>2 DEF DumpFields
<1>4. QED
  BY <1>1, <1>2, <1>3, WaitInv DEF WaitsYet

LEMMA PingInv ==
  ASSUME BwcInv, NEW p \in Pages, Ping(p)
  PROVE  BwcInv'
BY DumpStepWaits, WaitInv DEF Ping

\* A daemon that was started may be the second; then no order is promised.
LEMMA StartInv ==
  ASSUME BwcInv, NEW p \in Pages, StartDaemon(p)
  PROVE  BwcInv'
<1>1. /\ WaitsYet(p) /\ dump'[p].pid = dump[p].pid
      /\ UNCHANGED <<clock, pidfile, database, graph>> /\ (overlapped' <=> overlapped \/ Serving # {})
  BY DumpStepWaits DEF StartDaemon
<1>2. PICK d \in Daemons : daemon[d].at = "unused" /\ daemon' = [daemon EXCEPT ![d] = [daemon[d] EXCEPT !.at = "forked"]]
  BY DEF StartDaemon
<1>3. /\ daemon' \in [Daemons -> DaemonRecords] /\ daemon'[d].at = "forked"
      /\ \A e \in Daemons \ {d} : daemon'[e] = daemon[e]
  BY <1>2 DEF BwcInv, BwcTyped, DaemonRecords
<1>4. BwcTyped'
  BY <1>1, <1>3 DEF BwcInv, BwcTyped, WaitsYet
<1>5. NumbersOK'
  BY <1>1, <1>2, <1>3 DEF BwcInv, NumbersOK, Settled, Living, WaitsYet
<1>6. ASSUME ~overlapped'
      PROVE  /\ \A e, f \in Serving' : e = f
             /\ DatabaseOK' /\ \A e \in Daemons : WriterOK(e)'
             /\ \A o \in Pages : PageOK(o)'
  <2>1. ~overlapped /\ Serving = {}
    BY <1>1, <1>6
  <2>2. Serving' \subseteq {d}
    BY <1>3, <2>1 DEF Serving
  <2>3. DatabaseOK'
    BY <1>1, <2>1 DEF BwcInv, DatabaseOK, Full
  <2>4. \A e \in Daemons : WriterOK(e)'
    BY <1>3, <2>2 DEF WriterOK, Serving
  <2>5. ASSUME NEW o \in Pages PROVE PageOK(o)'
    <3>1. PageOK(o)
      BY <2>1 DEF BwcInv
    <3>2. CASE o = p
      BY <1>1, <3>1, <3>2, WaitsYetOK
    <3>3. CASE o # p
      BY <1>1, <3>1, <3>3 DEF PageOK, WaitsYet, Full
    <3>4. QED
      BY <3>2, <3>3
  <2>6. QED
    BY <2>2, <2>3, <2>4, <2>5
<1>7. QED
  BY <1>4, <1>5, <1>6 DEF BwcInv

\* The process whose number was read handles the signal, or has ended.
LEMMA SignalInv ==
  ASSUME BwcInv, NEW p \in Pages, Signal(p)
  PROVE  BwcInv'
<1>1. /\ WaitsYet(p) /\ dump'[p].pid = dump[p].pid
      /\ UNCHANGED <<clock, pidfile, database, graph, overlapped>>
  BY DumpStepWaits DEF Signal
<1>2. CASE daemon' = daemon
  BY <1>1, <1>2, WaitInv
<1>3. CASE daemon' # daemon
  <2>1. PICK d \in Daemons : /\ d = dump[p].pid /\ d \in Serving
                             /\ daemon' = IF daemon[d].handler THEN [daemon EXCEPT ![d].countdown = Patience]
                                          ELSE [daemon EXCEPT ![d].at = "killed"]
    BY <1>3 DEF Signal, Serving
  <2>2. daemon[d].at \in Living /\ daemon[d].handler
    BY <2>1 DEF BwcInv, NumbersOK, Serving, Settled
  <2>3. daemon' = [daemon EXCEPT ![d] = [daemon[d] EXCEPT !.countdown = Patience]] /\ Patience \in Int
    BY <2>1, <2>2, BwcAssumption
  <2>4. [daemon[d] EXCEPT !.countdown = Patience] \in DaemonRecords
    BY <2>3 DEF BwcInv, BwcTyped, DaemonRecords
  <2>5. /\ daemon' \in [Daemons -> DaemonRecords]
        /\ \A e \in Daemons : /\ daemon'[e].at = daemon[e].at /\ daemon'[e].handler = daemon[e].handler
                              /\ daemon'[e].slot = daemon[e].slot /\ daemon'[e].entry = daemon[e].entry
    BY <2>3, <2>4 DEF BwcInv, BwcTyped, DaemonRecords
  <2>6. BwcTyped' /\ NumbersOK'
    BY <1>1, <2>5 DEF BwcInv, BwcTyped, NumbersOK, WaitsYet
  <2>7. ASSUME ~overlapped, NEW o \in Pages PROVE PageOK(o)'
    <3>1. PageOK(o)
      BY <2>7 DEF BwcInv
    <3>2. CASE o = p
      BY <1>1, <3>1, <3>2, WaitsYetOK
    <3>3. CASE o # p
      BY <1>1, <3>1, <3>3 DEF PageOK, WaitsYet, Full
    <3>4. QED
      BY <3>2, <3>3
  <2>8. ASSUME ~overlapped
        PROVE  DatabaseOK' /\ (\A e, f \in Serving' : e = f) /\ \A e \in Daemons : WriterOK(e)'
    BY <1>1, <2>5, <2>8 DEF BwcInv, DatabaseOK, Full, Serving, WriterOK
  <2>9. QED
    BY <1>1, <2>6, <2>7, <2>8 DEF BwcInv
<1>4. QED
  BY <1>2, <1>3

LEMMA OpenFileInv ==
  ASSUME BwcInv, NEW p \in Pages, OpenFile(p)
  PROVE  BwcInv'
<1>1. UNCHANGED <<clock, pidfile, daemon, database, graph, overlapped>>
  BY DEF OpenFile
<1>2. CASE DumpStep(p, "open", "idle")
  BY <1>1, <1>2, DumpStepWaits, WaitInv
<1>3. CASE /\ ~(database = NoFile \/ Len(database) < Slots) /\ dump[p].at = "open"
           /\ dump' = [dump EXCEPT ![p] = [dump[p] EXCEPT !.at = "print", !.slot = 1, !.printed = <<>>]]
  <2>1. /\ dump'[p] = [dump[p] EXCEPT !.at = "print", !.slot = 1, !.printed = <<>>]
        /\ DOMAIN dump' = Pages /\ (\A o \in Pages \ {p} : dump'[o] = dump[o]) /\ DOMAIN dump[p] = DumpFields
    BY <1>3 DEF BwcInv, BwcTyped
  <2>2. /\ DOMAIN dump'[p] = DumpFields /\ dump'[p].at = "print" /\ dump'[p].slot = 1
        /\ dump'[p].printed = <<>> /\ dump'[p].pid = dump[p].pid /\ dump'[p].latest = dump[p].latest
    BY <2>1 DEF DumpFields
  <2>3. ASSUME ~overlapped PROVE PageOK(p)'
    <3>1. DatabaseOK /\ PageOK(p)
      BY <2>3 DEF BwcInv
    <3>2. database # <<>>
      BY <1>3, BwcAssumption
    <3>3. Full'
      BY <1>1, <1>3, <3>1, <3>2 DEF DatabaseOK, Full
    <3>4. dump[p].latest = 0
      BY <1>3, <3>1 DEF PageOK
    <3>5. \A data : data = <<>> => data \in Seq(Nat) /\ Ascending(data)
      BY DEF Ascending
    <3>6. dump'[p].printed \in Seq(Nat) /\ Ascending(dump'[p].printed)
      BY <2>2, <3>5
    <3>7. QED
      BY <1>1, <2>2, <3>1, <3>3, <3>4, <3>6 DEF PageOK
  <2>4. QED
    BY <1>1, <2>1, <2>2, <2>3, DumpMoves DEF BwcInv, BwcTyped
<1>4. QED
  BY <1>2, <1>3 DEF OpenFile

LEMMA AscendingAppend ==
  ASSUME NEW s \in Seq(Nat), NEW v \in Nat, Ascending(s), s # <<>> => s[Len(s)] <= v
  PROVE  Append(s, v) \in Seq(Nat) /\ Ascending(Append(s, v))
<1>1. /\ Len(s) \in Nat /\ Append(s, v) \in Seq(Nat) /\ Len(Append(s, v)) = Len(s) + 1
      /\ Append(s, v)[Len(s) + 1] = v /\ \A i \in 1..Len(s) : Append(s, v)[i] = s[i]
  OBVIOUS
<1>2. ASSUME NEW i \in 1..(Len(Append(s, v)) - 1) PROVE Append(s, v)[i] <= Append(s, v)[i + 1]
  <2>1. CASE i = Len(s)
    <3>1. s # <<>> /\ i \in 1..Len(s)
      BY <1>1, <2>1
    <3>2. QED
      BY <1>1, <2>1, <3>1
  <2>2. CASE i # Len(s)
    <3>1. i \in 1..Len(s) /\ i + 1 \in 1..Len(s) /\ i \in 1..(Len(s) - 1)
      BY <1>1, <2>2
    <3>2. QED
      BY <1>1, <3>1 DEF Ascending
  <2>3. QED
    BY <2>1, <2>2
<1>3. QED
  BY <1>1, <1>2 DEF Ascending

LEMMA RisingAppend ==
  ASSUME NEW s \in Seq(Nat), NEW v \in Nat, Rising(s), \A i \in 1..Len(s) : s[i] < v
  PROVE  Append(s, v) \in Seq(Nat) /\ Rising(Append(s, v))
<1>1. /\ Len(s) \in Nat /\ Append(s, v) \in Seq(Nat) /\ Len(Append(s, v)) = Len(s) + 1
      /\ Append(s, v)[Len(s) + 1] = v /\ \A i \in 1..Len(s) : Append(s, v)[i] = s[i]
  OBVIOUS
<1>2. ASSUME NEW i \in 1..(Len(Append(s, v)) - 1) PROVE Append(s, v)[i] < Append(s, v)[i + 1]
  <2>1. i \in 1..Len(s)
    BY <1>1
  <2>2. CASE i = Len(s)
    BY <1>1, <2>1, <2>2
  <2>3. CASE i # Len(s)
    <3>1. i + 1 \in 1..Len(s) /\ i \in 1..(Len(s) - 1)
      BY <1>1, <2>3
    <3>2. QED
      BY <1>1, <2>1, <3>1 DEF Rising
  <2>4. QED
    BY <2>2, <2>3
<1>3. QED
  BY <1>1, <1>2 DEF Rising

\* Entry after entry is printed while daemons shift them: none is older than the
\* one before.
LEMMA PrintInv ==
  ASSUME BwcInv, NEW p \in Pages, PrintEntry(p)
  PROVE  BwcInv'
<1> DEFINE slot == dump[p].slot
           data == dump[p].printed
           more == IF database[slot] = 0 THEN data ELSE Append(data, database[slot])
<1>1. /\ dump[p].at = "print" /\ slot <= Slots
      /\ dump' = [dump EXCEPT ![p] = [dump[p] EXCEPT !.slot = slot + 1, !.printed = more]]
      /\ UNCHANGED <<clock, pidfile, daemon, database, graph, overlapped>>
  BY DEF PrintEntry
<1>2. /\ dump'[p] = [dump[p] EXCEPT !.slot = slot + 1, !.printed = more]
      /\ DOMAIN dump' = Pages /\ (\A o \in Pages \ {p} : dump'[o] = dump[o]) /\ DOMAIN dump[p] = DumpFields
  BY <1>1 DEF BwcInv, BwcTyped
<1> HIDE DEF more
<1>3. /\ DOMAIN dump'[p] = DumpFields /\ dump'[p].at = "print" /\ dump'[p].slot = slot + 1
      /\ dump'[p].printed = more /\ dump'[p].pid = dump[p].pid /\ dump'[p].latest = dump[p].latest
  BY <1>1, <1>2 DEF DumpFields
<1> HIDE DEF slot, data
<1>4. ASSUME ~overlapped PROVE PageOK(p)'
  <2>1. DatabaseOK /\ PageOK(p)
    BY <1>4 DEF BwcInv
  <2>2. /\ Full /\ slot \in Nat \ {0} /\ slot \in 1..Slots /\ data \in Seq(Nat) /\ Ascending(data)
    BY <1>1, <2>1, BwcAssumption DEF PageOK, slot, data
  <2>3. database[slot] \in Nat /\ (data # <<>> => data[Len(data)] <= database[slot])
    BY <2>1, <2>2 DEF Full, PageOK, slot, data
  <2>4. more \in Seq(Nat) /\ Ascending(more)
    BY <2>2, <2>3, AscendingAppend DEF more
  <2>5. dump[p].latest = 0
    <3>1. slot - Slots - 1 \notin 1..Len(data)
      BY <2>2, BwcAssumption
    <3>2. QED
      BY <2>1, <3>1 DEF PageOK, slot, data
  <2>6. ASSUME slot + 1 \in 1..Slots, more # <<>> PROVE more[Len(more)] <= database[slot + 1]
    <3>1. slot \in 1..(Slots - 1)
      BY <2>2, <2>6, BwcAssumption
    <3>2. database[slot] <= database[slot + 1] /\ database[slot + 1] \in Nat
      BY <2>1, <2>2, <2>6, <3>1 DEF DatabaseOK, Full
    <3>3. CASE database[slot] = 0
      <4>1. PICK last : last = data[Len(data)]
        OBVIOUS
      <4>2. more = data /\ Len(data) \in 1..Len(data) /\ last \in Nat
        BY <2>2, <2>6, <3>3, <4>1 DEF more
      <4>3. last <= database[slot]
        BY <2>3, <2>6, <4>1, <4>2
      <4>4. QED
        BY <2>3, <3>2, <4>1, <4>2, <4>3
    <3>4. CASE database[slot] # 0
      <4>1. more = Append(data, database[slot])
        BY <3>4 DEF more
      <4>2. more[Len(more)] = database[slot]
        BY <2>2, <2>3, <4>1
      <4>3. QED
        BY <3>2, <4>2
    <3>5. QED
      BY <3>3, <3>4
  <2>7. slot + 1 \in Nat \ {0}
    BY <2>2
  <2>8. Full'
    BY <1>1, <2>2 DEF Full
  <2>9. QED
    BY <1>1, <1>3, <2>1, <2>4, <2>5, <2>6, <2>7, <2>8 DEF PageOK
<1>5. QED
  BY <1>1, <1>2, <1>3, <1>4, DumpMoves DEF BwcInv, BwcTyped

\* What is new is newer than all the page has, and is then what it has looked at.
LEMMA TakenInOrder ==
  ASSUME NEW data \in Seq(Nat), Ascending(data), NEW j \in 1..Len(data), NEW last \in Nat, NEW taken \in Nat,
         taken # 0 => last < taken /\ j - 1 \in 1..Len(data) /\ taken <= data[j - 1],
         NEW new \in BOOLEAN, new => last < data[j],
         NEW taken2, taken2 = IF new THEN data[j] ELSE taken
  PROVE  /\ taken2 \in Nat /\ taken <= taken2
         /\ taken2 # 0 => last < taken2 /\ taken2 <= data[j]
         /\ new /\ j > 1 /\ data[j] # data[j - 1] => taken < data[j]
<1>1. Len(data) \in Nat /\ data[j] \in Nat /\ j \in Nat
  OBVIOUS
<1>2. j > 1 => j - 1 \in 1..(Len(data) - 1) /\ j - 1 \in 1..Len(data) /\ (j - 1) + 1 = j
  BY <1>1
<1>3. j > 1 => data[j - 1] \in Nat /\ data[j - 1] <= data[j]
  BY <1>2 DEF Ascending
<1>4. taken # 0 => j > 1
  BY <1>1
<1>5. taken <= data[j] /\ (j > 1 /\ data[j] # data[j - 1] /\ new => taken < data[j])
  <2>1. CASE taken = 0
    <3>1. new => 0 < data[j]
      BY <1>1
    <3>2. QED
      BY <1>1, <2>1, <3>1
  <2>2. CASE taken # 0
    BY <1>1, <1>3, <1>4, <2>2
  <2>3. QED
    BY <2>1, <2>2
<1>6. QED
  BY <1>1, <1>5

LEMMA EntryTaken ==
  ASSUME BwcInv, NEW p \in Pages, PageEntry(p)
  PROVE  BwcInv'
<1> DEFINE data == dump[p].printed
           slot == dump[p].slot
           j == slot - Slots
           last == graph[p].timestamp
           new == (last = 0 => j > 1) /\ data[j] > last
           sample == new /\ j > 1 /\ data[j] # data[j - 1]
           taken == IF new THEN data[j] ELSE dump[p].latest
           times == IF sample THEN Append(graph[p].times, data[j]) ELSE graph[p].times
<1>1. /\ j \in 1..Len(data)
      /\ dump' = [dump EXCEPT ![p] = [dump[p] EXCEPT !.slot = slot + 1, !.latest = taken]]
      /\ graph' = IF sample THEN [graph EXCEPT ![p].times = Append(graph[p].times, data[j])] ELSE graph
      /\ UNCHANGED <<clock, pidfile, daemon, database, overlapped>>
  BY DEF PageEntry, Unseen
<1>2. /\ dump'[p] = [dump[p] EXCEPT !.slot = slot + 1, !.latest = taken]
      /\ DOMAIN dump' = Pages /\ (\A o \in Pages \ {p} : dump'[o] = dump[o])
      /\ DOMAIN dump[p] = DumpFields
  BY <1>1 DEF BwcInv, BwcTyped
<1>3. /\ DOMAIN graph' = Pages /\ (\A o \in Pages \ {p} : graph'[o] = graph[o])
      /\ DOMAIN graph'[p] = {"times", "timestamp"} /\ graph'[p].times = times /\ graph'[p].timestamp = last
  <2>1. DOMAIN graph = Pages /\ DOMAIN graph[p] = {"times", "timestamp"}
    BY DEF BwcInv, BwcTyped
  <2>2. CASE sample
    <3>1. graph' = [graph EXCEPT ![p] = [graph[p] EXCEPT !.times = times]]
      BY <1>1, <2>2
    <3>2. PICK g : g = [graph[p] EXCEPT !.times = times]
      OBVIOUS
    <3>3. DOMAIN g = {"times", "timestamp"} /\ g.times = times /\ g.timestamp = last
      BY <2>1, <3>2
    <3>4. DOMAIN graph' = Pages /\ (\A o \in Pages \ {p} : graph'[o] = graph[o]) /\ graph'[p] = g
      BY <2>1, <3>1, <3>2
    <3>5. QED
      BY <3>3, <3>4
  <2>3. CASE ~sample
    BY <1>1, <2>1, <2>3
  <2>4. QED
    BY <2>2, <2>3
<1> HIDE DEF taken
<1>4. /\ DOMAIN dump'[p] = DumpFields /\ dump'[p].at = dump[p].at /\ dump'[p].slot = slot + 1
      /\ dump'[p].printed = data /\ dump'[p].pid = dump[p].pid /\ dump'[p].latest = taken
  BY <1>2 DEF DumpFields
<1> HIDE DEF data, slot, last, times, new, sample
<1>5. ASSUME ~overlapped PROVE PageOK(p)'
  <2>1. PageOK(p)
    BY <1>5 DEF BwcInv
  <2>2. /\ data \in Seq(Nat) /\ Ascending(data) /\ last \in Nat /\ dump[p].latest \in Nat
        /\ graph[p].times \in Seq(Nat) /\ Rising(graph[p].times)
        /\ \A i \in 1..Len(graph[p].times) : graph[p].times[i] <= last \/ graph[p].times[i] <= dump[p].latest
        /\ dump[p].latest # 0 => last < dump[p].latest /\ j - 1 \in 1..Len(data) /\ dump[p].latest <= data[j - 1]
    BY <2>1 DEF PageOK, data, last, slot
  <2>3. dump[p].at = "print" /\ Full /\ slot \in Nat
    <3>1. data # <<>>
      BY <1>1, <2>2
    <3>2. QED
      BY <2>1, <3>1 DEF PageOK, data, slot
  <2>4. slot > Slots /\ slot + 1 \in Nat \ {0} /\ slot + 1 \notin 1..Slots /\ (slot + 1 - Slots) - 1 = j
    BY <1>1, <2>2, <2>3, BwcAssumption
  <2>5. new \in BOOLEAN /\ (new => last < data[j])
    BY <1>1, <2>2 DEF new
  <2>6. /\ taken \in Nat /\ dump[p].latest <= taken
        /\ taken # 0 => last < taken /\ taken <= data[j]
        /\ new /\ j > 1 /\ data[j] # data[j - 1] => dump[p].latest < data[j]
    BY <1>1, <2>2, <2>5, TakenInOrder DEF taken
  <2>7. /\ times \in Seq(Nat) /\ Rising(times)
        /\ \A i \in 1..Len(times) : times[i] <= last \/ times[i] <= taken
    <3>1. data[j] \in Nat /\ \A i \in 1..Len(graph[p].times) : graph[p].times[i] \in Nat
      BY <1>1, <2>2
    <3>2. CASE sample
      <4>1. new /\ times = Append(graph[p].times, data[j]) /\ taken = data[j] /\ dump[p].latest < data[j]
        BY <2>6, <3>2 DEF sample, times, taken
      <4>2. \A i \in 1..Len(graph[p].times) : graph[p].times[i] < data[j]
        <5> SUFFICES ASSUME NEW i \in 1..Len(graph[p].times) PROVE graph[p].times[i] < data[j]
          OBVIOUS
        <5>1. graph[p].times[i] <= last \/ graph[p].times[i] <= dump[p].latest
          BY <2>2
        <5>2. last < data[j] /\ dump[p].latest < data[j]
          BY <2>5, <4>1
        <5>3. graph[p].times[i] \in Nat /\ last \in Nat /\ dump[p].latest \in Nat /\ data[j] \in Nat
          BY <2>2, <3>1
        <5> HIDE DEF j
        <5>4. QED
          BY <5>1, <5>2, <5>3
      <4>3. times \in Seq(Nat) /\ Rising(times)
        BY <2>2, <3>1, <4>1, <4>2, RisingAppend
      <4>4. /\ Len(times) = Len(graph[p].times) + 1 /\ times[Len(graph[p].times) + 1] = data[j]
            /\ \A i \in 1..Len(graph[p].times) : times[i] = graph[p].times[i]
        BY <2>2, <3>1, <4>1
      <4>5. ASSUME NEW i \in 1..Len(times) PROVE times[i] <= taken
        <5>1. i \in 1..Len(graph[p].times) \/ i = Len(graph[p].times) + 1
          BY <2>2, <4>4
        <5>2. QED
          BY <3>1, <4>1, <4>2, <4>4, <5>1
      <4>6. QED
        BY <4>3, <4>5
    <3>3. CASE ~sample
      <4>1. times = graph[p].times
        BY <3>3 DEF times
      <4>2. ASSUME NEW i \in 1..Len(times) PROVE times[i] <= last \/ times[i] <= taken
        <5>1. /\ graph[p].times[i] <= last \/ graph[p].times[i] <= dump[p].latest
              /\ graph[p].times[i] \in Nat /\ dump[p].latest \in Nat
          BY <2>2, <3>1, <4>1
        <5>2. dump[p].latest <= taken /\ taken \in Nat
          BY <2>6
        <5>3. graph[p].times[i] <= last \/ graph[p].times[i] <= taken
          BY <5>1, <5>2
        <5>4. QED
          BY <4>1, <5>3
      <4>3. QED
        BY <2>2, <4>1, <4>2
    <3>4. QED
      BY <3>2, <3>3
  <2>8. Full'
    BY <1>1, <2>3 DEF Full
  <2> HIDE DEF j
  <2>9. dump'[p].at = "print" /\ Full' /\ dump'[p].slot \in Nat \ {0} /\ dump'[p].slot \notin 1..Slots
    BY <1>4, <2>3, <2>4, <2>8
  <2>10. (dump'[p].slot - Slots) - 1 = j
    <3>1. dump'[p].slot = slot + 1
      BY <1>4
    <3>2. slot \in Nat /\ Slots \in Nat /\ (slot + 1) - Slots - 1 = j
      BY <2>3, <2>4, BwcAssumption
    <3>3. QED
      BY <3>1, <3>2
  <2>11. /\ dump'[p].printed \in Seq(Nat) /\ Ascending(dump'[p].printed)
         /\ graph'[p].times \in Seq(Nat) /\ Rising(graph'[p].times)
         /\ graph'[p].timestamp \in Nat /\ dump'[p].latest \in Nat
    BY <1>3, <1>4, <2>2, <2>6, <2>7
  <2>12. \A i \in 1..Len(graph'[p].times) : \/ graph'[p].times[i] <= graph'[p].timestamp
                                            \/ graph'[p].times[i] <= dump'[p].latest
    BY <1>3, <1>4, <2>7
  <2>13. dump'[p].latest # 0 => /\ graph'[p].timestamp < dump'[p].latest
                                /\ (dump'[p].slot - Slots) - 1 \in 1..Len(dump'[p].printed)
                                /\ dump'[p].latest <= dump'[p].printed[(dump'[p].slot - Slots) - 1]
    BY <1>1, <1>3, <1>4, <2>6, <2>10
  <2>14. IF dump'[p].at = "print" THEN Full' /\ dump'[p].slot \in Nat \ {0}
         ELSE dump'[p].slot = 0 /\ dump'[p].printed = <<>> /\ dump'[p].latest = 0
    BY <2>9
  <2>15. dump'[p].slot \in 1..Slots /\ dump'[p].printed # <<>> =>
           dump'[p].printed[Len(dump'[p].printed)] <= database'[dump'[p].slot]
    BY <2>9
  <2>16. QED
    BY Zenon, <2>11, <2>12, <2>13, <2>14, <2>15 DEF PageOK
<1>6. QED
  BY <1>1, <1>2, <1>3, <1>4, <1>5, DumpMoves

LEMMA DoneInv ==
  ASSUME BwcInv, NEW p \in Pages, PageDone(p)
  PROVE  BwcInv'
<1>1. /\ dump' = [dump EXCEPT ![p] = [NoDump EXCEPT !.left = dump[p].left]]
      /\ graph' = IF dump[p].latest = 0 THEN graph
                  ELSE [graph EXCEPT ![p] = [graph[p] EXCEPT !.timestamp = dump[p].latest]]
      /\ UNCHANGED <<clock, pidfile, daemon, database, overlapped>>
      /\ DOMAIN dump = Pages /\ DOMAIN graph = Pages /\ DOMAIN graph[p] = {"times", "timestamp"}
  BY DEF PageDone, BwcInv, BwcTyped
<1>2. /\ DOMAIN dump' = Pages /\ (\A o \in Pages \ {p} : dump'[o] = dump[o])
      /\ DOMAIN graph' = Pages /\ (\A o \in Pages \ {p} : graph'[o] = graph[o])
      /\ dump'[p] = [NoDump EXCEPT !.left = dump[p].left]
  BY <1>1
<1>3. /\ DOMAIN dump'[p] = DumpFields /\ dump'[p].at = "idle" /\ dump'[p].slot = 0
      /\ dump'[p].printed = <<>> /\ dump'[p].pid = "none" /\ dump'[p].latest = 0
  BY <1>2 DEF DumpFields, NoDump
<1>4. /\ DOMAIN graph'[p] = {"times", "timestamp"} /\ graph'[p].times = graph[p].times
      /\ graph'[p].timestamp = IF dump[p].latest = 0 THEN graph[p].timestamp ELSE dump[p].latest
  <2>1. CASE dump[p].latest = 0
    BY <1>1, <2>1
  <2>2. CASE dump[p].latest # 0
    <3>1. graph'[p] = [graph[p] EXCEPT !.timestamp = dump[p].latest]
      BY <1>1, <2>2
    <3>2. QED
      BY <1>1, <2>2, <3>1
  <2>3. QED
    BY <2>1, <2>2
<1>5. ASSUME ~overlapped PROVE PageOK(p)'
  <2>1. PageOK(p)
    BY <1>5 DEF BwcInv
  <2>2. PICK times, last, taken : times = graph[p].times /\ last = graph[p].timestamp /\ taken = dump[p].latest
    OBVIOUS
  <2>3. /\ times \in Seq(Nat) /\ Rising(times) /\ last \in Nat /\ taken \in Nat
        /\ \A i \in 1..Len(times) : times[i] <= last \/ times[i] <= taken
        /\ taken # 0 => last < taken
    BY <2>1, <2>2 DEF PageOK
  <2>4. PICK now : now = IF taken = 0 THEN last ELSE taken
    OBVIOUS
  <2>5. now \in Nat /\ \A i \in 1..Len(times) : times[i] <= now
    <3>1. \A i \in 1..Len(times) : times[i] \in Nat
      BY <2>3
    <3>2. QED
      BY <2>3, <2>4, <3>1
  <2>6. graph'[p].times = times /\ graph'[p].timestamp = now
    BY <1>4, <2>2, <2>4
  <2>7. \A data : data = <<>> => data \in Seq(Nat) /\ Ascending(data)
    BY DEF Ascending
  <2>8. dump'[p].printed \in Seq(Nat) /\ Ascending(dump'[p].printed)
    BY <1>3, <2>7
  <2>9. 0 \notin 1..Slots
    BY BwcAssumption
  <2>10. QED
    BY <1>3, <2>3, <2>5, <2>6, <2>8, <2>9 DEF PageOK
<1>6. dump'[p].pid \notin Daemons
  BY <1>3, BwcAssumption
<1>7. QED
  BY <1>1, <1>2, <1>3, <1>4, <1>5, <1>6, DumpMoves

LEMMA BwcStep ==
  ASSUME BwcInv, BwcNext
  PROVE  BwcInv'
<1>1. ASSUME NEW d \in Daemons, DaemonStep(d) PROVE BwcInv'
  BY <1>1, PlainInv, FileInv, EntryInv, StoreInv DEF DaemonStep
<1>2. ASSUME NEW p \in Pages, DumpNext(p) PROVE BwcInv'
  BY <1>2, ReadPidInv, StartInv, PingInv, SignalInv, OpenFileInv, PrintInv, EntryTaken, DoneInv DEF DumpNext
<1>3. ASSUME Tick \/ SetBack PROVE BwcInv'
  <2>1. clock' \in Nat /\ UNCHANGED <<pidfile, daemon, database, dump, graph, overlapped>>
    BY <1>3 DEF Tick, SetBack, BwcInv, BwcTyped
  <2>2. BwcTyped' /\ NumbersOK'
    BY <2>1 DEF BwcInv, BwcTyped, NumbersOK
  <2>3. QED
    BY <2>1, <2>2 DEF BwcInv, DatabaseOK, Serving, WriterOK, PageOK, Full
<1>4. QED
  BY <1>1, <1>2, <1>3 DEF BwcNext

\* However many processes dump databases of whatever size, and start the daemon
\* that fills them (luci-bwc.c, bandwidth.js), and though the clock is set back:
\* none kills a daemon with the signal that keeps it alive; and with one daemon
\* at a time, what a dump reads while entries are shifted, and what the page then
\* makes of successive dumps, is in order.
THEOREM SamplesInOrder == RouterSpec => []SamplesHold
<1> DEFINE Inv == program = "bwc" => BwcInv
<1>1. RouterInit => Inv
  BY BwcStart DEF RouterInit
<1>2. Inv /\ [RouterNext]_routerVars => Inv'
  <2> SUFFICES ASSUME Inv, [RouterNext]_routerVars, program' = "bwc" PROVE BwcInv'
    OBVIOUS
  <2>1. CASE program = "bwc" /\ BwcNext
    BY <2>1, BwcStep
  <2>2. CASE program' = program /\ UNCHANGED bwcVars
    <3>1. BwcTyped' /\ NumbersOK'
      BY <2>2 DEF bwcVars, BwcInv, BwcTyped, NumbersOK
    <3>2. QED
      BY <2>2, <3>1 DEF bwcVars, BwcInv, DatabaseOK, Serving, WriterOK, PageOK, Full
  <2>3. QED
    BY <2>1, <2>2 DEF RouterNext, routerVars
<1>3. Inv => SamplesHold
  <2> SUFFICES ASSUME BwcInv PROVE SamplesSound
    BY DEF SamplesHold
  <2>1. DaemonNotKilled
    <3>1. \A d \in Daemons : daemon[d] \in DaemonRecords
      BY DEF BwcInv, BwcTyped
    <3>2. QED
      BY <3>1 DEF DaemonNotKilled, DaemonRecords, Settled, Living
  <2>2. DumpInOrder /\ GraphInOrder
    BY DEF BwcInv, PageOK, DumpInOrder, GraphInOrder
  <2>3. QED
    BY <2>1, <2>2 DEF SamplesSound
<1>4. QED
  BY <1>1, <1>2, <1>3, PTL DEF RouterSpec
=============================================================================
