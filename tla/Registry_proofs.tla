-------------------------- MODULE Registry_proofs --------------------------
(***************************************************************************)
(* The registry server for every set of requests, readers, users and       *)
(* namespaces.  What RequireNamespace has seen stays true: a namespace     *)
(* with an owner keeps it.  What a reader has found stays there, since     *)
(* rows are never deleted, and lists only grow.                            *)
(***************************************************************************)
EXTENDS Registry, Publish_proofs, FiniteSetTheorems

\* A request that was received has been cleared for its namespace, and the
\* caller it was cleared for owns it.
CallerOK(r) ==
  /\ req[r] # NoRequest => cleared[r] # Absent /\ cleared[r] = req[r].namespace
  /\ cleared[r] # Absent =>
       /\ cleared[r] \in Namespaces /\ caller[r] \in Owners
       /\ namespaces[cleared[r]] = caller[r]

\* What a page has found is there.
PageOK(d) ==
  LET k == reads[d].key IN
  reads[d].page \in {"detail", "version"} =>
    /\ reads[d].step # "500"
    /\ reads[d].step = "version" => plugins[<<k[1], k[2]>>] # NoRow
    /\ reads[d].after => versions[k] # NoRow /\ reads[d].step \in Busy \cup {"200"}

\* A walk has shown everything above the page it is at, and after the page
\* what it promised or the page in full.
WalkOK(d) ==
  LET w == reads[d]
      shown == w.from + w.cards
  IN w.page = "walk" =>
       /\ w.step \in {"namespace", "count", "list"} => shown >= w.offset
       /\ w.step = "list" => w.total <= Listed(w.scope)
       /\ w.step = "200" => shown >= w.total \/ shown >= w.offset + w.limit

RInv ==
  /\ PInv /\ RegistryTypeOK
  /\ \A r \in Requests : CallerOK(r)
  /\ \A d \in Readers : PageOK(d) /\ WalkOK(d)

-----------------------------------------------------------------------------
\* Lists are of finite length.
LEMMA ListedType ==
  ASSUME NEW scope
  PROVE  Listed(scope) \in Nat
<1>1. IsFiniteSet(PluginKeys)
  BY FS_Product, PagingAssumption DEF PluginKeys
<1>2. IsFiniteSet({k \in PluginKeys : plugins[k] # NoRow /\ scope \in {k[1], Everywhere}})
  BY <1>1, FS_Subset
<1> QED
  BY <1>2, FS_CardinalityType DEF Listed

\* They do not shrink.
LEMMA ListedGrows ==
  ASSUME NEW scope, \A k \in PluginKeys : plugins[k] # NoRow => plugins'[k] # NoRow
  PROVE  Listed(scope) \in Nat /\ Listed(scope)' \in Nat /\ Listed(scope) <= Listed(scope)'
<1> DEFINE Now == {k \in PluginKeys :
                     plugins[k] # NoRow /\ scope \in {k[1], Everywhere}}
           Then == {k \in PluginKeys :
                      plugins'[k] # NoRow /\ scope \in {k[1], Everywhere}}
<1>1. IsFiniteSet(PluginKeys)
  BY FS_Product, PagingAssumption DEF PluginKeys
<1>2. IsFiniteSet(Then) /\ Now \in SUBSET Then
  BY <1>1, FS_Subset
<1>3. Cardinality(Now) <= Cardinality(Then)
  BY <1>2, FS_Subset
<1>4. Cardinality(Now) \in Nat /\ Cardinality(Then) \in Nat
  BY <1>2, FS_Subset, FS_CardinalityType
<1> QED
  BY <1>3, <1>4 DEF Listed

LEMMA OnPageIs ==
  ASSUME NEW n \in Nat, NEW limit \in Nat, NEW offset \in Nat
  PROVE  /\ OnPage(n, limit, offset) \in Nat
         /\ \/ OnPage(n, limit, offset) = limit
            \/ OnPage(n, limit, offset) >= n - offset
<1>1. PICK m \in Nat : Max({n - offset, 0}) = m /\ m >= n - offset
  <2>1. \E m \in {n - offset, 0} : \A x \in {n - offset, 0} : m >= x
    BY n - offset >= 0 \/ n - offset < 0
  <2>2. \A m : m = Max({n - offset, 0}) =>
          m \in {n - offset, 0} /\ \A x \in {n - offset, 0} : m >= x
    BY <2>1 DEF Max
  <2> QED
    BY <2>2
<1>2. \A x : x = Min({limit, Max({n - offset, 0})}) => x \in {limit, Max({n - offset, 0})}
  <2>1. \E x \in {limit, Max({n - offset, 0})} :
          \A y \in {limit, Max({n - offset, 0})} : x <= y
    BY <1>1
  <2> QED
    BY <2>1 DEF Min
<1> QED
  BY <1>1, <1>2 DEF OnPage

-----------------------------------------------------------------------------
\* No step takes a row away, or a namespace from its owner.
Grows ==
  /\ \A ns \in Namespaces : namespaces[ns] \in Owners => namespaces'[ns] = namespaces[ns]
  /\ \A k \in PluginKeys : plugins[k] # NoRow => plugins'[k] # NoRow
  /\ \A k \in VersionKeys : versions[k] # NoRow => versions'[k] # NoRow

LEMMA UnchangedGrows == UNCHANGED tables => Grows
BY DEF tables, Grows

LEMMA NextGrows ==
  ASSUME PInv, [Next]_vars
  PROVE  Grows
<1>1. ASSUME NEW r \in Requests, Commit(r)
      PROVE  Grows
  <2>1. NewVersion(r) # NoRow
    BY <1>1, CommitFacts, Rows DEF AfterFetch, AfterNamespace, AfterPlugin
  <2> QED
    BY <1>1, <2>1, CommitFacts, SentinelAssumption DEF PInv, TypeOK, Grows
<1> QED
  BY <1>1, CatalogStep, UnchangedGrows

\* A registration takes a free name, which no publication has locked.
LEMMA RegisterKeeps ==
  ASSUME PInv, NEW u \in Owners, RegisterUser(u)
  PROVE  PInv' /\ Grows
<1>1. /\ UNCHANGED <<plugins, versions, pc, req, readme, tx, created, status>>
      /\ Home[u] \in Namespaces /\ namespaces[Home[u]] = Absent /\ namespaces'[Home[u]] = u
      /\ \A ns \in Namespaces \ {Home[u]} : namespaces'[ns] = namespaces[ns]
      /\ u # Absent
  BY HomeAssumption, SentinelAssumption DEF PInv, TypeOK, RegisterUser
<1>2. Grows
  BY <1>1, SentinelAssumption DEF Grows
<1>3. TypeOK'
  BY <1>1 DEF PInv, TypeOK, RegisterUser
<1>4. ASSUME NEW r \in Requests
      PROVE  RequestOK(r)'
  <2>1. RequestOK(r)
    BY DEF PInv, RequestsOK
  <2>2. ReceivedOK(r)' /\ FetchedOK(r)' /\ CreatedOK(r)'
    BY <1>1, <2>1 DEF RequestOK, ReceivedOK, InFlight, FetchedOK, CreatedOK, ManifestOf, Valid,
       VersionKey
  <2>3. pc[r] \in AfterNamespace => req[r].namespace \in Namespaces
    BY <2>1 DEF RequestOK, ReceivedOK, InFlight, Request, AfterNamespace, AfterPlugin
  <2>4. WrittenOK(r)'
    BY <1>1, <2>1, <2>3
       DEF RegisterUser, RequestOK, WrittenOK, ManifestOf, NewVersion
  <2>5. FoundOK(r)'
    BY <1>1, <2>1, <2>3 DEF RequestOK, FoundOK, PluginKey
  <2> QED
    BY <2>2, <2>4, <2>5 DEF RequestOK
<1>5. LocksApart' /\ RowsRequested' /\ VersionHasPlugin' /\ RowsMatchImage' /\ CreatedOnce'
  BY <1>1 DEF PInv, CatalogOK, LocksApart, Apart, RowsRequested, VersionHasPlugin,
     RowsMatchImage, CreatedOnce, VersionKey
<1>6. PluginHasVersion'
  <2>1. \A ns \in Namespaces : namespaces[ns] # Absent => namespaces'[ns] # Absent
    BY <1>1
  <2> QED
    BY <1>1, <2>1 DEF PInv, CatalogOK, PluginHasVersion, PluginKeys
<1> QED
  BY <1>2, <1>3, <1>4, <1>5, <1>6 DEF PInv, RequestsOK, CatalogOK

\* Readers, while others change the tables.
LEMMA ReadersKeep ==
  ASSUME RInv, Grows, UNCHANGED reads, NEW d \in Readers
  PROVE  PageOK(d)' /\ WalkOK(d)'
<1>1. PageOK(d)'
  <2> SUFFICES ASSUME reads[d].page \in {"detail", "version"}
               PROVE  PageOK(d)'
    BY DEF PageOK
  <2>1. /\ reads[d].key \in VersionKeys
        /\ <<reads[d].key[1], reads[d].key[2]>> \in PluginKeys
    BY DEF RInv, RegistryTypeOK, NoRead, VersionKeys, PluginKeys
  <2> QED
    BY <2>1 DEF RInv, PageOK, Grows
<1>2. WalkOK(d)'
  <2> SUFFICES ASSUME reads[d].page = "walk"
               PROVE  WalkOK(d)'
    BY DEF WalkOK
  <2> PICK scope : scope = reads[d].scope
    OBVIOUS
  <2>1. reads[d].total \in Nat
    BY DEF RInv, RegistryTypeOK, NoRead
  <2>2. Listed(scope) \in Nat /\ Listed(scope)' \in Nat /\ Listed(scope) <= Listed(scope)'
    BY ListedGrows DEF Grows
  <2>3. Listed(reads[d].scope) = Listed(scope) /\ Listed(reads[d].scope)' = Listed(scope)'
    BY DEF Listed
  <2> QED
    BY <2>1, <2>2, <2>3 DEF RInv, WalkOK
<1> QED
  BY <1>1, <1>2

\* Callers, while others change the tables.
LEMMA CallersKeep ==
  ASSUME RInv, Grows, NEW r \in Requests, req'[r] = req[r],
         caller'[r] = caller[r], cleared'[r] = cleared[r]
  PROVE  CallerOK(r)'
BY DEF RInv, CallerOK, Grows

-----------------------------------------------------------------------------
\* Steps of readers.
PageReads ==
  [page : {"detail", "version"}, key : VersionKeys, after : BOOLEAN,
   step : {"namespace", "plugin", "version", "200", "404", "500"}]

WalkReads ==
  [page : {"walk"}, scope : Namespaces \cup {Everywhere}, limit : 1..MaxLimit,
   step : {"namespace", "count", "list", "200", "404"},
   from : Nat, offset : Nat, total : Nat, cards : Nat]

LEMMA ReadTypes ==
  ASSUME RInv, NEW d \in Readers
  PROVE  /\ reads[d] \in PageReads \cup WalkReads \cup {NoRead}
         /\ reads[d].page \in {"detail", "version"} => reads[d] \in PageReads
         /\ reads[d].page = "walk" => reads[d] \in WalkReads
         /\ reads[d].step \in {"plugin", "version"} => reads[d] \in PageReads
         /\ reads[d].step \in {"count", "list"} => reads[d] \in WalkReads
         /\ reads[d].step = "namespace" /\ reads[d].page # "walk" => reads[d] \in PageReads
BY DEF RInv, RegistryTypeOK, PageReads, WalkReads, NoRead

\* A reader moves to the state now.
LEMMA ReaderStep ==
  ASSUME RInv, NEW d \in Readers, NEW now \in PageReads \cup WalkReads,
         reads' = [reads EXCEPT ![d] = now],
         UNCHANGED <<vars, caller, cleared>>, PageOK(d)', WalkOK(d)'
  PROVE  RInv'
<1>1. PInv' /\ Grows
  BY StutterStep, UnchangedGrows DEF RInv, vars, tables
<1>2. RegistryTypeOK'
  BY <1>1 DEF RInv, PInv, RegistryTypeOK, PageReads, WalkReads
<1>3. \A r \in Requests : CallerOK(r)'
  BY <1>1, CallersKeep DEF vars
<1>4. ASSUME NEW x \in Readers \ {d}
      PROVE  PageOK(x)' /\ WalkOK(x)'
  <2>1. PageOK(x) /\ WalkOK(x) /\ reads'[x] = reads[x]
    BY DEF RInv, RegistryTypeOK
  <2>2. plugins' = plugins /\ versions' = versions
    BY DEF vars
  <2> QED
    BY <2>1, <2>2 DEF PageOK, WalkOK, Listed
<1> QED
  BY <1>1, <1>2, <1>3, <1>4 DEF RInv

LEMMA PageStep ==
  ASSUME RInv, NEW d \in Readers, Read(d)
  PROVE  RInv'
<1>1. UNCHANGED <<vars, caller, cleared>> /\ plugins' = plugins /\ versions' = versions
  BY DEF Read, ReadArrives, ReadNamespace, ReadPlugin, ListVersions, ReadVersion, ReadGoes, vars
<1>2. reads \in [Readers -> PageReads \cup WalkReads \cup {NoRead}]
  BY DEF RInv, RegistryTypeOK, PageReads, WalkReads
<1>3. ASSUME NEW page \in {"detail", "version"}, NEW k \in VersionKeys, ReadArrives(d, page, k)
      PROVE  RInv'
  <2> DEFINE now == [page |-> page, step |-> "namespace", key |-> k,
                     after |-> \E r \in Requests : status[r] = "201" /\ VersionKey(r) = k]
  <2>1. now \in PageReads
    BY DEF PageReads
  <2>2. reads' = [reads EXCEPT ![d] = now] /\ reads'[d] = now
    BY <1>2, <1>3 DEF ReadArrives
  <2>3. now.after => versions[k] # NoRow
    <3> SUFFICES ASSUME NEW r \in Requests, status[r] = "201", VersionKey(r) = k
                 PROVE  versions[k] # NoRow
      OBVIOUS
    <3> QED
      BY DEF RInv, PInv, RequestsOK, RequestOK, CreatedOK
  <2>4. PageOK(d)' /\ WalkOK(d)'
    BY <1>1, <2>2, <2>3 DEF PageOK, WalkOK, Busy
  <2> HIDE DEF now
  <2> QED
    BY <1>1, <2>1, <2>2, <2>4, ReaderStep
<1>4. ASSUME NEW to, reads[d] \in PageReads,
             reads' = [reads EXCEPT ![d].step = to],
             to \in {"plugin", "version", "200", "404"},
             to = "version" => plugins[<<reads[d].key[1], reads[d].key[2]>>] # NoRow,
             reads[d].after => to # "404"
      PROVE  RInv'
  <2>1. PICK now \in PageReads :
          /\ reads' = [reads EXCEPT ![d] = now] /\ now.step = to /\ now.page = reads[d].page
          /\ now.key = reads[d].key /\ now.after = reads[d].after
    <3> DEFINE now == [page |-> reads[d].page, key |-> reads[d].key,
                       after |-> reads[d].after, step |-> to]
    <3>1. now \in PageReads
      BY <1>4 DEF PageReads
    <3>2. [reads[d] EXCEPT !.step = to] = now
      BY <1>4 DEF PageReads
    <3>3. reads' = [reads EXCEPT ![d] = [reads[d] EXCEPT !.step = to]]
      BY <1>4, Zenon
    <3> QED
      BY <3>1, <3>2, <3>3
  <2>2. reads'[d] = now
    BY <1>2, <2>1
  <2>3. PageOK(d)' /\ WalkOK(d)'
    BY <1>1, <1>4, <2>1, <2>2 DEF RInv, PageOK, WalkOK, Busy, PageReads
  <2> QED
    BY <1>1, <2>1, <2>3, ReaderStep
<1>5. ASSUME ReadNamespace(d) \/ ReadPlugin(d) \/ ListVersions(d) \/ ReadVersion(d)
      PROVE  RInv'
  <2>1. reads[d] \in PageReads
    <3>1. \/ reads[d].step = "namespace" /\ reads[d].page # "walk"
          \/ reads[d].step \in {"plugin", "version"}
      BY <1>5 DEF ReadNamespace, ReadPlugin, ListVersions, ReadVersion, ReadGoes
    <3> QED
      BY <3>1, ReadTypes
  <2> PICK k \in VersionKeys : k = reads[d].key
    BY <2>1 DEF PageReads
  <2>2. <<k[1], k[2]>> \in PluginKeys /\ k[1] \in Namespaces /\ k[3] \in Versions
        /\ k = <<k[1], k[2], k[3]>>
    BY DEF VersionKeys, PluginKeys
  <2>3. versions[k] # NoRow => plugins[<<k[1], k[2]>>] # NoRow
    BY DEF RInv, PInv, CatalogOK, VersionHasPlugin
  <2>4. plugins[<<k[1], k[2]>>] # NoRow =>
          /\ namespaces[k[1]] # Absent
          /\ \E v \in Versions : versions[<<k[1], k[2], v>>] # NoRow
    BY <2>2 DEF RInv, PInv, CatalogOK, PluginHasVersion
  <2>5. reads[d].after => versions[k] # NoRow
    BY <2>1 DEF RInv, PageOK, PageReads
  <2>6. CASE ReadNamespace(d)
    BY <1>4, <2>1, <2>3, <2>4, <2>5, <2>6 DEF ReadNamespace, ReadGoes
  <2>7. CASE ReadPlugin(d)
    BY <1>4, <2>1, <2>3, <2>5, <2>7 DEF ReadPlugin, ReadGoes
  <2>8. CASE ListVersions(d)
    BY <1>4, <2>1, <2>4, <2>8 DEF RInv, PageOK, ListVersions, ReadGoes
  <2>9. CASE ReadVersion(d)
    BY <1>4, <2>1, <2>5, <2>9 DEF ReadVersion, ReadGoes
  <2> QED
    BY <1>5, <2>6, <2>7, <2>8, <2>9
<1> QED
  BY <1>3, <1>5 DEF Read

\* A walk that goes on: the fields that change, and those that do not.
Goes(w, now, step, offset, total, cards) ==
  /\ now \in WalkReads
  /\ now.scope = w.scope /\ now.limit = w.limit /\ now.from = w.from
  /\ now.step = step /\ now.offset = offset /\ now.total = total /\ now.cards = cards

LEMMA WalkFields ==
  ASSUME NEW w \in WalkReads, NEW step \in {"namespace", "count", "list", "200", "404"},
         NEW n \in Nat
  PROVE  /\ Goes(w, [w EXCEPT !.step = step], step, w.offset, w.total, w.cards)
         /\ Goes(w, [w EXCEPT !.step = step, !.total = n], step, w.offset, n, w.cards)
         /\ Goes(w, [w EXCEPT !.step = step, !.cards = n], step, w.offset, w.total, n)
         /\ Goes(w, [w EXCEPT !.offset = n, !.step = step], step, n, w.total, w.cards)
<1>1. Goes(w, [w EXCEPT !.step = step], step, w.offset, w.total, w.cards)
  BY DEF WalkReads, Goes
<1>2. Goes(w, [w EXCEPT !.step = step, !.total = n], step, w.offset, n, w.cards)
  BY DEF WalkReads, Goes
<1>3. Goes(w, [w EXCEPT !.step = step, !.cards = n], step, w.offset, w.total, n)
  BY DEF WalkReads, Goes
<1>4. Goes(w, [w EXCEPT !.offset = n, !.step = step], step, n, w.total, w.cards)
  BY DEF WalkReads, Goes
<1> QED
  BY <1>1, <1>2, <1>3, <1>4

LEMMA WalkStep ==
  ASSUME RInv, NEW d \in Readers, Walk(d)
  PROVE  RInv'
<1>1. UNCHANGED <<vars, caller, cleared>> /\ plugins' = plugins
  BY DEF Walk, WalkArrives, ListNamespace, CountPlugins, ListPlugins, LoadMore, ReadGoes, vars
<1>2. reads \in [Readers -> PageReads \cup WalkReads \cup {NoRead}]
  BY DEF RInv, RegistryTypeOK, PageReads, WalkReads
<1>3. ASSUME NEW scope \in Namespaces \cup {Everywhere}, NEW limit \in Limits,
             NEW offset \in Offsets, WalkArrives(d, scope, limit, offset)
      PROVE  RInv'
  <2>1. PICK from \in Nat : from = IF offset < 0 THEN 0 ELSE offset
    BY PagingAssumption
  <2>2. PICK size \in 1..MaxLimit :
          size = IF limit < 1 \/ limit > MaxLimit THEN DefaultLimit ELSE limit
    BY PagingAssumption
  <2> DEFINE now == [page |-> "walk", scope |-> scope,
                     step |-> IF scope = Everywhere THEN "count" ELSE "namespace",
                     limit |-> size, from |-> from, offset |-> from, total |-> 0, cards |-> 0]
  <2>3. now \in WalkReads
    BY DEF WalkReads
  <2>4. reads' = [reads EXCEPT ![d] = now] /\ reads'[d] = now
    BY <1>2, <1>3, <2>1, <2>2 DEF WalkArrives
  <2>5. PageOK(d)' /\ WalkOK(d)'
    BY <2>4 DEF PageOK, WalkOK
  <2> HIDE DEF now
  <2> QED
    BY <1>1, <2>3, <2>4, <2>5, ReaderStep
<1> DEFINE w == reads[d]
<1>4. ASSUME NEW now, NEW step, NEW offset \in Nat, NEW total \in Nat, NEW cards \in Nat,
             Goes(w, now, step, offset, total, cards), reads' = [reads EXCEPT ![d] = now],
             step \in {"namespace", "count", "list"} => w.from + cards >= offset,
             step = "list" => total <= Listed(w.scope),
             step = "200" => w.from + cards >= total \/ w.from + cards >= offset + w.limit
      PROVE  RInv'
  <2>1. reads'[d] = now
    BY <1>2, <1>4
  <2>2. now.page = "walk"
    BY <1>4 DEF Goes, WalkReads
  <2>3. Listed(reads[d].scope)' = Listed(w.scope)
    BY <1>1, <1>4, <2>1 DEF Listed, Goes
  <2>4. PageOK(d)' /\ WalkOK(d)'
    BY <1>4, <2>1, <2>2, <2>3 DEF PageOK, WalkOK, Goes
  <2> QED
    BY <1>1, <1>4, <2>4, ReaderStep DEF Goes
<1>5. ASSUME ListNamespace(d) \/ CountPlugins(d) \/ ListPlugins(d) \/ LoadMore(d)
      PROVE  RInv'
  <2>1. w \in WalkReads
    <3>1. w.page = "walk" \/ w.step \in {"count", "list"}
      BY <1>5 DEF ListNamespace, CountPlugins, ListPlugins, LoadMore
    <3> QED
      BY <3>1, ReadTypes
  <2>2. /\ w.page = "walk" /\ w.scope \in Namespaces \cup {Everywhere} /\ w.limit \in Nat
        /\ w.from \in Nat /\ w.offset \in Nat /\ w.total \in Nat /\ w.cards \in Nat
    BY <2>1, PagingAssumption DEF WalkReads
  <2> PICK n \in Nat : n = Listed(w.scope)
    BY ListedType
  <2>3. /\ w.step \in {"namespace", "count", "list"} => w.from + w.cards >= w.offset
        /\ w.step = "list" => w.total <= n
        /\ w.step = "200" => w.from + w.cards >= w.total \/ w.from + w.cards >= w.offset + w.limit
    BY <2>2 DEF RInv, WalkOK
  <2>4. CASE ListNamespace(d)
    <3>1. PICK step \in {"404", "count"} : reads' = [reads EXCEPT ![d] = [w EXCEPT !.step = step]]
      BY <2>4 DEF ListNamespace, ReadGoes
    <3>2. w.step = "namespace"
      BY <2>4 DEF ListNamespace, ReadGoes
    <3>3. Goes(w, [w EXCEPT !.step = step], step, w.offset, w.total, w.cards)
      BY <2>1, WalkFields
    <3> QED
      BY <1>4, <2>2, <2>3, <3>1, <3>2, <3>3
  <2>5. CASE CountPlugins(d)
    <3> PICK now : now = [w EXCEPT !.step = "list", !.total = n]
      OBVIOUS
    <3>1. w.step = "count" /\ reads' = [reads EXCEPT ![d] = now]
      BY <2>5 DEF CountPlugins
    <3>2. Goes(w, now, "list", w.offset, n, w.cards)
      BY <2>1, WalkFields
    <3>3. w.from + w.cards >= w.offset
      BY <2>3, <3>1
    <3>4. n <= Listed(w.scope)
      OBVIOUS
    <3> QED
      BY <1>4, <2>2, <3>1, <3>2, <3>3, <3>4
  <2>6. CASE ListPlugins(d)
    <3> PICK shown \in Nat : /\ shown = OnPage(n, w.limit, w.offset)
                             /\ shown = w.limit \/ shown >= n - w.offset
      BY <2>2, OnPageIs
    <3> PICK cards \in Nat : cards = w.cards + shown
      BY <2>2
    <3> PICK now : now = [w EXCEPT !.step = "200", !.cards = cards]
      OBVIOUS
    <3>1. w.step = "list" /\ reads' = [reads EXCEPT ![d] = now]
      BY <2>6 DEF ListPlugins
    <3>2. w.from + cards >= w.total \/ w.from + cards >= w.offset + w.limit
      BY <2>2, <2>3, <3>1
    <3>3. Goes(w, now, "200", w.offset, w.total, cards)
      BY <2>1, WalkFields
    <3> QED
      BY <1>4, <2>2, <3>1, <3>2, <3>3
  <2>7. CASE LoadMore(d)
    <3> PICK offset \in Nat : offset = w.offset + w.limit
      BY <2>2
    <3> PICK step \in {"count", "namespace"} :
          step = IF w.scope = Everywhere THEN "count" ELSE "namespace"
      OBVIOUS
    <3> PICK now : now = [w EXCEPT !.offset = offset, !.step = step]
      OBVIOUS
    <3>1. reads' = [reads EXCEPT ![d] = now]
      BY <2>7 DEF LoadMore
    <3>2. w.from + w.cards >= offset
      BY <2>2, <2>3, <2>7 DEF LoadMore, HasMore
    <3>3. Goes(w, now, step, offset, w.total, w.cards)
      BY <2>1, WalkFields
    <3> QED
      BY <1>4, <2>2, <3>1, <3>2, <3>3
  <2> QED
    BY <1>5, <2>4, <2>5, <2>6, <2>7
<1> QED
  BY <1>3, <1>5 DEF Walk

-----------------------------------------------------------------------------
\* Steps of the server that leave the readers and the requests' callers alone.
LEMMA ServerStep ==
  ASSUME RInv, PInv', Grows, UNCHANGED reads,
         caller' \in [Requests -> Owners \cup {Nobody}],
         cleared' \in [Requests -> Namespaces \cup {Absent}],
         \A r \in Requests : CallerOK(r)'
  PROVE  RInv'
<1>1. RegistryTypeOK'
  BY DEF RInv, PInv, RegistryTypeOK
<1> QED
  BY <1>1, ReadersKeep DEF RInv

LEMMA RegisterStep ==
  ASSUME RInv, NEW u \in Owners, RegisterUser(u)
  PROVE  RInv'
<1>1. PInv' /\ Grows
  BY RegisterKeeps DEF RInv
<1>2. UNCHANGED <<req, caller, cleared, reads>>
  BY DEF RegisterUser
<1>3. \A r \in Requests : CallerOK(r)'
  BY <1>1, <1>2, CallersKeep
<1> QED
  BY <1>1, <1>2, <1>3, ServerStep DEF RInv, RegistryTypeOK

LEMMA UnauthenticatedStep ==
  ASSUME RInv, NEW r \in Requests, Unauthenticated(r)
  PROVE  RInv'
<1>1. PInv'
  BY EndStep DEF RInv, Unauthenticated, Statuses, AfterNamespace, AfterPlugin
<1>2. Grows /\ UNCHANGED <<req, caller, cleared, reads>>
  BY UnchangedGrows DEF Unauthenticated
<1>3. \A q \in Requests : CallerOK(q)'
  BY <1>2, CallersKeep
<1> QED
  BY <1>1, <1>2, <1>3, ServerStep DEF RInv, RegistryTypeOK

\* The one step that clears a request: the caller owns the namespace.
LEMMA RequireNamespaceStep ==
  ASSUME RInv, NEW r \in Requests, NEW u \in Owners, NEW ns \in Namespaces,
         RequireNamespace(r, u, ns)
  PROVE  RInv'
<1>1. /\ UNCHANGED <<tables, req, readme, tx, created, reads>>
      /\ pc[r] = "idle" /\ cleared[r] = Absent
      /\ caller' = [caller EXCEPT ![r] = u]
  BY DEF RequireNamespace
<1>2. caller \in [Requests -> Owners \cup {Nobody}] /\ cleared \in [Requests -> Namespaces \cup {Absent}]
  BY DEF RInv, RegistryTypeOK
<1>3. namespaces' = namespaces /\ Grows
  BY <1>1, UnchangedGrows DEF tables
<1>4. req[r] = NoRequest
  BY <1>1 DEF RInv, PInv, RequestsOK, RequestOK, ReceivedOK
<1>5. CASE Owns(u, ns) /\ cleared' = [cleared EXCEPT ![r] = ns] /\ UNCHANGED <<pc, status>>
  <2> UNCHANGED vars
    BY <1>1, <1>5 DEF vars, tables
  <2>1. PInv'
    BY StutterStep DEF RInv
  <2>2. CallerOK(r)'
    BY <1>1, <1>2, <1>3, <1>4, <1>5 DEF CallerOK, Owns
  <2>3. \A q \in Requests \ {r} : CallerOK(q)'
    BY <1>1, <1>2, <1>3, <1>5, CallersKeep
  <2> QED
    BY <1>1, <1>2, <1>3, <1>5, <2>1, <2>2, <2>3, ServerStep
<1>6. CASE Answer(r, "403") /\ UNCHANGED cleared
  <2>1. PInv'
    BY <1>1, <1>6, EndStep DEF RInv, Statuses, AfterNamespace, AfterPlugin
  <2>2. \A q \in Requests \ {r} : CallerOK(q)'
    BY <1>1, <1>2, <1>3, <1>6, CallersKeep
  <2>3. CallerOK(r)'
    BY <1>1, <1>4, <1>6 DEF CallerOK
  <2> QED
    BY <1>1, <1>2, <1>3, <1>6, <2>1, <2>2, <2>3, ServerStep
<1> QED
  BY <1>5, <1>6 DEF RequireNamespace

LEMMA HandleStep ==
  ASSUME RInv, NEW r \in Requests, HandlePublish(r)
  PROVE  RInv'
<1>1. UNCHANGED <<tables, caller, cleared, reads>> /\ cleared[r] # Absent
  BY DEF HandlePublish, Malformed, Receive
<1>2. PInv' /\ Grows
  BY <1>1, MalformedStep, ReceiveStep, UnchangedGrows DEF RInv, HandlePublish
<1>3. \A q \in Requests \ {r} : CallerOK(q)'
  BY <1>1, <1>2, CallersKeep DEF HandlePublish, Malformed, Receive, RInv, PInv, TypeOK
<1>4. CallerOK(r)'
  <2>1. CallerOK(r)
    BY DEF RInv
  <2>2. CASE Malformed(r)
    BY <1>1, <1>2, <2>2, CallersKeep DEF Malformed
  <2>3. CASE \E sent \in Request : sent.namespace = cleared[r] /\ Receive(r, sent)
    BY <1>1, <2>1, <2>3 DEF Receive, CallerOK, RInv, PInv, TypeOK, tables
  <2> QED
    BY <2>2, <2>3 DEF HandlePublish
<1> QED
  BY <1>1, <1>2, <1>3, <1>4, ServerStep DEF RInv, RegistryTypeOK

LEMMA PublishStepKeeps ==
  ASSUME RInv, NEW r \in Requests, PublishStep(r)
  PROVE  RInv'
<1>1. UNCHANGED <<caller, cleared, reads>> /\ Next
  BY DEF PublishStep, Next
<1>2. UNCHANGED req
  BY DEF PublishStep, Work, Fail, Abort, Fetch, NamespaceGet, NamespaceCreate, PluginGet,
     PluginCreate, PluginUpdate, VersionGet, VersionCreate, VersionUpdate, Commit
<1>3. PInv' /\ Grows
  BY <1>1, NextSafe, NextGrows DEF RInv
<1>4. \A q \in Requests : CallerOK(q)'
  BY <1>1, <1>2, <1>3, CallersKeep
<1> QED
  BY <1>1, <1>3, <1>4, ServerStep DEF RInv, RegistryTypeOK

LEMMA RegistryCrashStep ==
  ASSUME RInv, RegistryCrash
  PROVE  RInv'
<1>1. /\ UNCHANGED <<tables, req, caller>>
      /\ cleared' = [r \in Requests |-> IF pc[r] = "idle" THEN Absent ELSE cleared[r]]
      /\ reads' = [d \in Readers |-> IF reads[d].step \in Busy THEN NoRead ELSE reads[d]]
  BY DEF RegistryCrash, Crash
<1>2. PInv' /\ Grows
  BY <1>1, CrashStep, UnchangedGrows DEF RInv, RegistryCrash
<1>3. RegistryTypeOK'
  BY <1>1, <1>2 DEF RInv, PInv, RegistryTypeOK
<1>4. ASSUME NEW r \in Requests
      PROVE  CallerOK(r)'
  <2>1. CASE pc[r] = "idle"
    BY <1>1, <2>1 DEF RInv, PInv, RequestsOK, RequestOK, ReceivedOK, CallerOK
  <2>2. CASE pc[r] # "idle"
    BY <1>1, <1>2, <2>2, CallersKeep
  <2> QED
    BY <2>1, <2>2
<1>5. ASSUME NEW d \in Readers
      PROVE  PageOK(d)' /\ WalkOK(d)'
  <2>1. CASE reads'[d] = NoRead
    BY <2>1 DEF NoRead, PageOK, WalkOK
  <2>2. CASE reads'[d] = reads[d]
    BY <1>1, <2>2 DEF RInv, PageOK, WalkOK, tables, Listed
  <2> QED
    BY <1>1, <2>1, <2>2
<1> QED
  BY <1>2, <1>3, <1>4, <1>5 DEF RInv

LEMMA RegistryStutter == ASSUME RInv, UNCHANGED registry PROVE RInv'
<1>1. UNCHANGED <<vars, tables, req, caller, cleared, reads>>
  BY DEF registry, vars, tables
<1>2. PInv' /\ Grows
  BY <1>1, StutterStep, UnchangedGrows DEF RInv
<1>3. \A r \in Requests : CallerOK(r)'
  BY <1>1, <1>2, CallersKeep
<1> QED
  BY <1>1, <1>2, <1>3, ServerStep DEF RInv, RegistryTypeOK

LEMMA RegistryInitSafe == RegistryInit => RInv
<1> SUFFICES ASSUME RegistryInit
             PROVE  RInv
  OBVIOUS
<1>1. PInv
  BY InitSafe DEF RegistryInit
<1>2. RegistryTypeOK
  BY <1>1 DEF PInv, RegistryInit, RegistryTypeOK
<1>3. \A r \in Requests : CallerOK(r)
  BY DEF RegistryInit, Init, CallerOK
<1>4. \A d \in Readers : PageOK(d) /\ WalkOK(d)
  BY DEF RegistryInit, NoRead, PageOK, WalkOK
<1> QED
  BY <1>1, <1>2, <1>3, <1>4 DEF RInv

LEMMA RegistryNextSafe ==
  ASSUME RInv, [RegistryNext]_registry
  PROVE  RInv'
BY RegisterStep, UnauthenticatedStep, RequireNamespaceStep, HandleStep, PublishStepKeeps,
   PageStep, WalkStep, RegistryCrashStep, RegistryStutter DEF RegistryNext

LEMMA RegistryInductive == RegistrySpec => []RInv
BY RegistryInitSafe, RegistryNextSafe, PTL DEF RegistrySpec

-----------------------------------------------------------------------------
\* The variables of the server keep their types, for every list asked for with
\* whatever limit and offset (internal/web/handlers.go:15).
THEOREM RegistryTypes == RegistrySpec => []RegistryTypeOK
<1>1. RInv => RegistryTypeOK
  BY DEF RInv
<1> QED
  BY <1>1, RegistryInductive, PTL

\* The owner is checked before the transaction and not again: every version in
\* the catalogue still comes from the owner of its namespace
\* (internal/middleware/auth.go:62).
THEOREM PublisherSafety == RegistrySpec => []OnlyOwnersPublish
<1>1. RInv => OnlyOwnersPublish
  <2> SUFFICES ASSUME RInv, NEW k \in VersionKeys, versions[k] # NoRow
               PROVE  \E r \in Requests :
                        /\ cleared[r] = k[1] /\ caller[r] = namespaces[k[1]]
                        /\ req[r] # NoRequest /\ VersionKey(r) = k
                        /\ req[r].digest = versions[k].digest
    BY DEF OnlyOwnersPublish
  <2>1. PICK r \in Requests : /\ req[r] \in Request /\ VersionKey(r) = k
                             /\ versions[k].digest = req[r].digest
    BY DEF RInv, PInv, CatalogOK, RowsRequested
  <2>2. CallerOK(r) /\ req[r] # NoRequest /\ k[1] = req[r].namespace
    BY <2>1, NoRequestIsNone DEF RInv, VersionKey
  <2> QED
    BY <2>1, <2>2 DEF CallerOK
<1> QED
  BY <1>1, RegistryInductive, PTL

\* A namespace never changes its owner, and none becomes unowned through
\* publications (internal/service/service.go:261).
THEOREM NamespaceSafety == RegistrySpec => NamespacesKeepOwner
<1>1. RInv /\ [RegistryNext]_registry =>
        [\A ns \in Namespaces :
           /\ namespaces[ns] # Absent => namespaces'[ns] = namespaces[ns]
           /\ namespaces[ns] = Absent => namespaces'[ns] # Unowned]_registry
  <2> SUFFICES ASSUME RInv, RegistryNext, NEW ns \in Namespaces
               PROVE  /\ namespaces[ns] # Absent => namespaces'[ns] = namespaces[ns]
                      /\ namespaces[ns] = Absent => namespaces'[ns] # Unowned
    OBVIOUS
  <2>1. CASE namespaces' = namespaces
    BY <2>1, SentinelAssumption
  <2>2. ASSUME NEW u \in Owners, RegisterUser(u)
        PROVE  /\ namespaces[ns] # Absent => namespaces'[ns] = namespaces[ns]
               /\ namespaces[ns] = Absent => namespaces'[ns] # Unowned
    BY <2>2, HomeAssumption, SentinelAssumption DEF RegisterUser, RInv, PInv, TypeOK
  <2>3. ASSUME NEW r \in Requests, PublishStep(r), tables' # tables
        PROVE  namespaces' = namespaces
    <3>1. PICK q \in Requests : Commit(q)
      BY <2>3, CatalogStep DEF PublishStep, Next, RInv
    <3>2. req[q] # NoRequest /\ req[q].namespace \in Namespaces
      BY <3>1, CommitFacts, Rows
         DEF RInv, Request, AfterFetch, AfterNamespace, AfterPlugin
    <3>3. namespaces[req[q].namespace] # Absent
      BY <3>2, SentinelAssumption DEF RInv, CallerOK
    <3> QED
      BY <3>1, <3>3, CommitFacts DEF RInv, PInv, TypeOK
  <2>4. ASSUME ~\E u \in Owners : RegisterUser(u)
        PROVE  \/ UNCHANGED tables
               \/ \E r \in Requests : PublishStep(r)
    BY <2>4 DEF RegistryNext, Unauthenticated, RequireNamespace, HandlePublish, Malformed,
       Receive, Read, ReadArrives, ReadNamespace, ReadPlugin, ListVersions, ReadVersion,
       ReadGoes, Walk, WalkArrives, ListNamespace, CountPlugins, ListPlugins, LoadMore,
       RegistryCrash, Crash, vars, tables
  <2> QED
    BY <2>1, <2>2, <2>3, <2>4 DEF tables
<1> QED
  BY <1>1, RegistryInductive, PTL DEF RegistrySpec, NamespacesKeepOwner

\* The page of a plugin never fails for want of versions
\* (internal/web/handlers.go:88).
THEOREM DetailSafety == RegistrySpec => []DetailPageNeverFails
<1>1. RInv => DetailPageNeverFails
  <2> SUFFICES ASSUME RInv, NEW d \in Readers
               PROVE  reads[d].step # "500"
    BY DEF DetailPageNeverFails
  <2>1. CASE reads[d] \in PageReads
    BY <2>1 DEF RInv, PageOK, PageReads
  <2>2. CASE reads[d] \in WalkReads
    BY <2>2 DEF WalkReads
  <2>3. CASE reads[d] = NoRead
    BY <2>3 DEF NoRead
  <2> QED
    BY <2>1, <2>2, <2>3, ReadTypes DEF RInv
<1> QED
  BY <1>1, RegistryInductive, PTL

\* A version is found after its publication was answered
\* (internal/service/service.go:328).
THEOREM FoundSafety == RegistrySpec => []PublishedVersionIsFound
<1>1. RInv => PublishedVersionIsFound
  BY DEF RInv, PublishedVersionIsFound, PageOK
<1> QED
  BY <1>1, RegistryInductive, PTL

\* Publications do not all wait on each other either with the middleware in
\* front and registrations and readers beside them (internal/service/service.go:249).
THEOREM ServerNoDeadlock == RegistrySpec => []SomeoneProceeds
<1>1. RInv => SomeoneProceeds
  BY FurthestProceeds DEF RInv
<1> QED
  BY <1>1, RegistryInductive, PTL

\* A walk through a list shows what its last page says there is, for lists of
\* any length (pkg/store/store.go:291).
THEOREM WalkSafety == RegistrySpec => []WalkShowsTotal
<1>1. RInv => WalkShowsTotal
  <2> SUFFICES ASSUME RInv, NEW d \in Readers, reads[d].page = "walk",
                      reads[d].step = "200", ~HasMore(reads[d])
               PROVE  reads[d].from + reads[d].cards >= reads[d].total
    BY DEF WalkShowsTotal
  <2>1. /\ reads[d].from \in Nat /\ reads[d].cards \in Nat /\ reads[d].total \in Nat
        /\ reads[d].offset \in Nat /\ reads[d].limit \in Nat
    BY ReadTypes, PagingAssumption DEF WalkReads
  <2> QED
    BY <2>1 DEF RInv, WalkOK, HasMore
<1> QED
  BY <1>1, RegistryInductive, PTL
=============================================================================
