--------------------------- MODULE Publish_proofs ---------------------------
(***************************************************************************)
(* Publish for every set of requests, names, versions and images, with     *)
(* failures and crashes.  The invariant says what a request knows at each  *)
(* step although it holds no lock on what it has looked up: rows are never *)
(* deleted, and what it has written nobody else can write until it ends.   *)
(***************************************************************************)
EXTENDS Publish, TLAPS

AfterPlugin == {"versionGet", "versionCreate", "versionUpdate", "commit"}
AfterNamespace == {"pluginGet", "pluginCreate", "pluginUpdate"} \cup AfterPlugin
AfterFetch == {"namespaceGet", "namespaceCreate"} \cup AfterNamespace

\* A request is what was received, once it is.
ReceivedOK(r) ==
  /\ pc[r] = "idle" => req[r] = NoRequest
  /\ InFlight(r) \/ status[r] = "201" => req[r] \in Request
  /\ status[r] = "201" => pc[r] = "done"

\* Past Fetch the image is valid and the README is its own, or was lost.
FetchedOK(r) ==
  pc[r] \in AfterFetch =>
    /\ ManifestOf(r) # Broken /\ Valid(r)
    /\ readme[r] \in {ManifestOf(r).readme} \cup (IF Faults THEN {Blank} ELSE {})

\* What a transaction has written so far.
WrittenOK(r) ==
  /\ tx[r].namespace =>
       pc[r] \in AfterNamespace /\ namespaces[req[r].namespace] = Absent
  /\ tx[r].plugin # NoRow =>
       pc[r] \in AfterPlugin /\ tx[r].plugin = ManifestOf(r).description
  /\ pc[r] = "commit" => tx[r].version = NewVersion(r)
  /\ pc[r] # "commit" => tx[r].version = NoRow

\* The rows above the one a request is about to write are there, or written.
FoundOK(r) ==
  /\ pc[r] \in AfterNamespace =>
       tx[r].namespace \/ namespaces[req[r].namespace] # Absent
  /\ pc[r] \in AfterPlugin => tx[r].plugin # NoRow \/ plugins[PluginKey(r)] # NoRow

\* Created says that the version was not there; it is after a 201.
CreatedOK(r) ==
  /\ created[r] => pc[r] \in {"commit", "done"}
  /\ created[r] /\ pc[r] = "commit" => versions[VersionKey(r)] = NoRow
  /\ status[r] = "201" => versions[VersionKey(r)] # NoRow

RequestOK(r) ==
  ReceivedOK(r) /\ FetchedOK(r) /\ WrittenOK(r) /\ FoundOK(r) /\ CreatedOK(r)

\* No two transactions have written the same namespace or the same version.
Apart(r, q) ==
  /\ tx[r].namespace /\ tx[q].namespace => req[r].namespace # req[q].namespace
  /\ tx[r].version # NoRow /\ tx[q].version # NoRow => VersionKey(r) # VersionKey(q)

LocksApart == \A r, q \in Requests : r # q => Apart(r, q)

\* Every version row goes back to a request for it.
RowsRequested ==
  \A k \in VersionKeys : versions[k] # NoRow =>
    \E q \in Requests : /\ req[q] \in Request /\ VersionKey(q) = k
                        /\ versions[k].digest = req[q].digest

\* No version row without its plugin.
VersionHasPlugin ==
  \A k \in VersionKeys : versions[k] # NoRow => plugins[<<k[1], k[2]>>] # NoRow

RequestsOK == \A r \in Requests : RequestOK(r)
CatalogOK == RowsRequested /\ VersionHasPlugin /\ PluginHasVersion /\ RowsMatchImage
PInv == TypeOK /\ RequestsOK /\ LocksApart /\ CatalogOK /\ CreatedOnce

-----------------------------------------------------------------------------
\* Facts.

LEMMA NoRequestIsNone == NoRequest \notin Request
<1> SUFFICES ASSUME NoRequest \in Request
             PROVE  FALSE
  OBVIOUS
<1>1. DOMAIN NoRequest = {"namespace"}
  BY DEF NoRequest
<1>2. "name" \in DOMAIN NoRequest
  BY DEF Request
<1> QED
  BY <1>1, <1>2

\* What a request with a valid image writes has the type of a row.
LEMMA Rows ==
  ASSUME PInv, NEW r \in Requests, pc[r] \in AfterFetch
  PROVE  /\ req[r] \in Request /\ req[r] # NoRequest
         /\ ManifestOf(r) \in Image
         /\ ManifestOf(r).description \in Descriptions
         /\ ManifestOf(r).description # NoRow
         /\ PluginKey(r) \in PluginKeys /\ VersionKey(r) \in VersionKeys
         /\ NewVersion(r) \in VersionRow /\ NewVersion(r) # NoRow
<1>1. ReceivedOK(r) /\ FetchedOK(r) /\ readme[r] \in Digests \cup {Blank}
  BY DEF PInv, TypeOK, RequestsOK, RequestOK
<1>2. req[r] \in Request /\ req[r] # NoRequest
  BY <1>1, NoRequestIsNone
     DEF ReceivedOK, InFlight, AfterFetch, AfterNamespace, AfterPlugin
<1>3. ManifestOf(r) \in Image
  BY <1>1, <1>2, ContentAssumption DEF FetchedOK, ManifestOf, Request
<1>4. ManifestOf(r).description \in Descriptions
  BY <1>3 DEF Image
<1>5. PluginKey(r) \in PluginKeys /\ VersionKey(r) \in VersionKeys
  BY <1>2 DEF PluginKey, VersionKey, PluginKeys, VersionKeys, Request
<1>6. NewVersion(r) \in VersionRow
  BY <1>1, <1>2, <1>4 DEF NewVersion, VersionRow, Request
<1> QED
  BY <1>2, <1>3, <1>4, <1>5, <1>6, SentinelAssumption

\* The state of a request that a step of another one leaves alone.
Same(q) ==
  /\ pc'[q] = pc[q] /\ req'[q] = req[q] /\ readme'[q] = readme[q]
  /\ tx'[q] = tx[q] /\ created'[q] = created[q] /\ status'[q] = status[q]

LEMMA Untouched ==
  ASSUME NEW q \in Requests, RequestOK(q), Same(q), UNCHANGED tables
  PROVE  RequestOK(q)'
<1>1. /\ namespaces' = namespaces /\ plugins' = plugins /\ versions' = versions
  BY DEF tables
<1>2. ReceivedOK(q)' /\ FetchedOK(q)'
  BY DEF RequestOK, Same, ReceivedOK, FetchedOK, InFlight, ManifestOf, Valid
<1>3. WrittenOK(q)'
  BY <1>1 DEF RequestOK, Same, WrittenOK, ManifestOf, NewVersion
<1>4. FoundOK(q)' /\ CreatedOK(q)'
  BY <1>1 DEF RequestOK, Same, FoundOK, CreatedOK, PluginKey, VersionKey
<1> QED
  BY <1>2, <1>3, <1>4 DEF RequestOK

\* Transactions stay apart as long as one writes nothing new.
LEMMA StillApart ==
  ASSUME PInv, NEW r \in Requests, NEW q \in Requests, r # q,
         tx'[r] \in {tx[r], EmptyTx}, tx'[q] \in {tx[q], EmptyTx},
         pc[r] # "idle" => req'[r] = req[r], pc[q] # "idle" => req'[q] = req[q]
  PROVE  Apart(r, q)'
<1>1. Apart(r, q)
  BY DEF PInv, LocksApart
<1>2. WrittenOK(r) /\ WrittenOK(q)
  BY DEF PInv, RequestsOK, RequestOK
<1>3. ~EmptyTx.namespace /\ EmptyTx.version = NoRow
  BY DEF EmptyTx
<1>4. \A x \in {r, q} :
        /\ tx'[x].namespace => tx[x].namespace /\ req'[x] = req[x]
        /\ tx'[x].version # NoRow => tx[x].version # NoRow /\ req'[x] = req[x]
  BY <1>2, <1>3 DEF WrittenOK, AfterNamespace, AfterPlugin
<1> QED
  BY <1>1, <1>4 DEF Apart, VersionKey

\* A step of request r that changes no committed row.
LEMMA QuietStep ==
  ASSUME PInv, NEW r \in Requests, UNCHANGED tables,
         \A q \in Requests \ {r} : Same(q), TypeOK', RequestOK(r)',
         pc[r] # "idle" => req'[r] = req[r], status'[r] # "201",
         \A q \in Requests \ {r} : Apart(r, q)'
  PROVE  PInv'
<1>1. RequestsOK'
  BY Untouched DEF PInv, RequestsOK
<1>2. LocksApart'
  <2> SUFFICES ASSUME NEW q \in Requests, NEW p \in Requests, q # p
               PROVE  Apart(q, p)'
    BY DEF LocksApart
  <2>1. CASE q = r
    BY <2>1
  <2>2. CASE p = r
    BY <2>2 DEF Apart
  <2>3. CASE q # r /\ p # r
    BY <2>3, StillApart DEF Same
  <2> QED
    BY <2>1, <2>2, <2>3
<1>3. PluginHasVersion' /\ VersionHasPlugin' /\ RowsMatchImage'
  BY DEF PInv, CatalogOK, PluginHasVersion, VersionHasPlugin, RowsMatchImage, tables
<1>4. ReceivedOK(r)
  BY DEF PInv, RequestsOK, RequestOK
<1>5. \A q \in Requests : req[q] \in Request => req'[q] = req[q]
  BY <1>4, NoRequestIsNone DEF ReceivedOK, Same
<1>6. RowsRequested'
  BY <1>5 DEF PInv, CatalogOK, RowsRequested, VersionKey, tables
<1>7. \A q \in Requests : status'[q] = "201" => Same(q)
  OBVIOUS
<1>8. CreatedOnce'
  BY <1>7 DEF PInv, CreatedOnce, Same, VersionKey
<1> QED
  BY <1>1, <1>2, <1>3, <1>6, <1>8 DEF PInv, CatalogOK

-----------------------------------------------------------------------------
\* One lemma per kind of step that leaves the catalogue as it is.

\* An answer other than 201: what was written is released, or nothing was.
LEMMA EndStep ==
  ASSUME PInv, NEW r \in Requests, NEW code \in Statuses \ {"201"}, Answer(r, code),
         UNCHANGED <<tables, req, readme, created>>,
         \/ tx' = Release(r)
         \/ tx' = tx /\ pc[r] \notin AfterNamespace
  PROVE  PInv'
<1>1. \A q \in Requests \ {r} : Same(q)
  BY DEF PInv, TypeOK, Answer, Release, Same
<1>2. pc'[r] = "done" /\ status'[r] = code /\ req' = req /\ created' = created
  BY DEF PInv, TypeOK, Answer
<1>3. EmptyTx \in [namespace : BOOLEAN, plugin : Descriptions \cup {NoRow},
                   version : VersionRow \cup {NoRow}]
  BY DEF EmptyTx
<1>4. TypeOK'
  BY <1>3 DEF PInv, TypeOK, Answer, Release, Steps, tables
<1>5. tx'[r] \in {tx[r], EmptyTx}
  BY DEF PInv, TypeOK, Release
<1>6. ~tx'[r].namespace /\ tx'[r].plugin = NoRow /\ tx'[r].version = NoRow
  <2>1. CASE tx' = Release(r)
    BY <2>1 DEF PInv, TypeOK, Release, EmptyTx
  <2>2. CASE tx' = tx /\ pc[r] \notin AfterNamespace
    BY <2>2 DEF PInv, RequestsOK, RequestOK, WrittenOK, AfterNamespace, AfterPlugin
  <2> QED
    BY <2>1, <2>2
<1>7. RequestOK(r)'
  BY <1>2, <1>6 DEF RequestOK, ReceivedOK, InFlight, FetchedOK, WrittenOK, FoundOK,
     CreatedOK, AfterFetch, AfterNamespace, AfterPlugin
<1>8. \A q \in Requests \ {r} : Apart(r, q)'
  BY <1>1, <1>2, <1>5, StillApart DEF Same
<1> QED
  BY <1>1, <1>2, <1>4, <1>7, <1>8, QuietStep

\* A request goes on without writing.
LEMMA GoStep ==
  ASSUME PInv, NEW r \in Requests, NEW step, pc[r] # "done", Goto(r, step),
         UNCHANGED <<tables, tx>>, pc[r] # "idle" => req' = req, TypeOK', RequestOK(r)',
         \A q \in Requests \ {r} : Same(q)
  PROVE  PInv'
<1>1. pc'[r] = step /\ status' = status
  BY DEF PInv, TypeOK, Goto
<1>2. status'[r] # "201"
  BY <1>1 DEF PInv, RequestsOK, RequestOK, ReceivedOK
<1>3. \A q \in Requests \ {r} : Apart(r, q)'
  BY StillApart DEF Same
<1> QED
  BY <1>2, <1>3, QuietStep

LEMMA ReceiveStep ==
  ASSUME PInv, NEW r \in Requests, NEW sent \in Request, Receive(r, sent)
  PROVE  PInv'
<1>1. /\ pc[r] = "idle" /\ pc'[r] = "fetch" /\ req'[r] = sent
      /\ status' = status /\ created' = created /\ tx' = tx
      /\ \A q \in Requests \ {r} : Same(q)
  BY DEF PInv, TypeOK, Receive, Goto, Same
<1>2. TypeOK'
  BY DEF PInv, TypeOK, Receive, Goto, Steps, tables
<1>3. RequestOK(r)
  BY DEF PInv, RequestsOK
<1>4. RequestOK(r)'
  BY <1>1, <1>3 DEF RequestOK, ReceivedOK, InFlight, FetchedOK, WrittenOK, FoundOK,
     CreatedOK, AfterFetch, AfterNamespace, AfterPlugin
<1> QED
  BY <1>1, <1>2, <1>4, GoStep DEF Receive

LEMMA FetchStep ==
  ASSUME PInv, NEW r \in Requests, Fetch(r)
  PROVE  PInv'
<1>1. CASE \E code \in {"400", "500"} : Answer(r, code) /\ UNCHANGED readme
  BY <1>1, EndStep DEF Fetch, Statuses, AfterNamespace, AfterPlugin
<1>2. CASE /\ ManifestOf(r) # Broken /\ Valid(r) /\ Goto(r, "namespaceGet")
           /\ \E text \in {ManifestOf(r).readme} \cup (IF Faults THEN {Blank} ELSE {}) :
                readme' = [readme EXCEPT ![r] = text]
  <2>1. /\ pc[r] = "fetch" /\ pc'[r] = "namespaceGet" /\ req' = req
        /\ status' = status /\ created' = created /\ tx' = tx
        /\ \A q \in Requests \ {r} : Same(q)
    BY <1>2 DEF PInv, TypeOK, Fetch, Goto, Same
  <2>2. RequestOK(r) /\ req[r] \in Request
    BY <2>1 DEF PInv, RequestsOK, RequestOK, ReceivedOK, InFlight
  <2>3. ManifestOf(r).readme \in Digests \cup {Blank}
    BY <1>2, <2>2, ContentAssumption DEF ManifestOf, Request, Image
  <2>4. TypeOK'
    BY <1>2, <2>3 DEF PInv, TypeOK, Fetch, Goto, Steps, tables
  <2>5. readme'[r] \in {ManifestOf(r).readme} \cup (IF Faults THEN {Blank} ELSE {})
    BY <1>2 DEF PInv, TypeOK
  <2>6. RequestOK(r)'
    BY <1>2, <2>1, <2>2, <2>5 DEF RequestOK, ReceivedOK, InFlight, FetchedOK, WrittenOK,
       FoundOK, CreatedOK, ManifestOf, Valid, AfterFetch, AfterNamespace, AfterPlugin
  <2> QED
    BY <1>2, <2>1, <2>4, <2>6, GoStep DEF Fetch
<1> QED
  BY <1>1, <1>2 DEF Fetch

\* A lookup: what it has found stays there.
LEMMA LookupStep ==
  ASSUME PInv, NEW r \in Requests, NamespaceGet(r) \/ PluginGet(r) \/ VersionGet(r)
  PROVE  PInv'
<1> PICK step \in Steps : Goto(r, step) /\ pc[r] \in AfterFetch \ {"commit"}
  BY DEF NamespaceGet, PluginGet, VersionGet, Steps, AfterFetch, AfterNamespace, AfterPlugin
<1>1. UNCHANGED <<tables, req, readme, tx, created, status>> /\ pc'[r] = step
  BY DEF PInv, TypeOK, NamespaceGet, PluginGet, VersionGet, Goto
<1>2. /\ namespaces' = namespaces /\ plugins' = plugins /\ versions' = versions
  BY <1>1 DEF tables
<1>3. TypeOK'
  BY <1>1, <1>2 DEF PInv, TypeOK, Goto
<1>4. \A q \in Requests \ {r} : Same(q)
  BY <1>1 DEF PInv, TypeOK, Goto, Same
<1>5. RequestOK(r)
  BY DEF PInv, RequestsOK
<1>6. ReceivedOK(r)' /\ FetchedOK(r)' /\ CreatedOK(r)'
  BY <1>1, <1>2, <1>5 DEF RequestOK, ReceivedOK, InFlight, FetchedOK, CreatedOK, ManifestOf, Valid,
     NamespaceGet, PluginGet, VersionGet, Goto,
     AfterFetch, AfterNamespace, AfterPlugin, VersionKey
<1>7. WrittenOK(r)' /\ FoundOK(r)'
  BY <1>1, <1>2, <1>5, SentinelAssumption
     DEF PInv, TypeOK, RequestOK, WrittenOK, FoundOK, ManifestOf,
     NamespaceGet, PluginGet, VersionGet, Goto,
     AfterFetch, AfterNamespace, AfterPlugin, PluginKey
<1> QED
  BY <1>1, <1>3, <1>4, <1>6, <1>7, GoStep
     DEF RequestOK, AfterFetch, AfterNamespace, AfterPlugin

\* A rollback: of a unique violation, a failed call, or a malformed request.
LEMMA AbortStep ==
  ASSUME PInv, NEW r \in Requests, Abort(r)
  PROVE  PInv'
BY EndStep DEF Abort, Statuses

LEMMA MalformedStep ==
  ASSUME PInv, NEW r \in Requests, Malformed(r)
  PROVE  PInv'
<1>1. pc[r] \notin AfterNamespace
  BY DEF Malformed, AfterNamespace, AfterPlugin
<1> QED
  BY <1>1, EndStep DEF Malformed, Statuses

LEMMA NamespaceCreateStep ==
  ASSUME PInv, NEW r \in Requests, NamespaceCreate(r)
  PROVE  PInv'
<1>1. CASE Abort(r)
  BY <1>1, AbortStep
<1>2. CASE /\ namespaces[req[r].namespace] = Absent
           /\ tx' = [tx EXCEPT ![r].namespace = TRUE]
           /\ Goto(r, "pluginGet") /\ UNCHANGED <<tables, req, readme, created>>
  <2>1. /\ pc[r] = "namespaceCreate" /\ pc'[r] = "pluginGet"
        /\ UNCHANGED <<namespaces, plugins, versions, req, readme, created, status>>
        /\ tx'[r].namespace /\ tx'[r].plugin = tx[r].plugin /\ tx'[r].version = tx[r].version
        /\ \A q \in Requests \ {r} : Same(q)
    BY <1>2 DEF PInv, TypeOK, NamespaceCreate, Goto, Same, tables
  <2>2. RequestOK(r)
    BY DEF PInv, RequestsOK
  <2>3. TypeOK'
    BY <1>2, <2>1 DEF PInv, TypeOK, Goto, Steps
  <2>4. ReceivedOK(r)' /\ FetchedOK(r)' /\ CreatedOK(r)'
    BY <2>1, <2>2 DEF RequestOK, ReceivedOK, InFlight, FetchedOK, CreatedOK, ManifestOf, Valid,
       AfterFetch, AfterNamespace, AfterPlugin, VersionKey
  <2>5. WrittenOK(r)' /\ FoundOK(r)'
    BY <1>2, <2>1, <2>2 DEF RequestOK, WrittenOK, FoundOK, AfterNamespace, AfterPlugin
  <2>6. \A q \in Requests \ {r} : Apart(r, q)'
    BY <2>1, <2>2 DEF NamespaceCreate, NamespaceLocked, Same, Apart, RequestOK, WrittenOK
  <2>7. status'[r] # "201"
    BY <2>1, <2>2 DEF RequestOK, ReceivedOK
  <2> QED
    BY <2>1, <2>3, <2>4, <2>5, <2>6, <2>7, QuietStep DEF RequestOK, tables
<1> QED
  BY <1>1, <1>2 DEF NamespaceCreate

LEMMA WritePluginStep ==
  ASSUME PInv, NEW r \in Requests, WritePlugin(r), pc[r] \in {"pluginCreate", "pluginUpdate"},
         UNCHANGED <<tables, req, readme, created>>
  PROVE  PInv'
<1>1. /\ pc'[r] = "versionGet" /\ pc[r] \in AfterFetch
      /\ UNCHANGED <<namespaces, plugins, versions, req, readme, created, status>>
      /\ tx'[r].namespace = tx[r].namespace /\ tx'[r].version = tx[r].version
      /\ tx'[r].plugin = ManifestOf(r).description
      /\ \A q \in Requests \ {r} : Same(q)
  BY DEF PInv, TypeOK, WritePlugin, Goto, Same, tables, AfterFetch, AfterNamespace
<1>2. RequestOK(r) /\ ManifestOf(r).description \in Descriptions \ {NoRow}
  BY <1>1, Rows DEF PInv, RequestsOK
<1>3. TypeOK'
  BY <1>1, <1>2 DEF PInv, TypeOK, WritePlugin, Goto, Steps
<1>4. ReceivedOK(r)' /\ FetchedOK(r)' /\ CreatedOK(r)'
  BY <1>1, <1>2 DEF RequestOK, ReceivedOK, InFlight, FetchedOK, CreatedOK, ManifestOf, Valid,
     AfterFetch, AfterNamespace, AfterPlugin, VersionKey
<1>5. WrittenOK(r)' /\ FoundOK(r)'
  BY <1>1, <1>2 DEF RequestOK, WrittenOK, FoundOK, ManifestOf, AfterNamespace, AfterPlugin
<1>6. \A q \in Requests \ {r} : Apart(r, q)'
  BY <1>1, <1>2 DEF PInv, LocksApart, Apart, Same, VersionKey
<1>7. status'[r] # "201"
  BY <1>1, <1>2 DEF RequestOK, ReceivedOK
<1> QED
  BY <1>1, <1>3, <1>4, <1>5, <1>6, <1>7, QuietStep DEF RequestOK, tables

LEMMA PluginStep ==
  ASSUME PInv, NEW r \in Requests, PluginCreate(r) \/ PluginUpdate(r)
  PROVE  PInv'
BY AbortStep, WritePluginStep DEF PluginCreate, PluginUpdate

LEMMA WriteVersionStep ==
  ASSUME PInv, NEW r \in Requests, ~VersionLocked(r), WriteVersion(r),
         \/ pc[r] = "versionUpdate" /\ created' = created
         \/ /\ pc[r] = "versionCreate" /\ versions[VersionKey(r)] = NoRow
            /\ created' = [created EXCEPT ![r] = TRUE],
         UNCHANGED <<tables, req, readme>>
  PROVE  PInv'
<1>1. /\ pc'[r] = "commit" /\ pc[r] \in AfterPlugin /\ pc[r] # "commit"
      /\ UNCHANGED <<namespaces, plugins, versions, req, readme, status>>
      /\ tx'[r].namespace = tx[r].namespace /\ tx'[r].plugin = tx[r].plugin
      /\ tx'[r].version = NewVersion(r)
      /\ \A q \in Requests \ {r} : Same(q)
  BY DEF PInv, TypeOK, WriteVersion, Goto, Same, tables, AfterPlugin
<1>2. RequestOK(r)
  BY DEF PInv, RequestsOK
<1>3. NewVersion(r) \in VersionRow
  BY <1>1, Rows DEF AfterFetch, AfterNamespace
<1>4. TypeOK'
  BY <1>1, <1>3 DEF PInv, TypeOK, WriteVersion, Goto, Steps
<1>5. ReceivedOK(r)' /\ FetchedOK(r)'
  BY <1>1, <1>2 DEF RequestOK, ReceivedOK, InFlight, FetchedOK, ManifestOf, Valid,
     AfterFetch, AfterNamespace, AfterPlugin
<1>6. CreatedOK(r)' /\ status'[r] # "201"
  BY <1>1, <1>2 DEF PInv, TypeOK, RequestOK, ReceivedOK, CreatedOK, VersionKey, AfterPlugin
<1>7. WrittenOK(r)' /\ FoundOK(r)'
  BY <1>1, <1>2 DEF RequestOK, WrittenOK, FoundOK, NewVersion, ManifestOf, PluginKey,
     AfterNamespace, AfterPlugin
<1>8. \A q \in Requests \ {r} : Apart(r, q)'
  BY <1>1, <1>2 DEF PInv, LocksApart, VersionLocked, Apart, Same, VersionKey
<1> QED
  BY <1>1, <1>4, <1>5, <1>6, <1>7, <1>8, QuietStep DEF RequestOK, tables, AfterPlugin

LEMMA VersionStep ==
  ASSUME PInv, NEW r \in Requests, VersionCreate(r) \/ VersionUpdate(r)
  PROVE  PInv'
BY AbortStep, WriteVersionStep DEF VersionCreate, VersionUpdate, VersionTaken

LEMMA CrashStep ==
  ASSUME PInv, Crash
  PROVE  PInv'
<1>1. /\ UNCHANGED <<namespaces, plugins, versions, req, readme, created>>
      /\ \A r \in Requests :
           /\ tx'[r] = EmptyTx
           /\ IF InFlight(r) THEN pc'[r] = "done" /\ status'[r] = "aborted"
                             ELSE pc'[r] = pc[r] /\ status'[r] = status[r]
  BY DEF PInv, TypeOK, Crash, tables
<1>2. TypeOK'
  BY DEF PInv, TypeOK, Crash, tables, Steps, Statuses, EmptyTx
<1>3. ASSUME NEW r \in Requests
      PROVE  RequestOK(r)'
  BY <1>1 DEF PInv, RequestsOK, RequestOK, ReceivedOK, InFlight, FetchedOK, WrittenOK, FoundOK,
     CreatedOK, EmptyTx, VersionKey, AfterFetch, AfterNamespace, AfterPlugin
<1>4. LocksApart'
  BY <1>1 DEF LocksApart, Apart, EmptyTx
<1>5. CatalogOK'
  BY <1>1 DEF PInv, CatalogOK, RowsRequested, PluginHasVersion, VersionHasPlugin,
     RowsMatchImage, VersionKey
<1>6. CreatedOnce'
  BY <1>1 DEF PInv, CreatedOnce, VersionKey
<1> QED
  BY <1>2, <1>3, <1>4, <1>5, <1>6 DEF PInv, RequestsOK

-----------------------------------------------------------------------------
\* The commit, seen from the request that makes it.
LEMMA CommitFacts ==
  ASSUME PInv, NEW r \in Requests, Commit(r)
  PROVE  /\ pc[r] = "commit" /\ pc'[r] = "done" /\ tx'[r] = EmptyTx
         /\ UNCHANGED <<req, readme, created>>
         /\ status'[r] \in {"201", "500"}
         /\ \A q \in Requests \ {r} : Same(q)
         /\ ManifestOf(r) # Broken /\ Valid(r)
         /\ readme[r] \in {ManifestOf(r).readme} \cup (IF Faults THEN {Blank} ELSE {})
         /\ namespaces' = [namespaces EXCEPT ![req[r].namespace] =
                              IF @ = Absent THEN Unowned ELSE @]
         /\ plugins' \in {plugins, [plugins EXCEPT ![PluginKey(r)] =
                                     ManifestOf(r).description]}
         /\ plugins'[PluginKey(r)] # NoRow
         /\ versions' = [versions EXCEPT ![VersionKey(r)] = NewVersion(r)]
<1>1. /\ pc[r] = "commit" /\ pc'[r] = "done" /\ tx'[r] = EmptyTx
      /\ UNCHANGED <<req, readme, created>>
      /\ status'[r] \in {"201", "500"}
      /\ \A q \in Requests \ {r} : Same(q)
  BY DEF PInv, TypeOK, Commit, Answer, Same
<1>2. RequestOK(r)
  BY DEF PInv, RequestsOK
<1>3. FetchedOK(r) /\ pc[r] \in AfterFetch /\ pc[r] \in AfterNamespace /\ pc[r] \in AfterPlugin
  BY <1>1, <1>2 DEF RequestOK, AfterFetch, AfterNamespace, AfterPlugin
<1>4. namespaces' = [namespaces EXCEPT ![req[r].namespace] =
                       IF @ = Absent THEN Unowned ELSE @]
  <2>1. CASE tx[r].namespace
    BY <1>2, <2>1 DEF Commit, Written, RequestOK, WrittenOK
  <2>2. CASE ~tx[r].namespace
    BY <1>2, <1>3, <2>2 DEF PInv, TypeOK, Commit, Written, RequestOK, FoundOK
  <2> QED
    BY <2>1, <2>2
<1>5. /\ plugins' \in {plugins, [plugins EXCEPT ![PluginKey(r)] = ManifestOf(r).description]}
      /\ plugins'[PluginKey(r)] # NoRow
  <2>1. PluginKey(r) \in PluginKeys /\ ManifestOf(r).description # NoRow
    BY <1>3, Rows
  <2> QED
    BY <1>2, <1>3, <2>1 DEF PInv, TypeOK, Commit, Written, RequestOK, WrittenOK, FoundOK
<1>6. versions' = [versions EXCEPT ![VersionKey(r)] = NewVersion(r)]
  BY <1>1, <1>2, <1>3, Rows DEF Commit, Written, CommitsVersion, RequestOK, WrittenOK
<1> QED
  BY <1>1, <1>3, <1>4, <1>5, <1>6 DEF FetchedOK

\* Seen from the others: no row they have found is gone, and what they have
\* locked is as it was.
LEMMA CommitOthers ==
  ASSUME PInv, NEW r \in Requests, Commit(r), NEW q \in Requests \ {r}
  PROVE  RequestOK(q)'
<1>1. RequestOK(q) /\ RequestOK(r) /\ Apart(r, q) /\ Same(q)
  BY CommitFacts DEF PInv, RequestsOK, LocksApart
<1>2. ReceivedOK(q)' /\ FetchedOK(q)'
  BY <1>1 DEF RequestOK, Same, ReceivedOK, FetchedOK, InFlight, ManifestOf, Valid
<1>3. \A ns \in Namespaces :
        /\ namespaces[ns] # Absent => namespaces'[ns] # Absent
        /\ tx[q].namespace /\ req[q].namespace = ns => namespaces'[ns] = namespaces[ns]
  BY <1>1, SentinelAssumption
     DEF PInv, TypeOK, Commit, Written, Apart, RequestOK, WrittenOK
<1>4. \A k \in PluginKeys : plugins[k] # NoRow => plugins'[k] # NoRow
  BY CommitFacts DEF PInv, TypeOK
<1>5. \A k \in VersionKeys :
        /\ versions[k] # NoRow => versions'[k] # NoRow
        /\ tx[q].version # NoRow /\ VersionKey(q) = k => versions'[k] = versions[k]
  <2>1. tx[r].version = NewVersion(r) /\ NewVersion(r) # NoRow
    BY <1>1, CommitFacts, Rows
       DEF RequestOK, WrittenOK, AfterFetch, AfterNamespace, AfterPlugin
  <2> QED
    BY <1>1, <2>1, CommitFacts DEF PInv, TypeOK, Apart
<1>6. pc[q] \in AfterFetch \/ status[q] = "201" =>
        req[q].namespace \in Namespaces /\ PluginKey(q) \in PluginKeys
                                        /\ VersionKey(q) \in VersionKeys
  BY <1>1 DEF RequestOK, ReceivedOK, InFlight, Request, PluginKey, PluginKeys, VersionKey,
     VersionKeys, AfterFetch, AfterNamespace, AfterPlugin
<1>7. WrittenOK(q)'
  BY <1>1, <1>3, <1>6
     DEF RequestOK, Same, WrittenOK, ManifestOf, NewVersion, AfterFetch
<1>8. FoundOK(q)'
  BY <1>1, <1>3, <1>4, <1>6 DEF RequestOK, Same, FoundOK, PluginKey, AfterFetch, AfterNamespace
<1>9. CreatedOK(q)'
  <2>1. pc[q] = "commit" => tx[q].version # NoRow
    BY <1>1, Rows DEF RequestOK, WrittenOK, AfterFetch, AfterNamespace, AfterPlugin
  <2> QED
    BY <1>1, <1>5, <1>6, <2>1
       DEF RequestOK, Same, CreatedOK, VersionKey, AfterFetch, AfterNamespace, AfterPlugin
<1> QED
  BY <1>2, <1>7, <1>8, <1>9 DEF RequestOK

LEMMA CommitStep ==
  ASSUME PInv, NEW r \in Requests, Commit(r)
  PROVE  PInv'
<1> DEFINE ns == req[r].namespace
<1>1. /\ req[r] \in Request /\ PluginKey(r) \in PluginKeys /\ VersionKey(r) \in VersionKeys
      /\ ManifestOf(r).description \in Descriptions
      /\ NewVersion(r) \in VersionRow /\ NewVersion(r) # NoRow
  BY CommitFacts, Rows DEF AfterFetch, AfterNamespace, AfterPlugin
<1>2. /\ UNCHANGED <<req, readme, created>> /\ RequestOK(r)
      /\ versions'[VersionKey(r)] = NewVersion(r)
      /\ \A k \in VersionKeys \ {VersionKey(r)} : versions'[k] = versions[k]
      /\ \A k \in PluginKeys \ {PluginKey(r)} : plugins'[k] = plugins[k]
  BY <1>1, CommitFacts DEF PInv, TypeOK, RequestsOK
<1>3. TypeOK'
  <2>1. namespaces' \in [Namespaces -> Owners \cup {Absent, Unowned}]
    BY CommitFacts DEF PInv, TypeOK
  <2>2. plugins' \in [PluginKeys -> Descriptions \cup {NoRow}]
    BY <1>1, CommitFacts DEF PInv, TypeOK
  <2>3. versions' \in [VersionKeys -> VersionRow \cup {NoRow}]
    BY <1>1, CommitFacts DEF PInv, TypeOK
  <2>4. pc' \in [Requests -> Steps] /\ status' \in [Requests -> Statuses]
    BY DEF PInv, TypeOK, Commit, Answer, Steps, Statuses
  <2>5. tx' \in [Requests -> [namespace : BOOLEAN, plugin : Descriptions \cup {NoRow},
                             version : VersionRow \cup {NoRow}]]
    BY DEF PInv, TypeOK, Commit, EmptyTx
  <2> QED
    BY <1>2, <2>1, <2>2, <2>3, <2>4, <2>5 DEF PInv, TypeOK
<1>4. RequestOK(r)'
  BY <1>1, <1>2, CommitFacts DEF RequestOK, ReceivedOK, InFlight, FetchedOK, WrittenOK, FoundOK,
     CreatedOK, EmptyTx, VersionKey, AfterFetch, AfterNamespace, AfterPlugin
<1>5. RequestsOK'
  BY <1>4, CommitOthers DEF RequestsOK
<1>6. LocksApart'
  <2>1. \A q \in Requests : tx'[q] \in {tx[q], EmptyTx}
    BY CommitFacts DEF Same
  <2> QED
    BY <2>1, <1>2, StillApart DEF LocksApart
<1>7. RowsRequested'
  <2>1. NewVersion(r).digest = req[r].digest
    BY DEF NewVersion
  <2> QED
    BY <1>1, <1>2, <2>1 DEF PInv, CatalogOK, RowsRequested, VersionKey
<1>8. PluginHasVersion'
  <2> SUFFICES ASSUME NEW k \in PluginKeys, plugins'[k] # NoRow
               PROVE  /\ namespaces'[k[1]] # Absent
                      /\ \E v \in Versions : versions'[<<k[1], k[2], v>>] # NoRow
    BY DEF PluginHasVersion
  <2>1. k = <<k[1], k[2]>> /\ k[1] \in Namespaces /\ k[2] \in Names
    BY DEF PluginKeys
  <2>2. CASE k = PluginKey(r)
    <3>1. /\ k[1] = ns /\ req[r].version \in Versions
          /\ <<k[1], k[2], req[r].version>> = VersionKey(r)
      BY <1>1, <2>2 DEF PluginKey, VersionKey, Request
    <3>2. namespaces'[ns] # Absent
      BY <2>1, <3>1, CommitFacts, SentinelAssumption DEF PInv, TypeOK
    <3> QED
      BY <1>1, <1>2, <3>1, <3>2
  <2>3. CASE k # PluginKey(r)
    <3>1. plugins[k] # NoRow
      BY <1>2, <2>3
    <3>2. namespaces[k[1]] # Absent
      BY <3>1 DEF PInv, CatalogOK, PluginHasVersion
    <3>3. namespaces'[k[1]] # Absent
      BY <2>1, <3>2, CommitFacts, SentinelAssumption DEF PInv, TypeOK
    <3>4. PICK v \in Versions : versions[<<k[1], k[2], v>>] # NoRow
      BY <3>1 DEF PInv, CatalogOK, PluginHasVersion
    <3>5. <<k[1], k[2], v>> \in VersionKeys
      BY <2>1 DEF VersionKeys
    <3> QED
      BY <1>1, <1>2, <3>3, <3>4, <3>5
  <2> QED
    BY <2>2, <2>3
<1>9. VersionHasPlugin'
  <2> SUFFICES ASSUME NEW k \in VersionKeys, versions'[k] # NoRow
               PROVE  plugins'[<<k[1], k[2]>>] # NoRow
    BY DEF VersionHasPlugin
  <2>1. <<k[1], k[2]>> \in PluginKeys
    BY DEF VersionKeys, PluginKeys
  <2>2. CASE k = VersionKey(r)
    BY <2>2, CommitFacts DEF VersionKey, PluginKey
  <2>3. CASE k # VersionKey(r)
    BY <1>2, <2>1, <2>3, CommitFacts DEF PInv, CatalogOK, VersionHasPlugin
  <2> QED
    BY <2>2, <2>3
<1>10. RowsMatchImage'
  <2> SUFFICES ASSUME NEW k \in VersionKeys, versions'[k] # NoRow
               PROVE  LET row == versions'[k] IN
                      /\ Content[row.digest] # Broken
                      /\ Content[row.digest].name = k[2] /\ Content[row.digest].version = k[3]
                      /\ row.description = Content[row.digest].description
                      /\ row.readme = Content[row.digest].readme \/ (Faults /\ row.readme = Blank)
    BY DEF RowsMatchImage
  <2>1. CASE k = VersionKey(r)
    BY <1>1, <1>2, <2>1, CommitFacts DEF NewVersion, ManifestOf, Valid, VersionKey
  <2>2. CASE k # VersionKey(r)
    BY <1>2, <2>2 DEF PInv, CatalogOK, RowsMatchImage
  <2> QED
    BY <2>1, <2>2
<1>11. CreatedOnce'
  <2>1. ASSUME NEW q \in Requests \ {r}, created[r], status[q] = "201"
        PROVE  VersionKey(q) # VersionKey(r)
    BY <1>2, <2>1, CommitFacts DEF PInv, RequestsOK, RequestOK, CreatedOK
  <2> QED
    BY <1>2, <2>1, CommitFacts DEF PInv, CreatedOnce, Same, VersionKey
<1> QED
  BY <1>3, <1>5, <1>6, <1>7, <1>8, <1>9, <1>10, <1>11 DEF PInv, CatalogOK

-----------------------------------------------------------------------------
LEMMA InitSafe == Init => PInv
<1> SUFFICES ASSUME Init
             PROVE  PInv
  OBVIOUS
<1>1. TypeOK
  BY DEF Init, TypeOK, EmptyTx, Steps, Statuses
<1>2. RequestsOK
  BY DEF Init, RequestsOK, RequestOK, ReceivedOK, InFlight, FetchedOK, WrittenOK, FoundOK,
     CreatedOK, EmptyTx, AfterFetch, AfterNamespace, AfterPlugin
<1>3. LocksApart /\ CatalogOK /\ CreatedOnce
  BY DEF Init, LocksApart, Apart, EmptyTx, CatalogOK, RowsRequested, PluginHasVersion,
     VersionHasPlugin, RowsMatchImage, CreatedOnce
<1> QED
  BY <1>1, <1>2, <1>3 DEF PInv

LEMMA WorkStep ==
  ASSUME PInv, NEW r \in Requests, Work(r)
  PROVE  PInv'
BY FetchStep, LookupStep, NamespaceCreateStep, PluginStep, VersionStep, CommitStep DEF Work

LEMMA StutterStep == ASSUME PInv, UNCHANGED vars PROVE PInv'
<1>1. /\ UNCHANGED tables
      /\ \A q \in Requests : Same(q)
  BY DEF vars, tables, Same
<1>2. TypeOK'
  BY DEF PInv, TypeOK, vars
<1>3. RequestsOK'
  BY <1>1, Untouched DEF PInv, RequestsOK
<1>4. LocksApart' /\ CatalogOK' /\ CreatedOnce'
  BY DEF PInv, LocksApart, Apart, CatalogOK, RowsRequested, PluginHasVersion,
     VersionHasPlugin, RowsMatchImage, CreatedOnce, VersionKey, vars
<1> QED
  BY <1>2, <1>3, <1>4 DEF PInv

LEMMA NextSafe ==
  ASSUME PInv, [Next]_vars
  PROVE  PInv'
<1>1. ASSUME NEW r \in Requests,
             Malformed(r) \/ (\E sent \in Request : Receive(r, sent)) \/ Work(r) \/ Fail(r)
      PROVE  PInv'
  BY <1>1, MalformedStep, ReceiveStep, WorkStep, AbortStep DEF Fail
<1> QED
  BY <1>1, CrashStep, StutterStep DEF Next

LEMMA Inductive == Spec => []PInv
BY InitSafe, NextSafe, PTL DEF Spec

-----------------------------------------------------------------------------
\* The variables keep their types, whatever the requests send
\* (internal/service/service.go:158).
THEOREM TypeCorrect == Spec => []TypeOK
BY Inductive, PTL DEF PInv

\* A plugin in the catalogue has a namespace and a version, through any number of
\* racing publications, failures and crashes (internal/web/handlers.go:88).
THEOREM PluginSafety == Spec => []PluginHasVersion
<1>1. PInv => PluginHasVersion
  BY DEF PInv, CatalogOK
<1> QED
  BY <1>1, Inductive, PTL

\* A version row is one image throughout (internal/service/service.go:249).
THEOREM RowSafety == Spec => []RowsMatchImage
<1>1. PInv => RowsMatchImage
  BY DEF PInv, CatalogOK
<1> QED
  BY <1>1, Inductive, PTL

\* At most one answer 201 for a version says created
\* (internal/service/service.go:249).
THEOREM CreatedSafety == Spec => []CreatedOnce
<1>1. PInv => CreatedOnce
  BY DEF PInv
<1> QED
  BY <1>1, Inductive, PTL

\* What was answered 201 stays, with the image of some request for it
\* (internal/service/service.go:156).
THEOREM DurableSafety == Spec => []PublishedStays
<1>1. PInv => PublishedStays
  <2> SUFFICES ASSUME PInv, NEW r \in Requests, status[r] = "201"
               PROVE  /\ versions[VersionKey(r)] # NoRow
                      /\ \E q \in Requests :
                           /\ req[q] # NoRequest /\ VersionKey(q) = VersionKey(r)
                           /\ versions[VersionKey(r)].digest = req[q].digest
    BY DEF PublishedStays
  <2>1. RequestOK(r)
    BY DEF PInv, RequestsOK
  <2>2. VersionKey(r) \in VersionKeys /\ versions[VersionKey(r)] # NoRow
    BY <2>1 DEF RequestOK, ReceivedOK, CreatedOK, VersionKey, VersionKeys, Request
  <2> QED
    BY <2>2, NoRequestIsNone DEF PInv, CatalogOK, RowsRequested
<1> QED
  BY <1>1, Inductive, PTL

-----------------------------------------------------------------------------
\* Deadlocks.

\* A request that the database makes wait for a row of another transaction.
Waits(r) ==
  \/ pc[r] = "namespaceCreate" /\ NamespaceLocked(r)
  \/ pc[r] \in {"pluginCreate", "pluginUpdate"} /\ PluginLocked(r)
  \/ pc[r] \in {"versionCreate", "versionUpdate"} /\ VersionLocked(r)

\* Publications never all wait on each other.
SomeoneProceeds ==
  (\E r \in Requests : InFlight(r)) => \E r \in Requests : InFlight(r) /\ ~Waits(r)

\* Who holds the lock on a row is past the step at which others wait for it.
LEMMA HolderIsPast ==
  ASSUME PInv, NEW q \in Requests
  PROVE  /\ tx[q].namespace => pc[q] \in AfterNamespace
         /\ tx[q].plugin # NoRow => pc[q] \in AfterPlugin
         /\ tx[q].version # NoRow => pc[q] = "commit"
BY DEF PInv, RequestsOK, RequestOK, WrittenOK

\* Of the requests under way one that is furthest waits for nobody.
LEMMA FurthestProceeds == PInv => SomeoneProceeds
<1> SUFFICES ASSUME PInv, NEW s \in Requests, InFlight(s)
             PROVE  \E r \in Requests : InFlight(r) /\ ~Waits(r)
  BY DEF SomeoneProceeds
<1>1. CASE \E r \in Requests : pc[r] = "commit"
  BY <1>1 DEF InFlight, Waits
<1>2. CASE /\ ~\E r \in Requests : pc[r] = "commit"
           /\ \E r \in Requests : pc[r] \in AfterPlugin
  BY <1>2, HolderIsPast DEF InFlight, Waits, VersionLocked, AfterPlugin
<1>3. CASE /\ ~\E r \in Requests : pc[r] \in AfterPlugin
           /\ \E r \in Requests : pc[r] \in AfterNamespace
  BY <1>3, HolderIsPast DEF InFlight, Waits, PluginLocked, AfterNamespace, AfterPlugin
<1>4. CASE ~\E r \in Requests : pc[r] \in AfterNamespace
  BY <1>4, HolderIsPast DEF Waits, NamespaceLocked, AfterNamespace, AfterPlugin
<1> QED
  BY <1>1, <1>2, <1>3, <1>4

\* upsertRecords writes namespace, plugin and version in this order, whichever
\* of them it has to write, and keeps their locks until it ends: for any number
\* of publications, of any plugins, one of those under way waits for nobody.
THEOREM NoDeadlock == Spec => []SomeoneProceeds
BY FurthestProceeds, Inductive, PTL

-----------------------------------------------------------------------------
\* A step leaves the catalogue as it is, or is a commit.
LEMMA CatalogStep ==
  ASSUME PInv, [Next]_vars
  PROVE  UNCHANGED tables \/ \E r \in Requests : Commit(r)
BY DEF Next, Work, vars, tables, Malformed, Receive, Fetch, NamespaceGet, NamespaceCreate,
   PluginGet, PluginCreate, PluginUpdate, VersionGet, VersionCreate, VersionUpdate, Fail,
   Abort, Crash

\* A commit is a publication of the abstract catalogue.
LEMMA CommitPublishes ==
  ASSUME PInv, NEW r \in Requests, Commit(r)
  PROVE  Abstract!Next
<1>1. /\ req[r].namespace \in Namespaces /\ req[r].name \in Names
      /\ req[r].version \in Versions /\ req[r].digest \in Digests
  BY CommitFacts, Rows DEF Request, AfterFetch, AfterNamespace, AfterPlugin
<1>2. req[r].digest \in Abstract!Images
  BY <1>1, CommitFacts, ContentAssumption DEF Abstract!Images, ManifestOf
<1>3. readme[r] \in {Content[req[r].digest].readme, Blank}
  BY CommitFacts DEF ManifestOf
<1>4. plugins' = plugins => plugins[PluginKey(r)] # NoRow
  BY CommitFacts
<1>5. Abstract!Publish(req[r].namespace, req[r].name, req[r].version, req[r].digest, readme[r])
  BY <1>4, CommitFacts
     DEF Abstract!Publish, Valid, ManifestOf, PluginKey, VersionKey, NewVersion
<1> QED
  BY <1>1, <1>2, <1>3, <1>5 DEF Abstract!Next

\* Publish, call by call, with races, failures and crashes, implements the atomic
\* catalogue: no reader of the tables sees half a publication
\* (internal/service/service.go:249).
THEOREM Atomicity == Spec => ImplementsCatalog
<1>1. Init => Abstract!Init
  BY DEF Init, Abstract!Init, PluginKeys, VersionKeys
<1>2. PInv /\ [Next]_vars => [Abstract!Next]_(Abstract!catalog)
  BY CatalogStep, CommitPublishes DEF Abstract!catalog, tables
<1> QED
  BY <1>1, <1>2, Inductive, PTL DEF Spec, ImplementsCatalog, Abstract!Spec
=============================================================================
