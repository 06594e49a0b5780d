------------------------------ MODULE Publish ------------------------------
(***************************************************************************)
(* PluginService.Publish (internal/service/service.go): fetch the image    *)
(* from the OCI registry, validate its plugin.yaml, and upsert the         *)
(* namespace, plugin and version rows in one database transaction.         *)
(*                                                                         *)
(* The transaction runs at PostgreSQL's default READ COMMITTED level, in   *)
(* which "look up, then insert or update" is not atomic.  tx[r] holds the  *)
(* rows that the transaction of request r has written and not committed;   *)
(* until it ends, no other transaction can write them: an insert of the    *)
(* same unique key and an update of the same row wait.  Reads see the      *)
(* committed rows only.                                                    *)
(***************************************************************************)
EXTENDS Integers, FiniteSets

CONSTANTS
  Requests,     \* publish requests
  Namespaces, Names, Versions, Descriptions,
  Owners,       \* users that own namespaces
  Digests,      \* image digests
  Content,      \* digest -> what the image holds; content-addressed, so fixed
  Broken,       \* an image without a valid plugin.yaml
  Absent,       \* no namespace row
  Unowned,      \* a namespace whose user_id is NULL
  NoRow,        \* no plugin or version row
  Blank,        \* no README
  Faults        \* TRUE: store and registry calls may fail

\* What an image holds: the fields of plugin.yaml the catalogue keeps, and
\* the README.
Image == [name : Names, version : Versions, description : Descriptions,
          readme : Digests \cup {Blank}]

VersionRow == [digest : Digests, readme : Digests \cup {Blank},
               description : Descriptions]

PluginKeys == Namespaces \X Names
VersionKeys == Namespaces \X Names \X Versions

ASSUME ContentAssumption == Content \in [Digests -> Image \cup {Broken}]
ASSUME SentinelAssumption ==
  /\ Broken \notin Image
  /\ NoRow \notin Descriptions /\ NoRow \notin VersionRow
  /\ Absent \notin Owners /\ Unowned \notin Owners /\ Absent # Unowned
  /\ Blank \notin Digests
ASSUME FaultsAssumption == Faults \in BOOLEAN

VARIABLES
  namespaces,  \* name -> owner, Unowned or Absent
  plugins,     \* <<namespace, name>> -> description, or NoRow
  versions,    \* <<namespace, name, version>> -> row, or NoRow
  pc,          \* the call a request makes next
  req,         \* the request
  readme,      \* rawReadme
  tx,          \* rows written and not committed
  created,     \* the result's Created
  status       \* the HTTP status of the answer

tables == <<namespaces, plugins, versions>>
vars == <<namespaces, plugins, versions, pc, req, readme, tx, created, status>>

Request == [namespace : Namespaces, name : Names, version : Versions,
            digest : Digests]
NoRequest == [namespace |-> Absent]

Steps == {"idle", "fetch", "namespaceGet", "namespaceCreate", "pluginGet",
          "pluginCreate", "pluginUpdate", "versionGet", "versionCreate",
          "versionUpdate", "commit", "done"}

\* 401 and 403 are the answers of the middleware in front (module Registry).
Statuses == {"none", "201", "400", "401", "403", "500", "aborted"}

EmptyTx == [namespace |-> FALSE, plugin |-> NoRow, version |-> NoRow]

PluginKey(r) == <<req[r].namespace, req[r].name>>
VersionKey(r) == <<req[r].namespace, req[r].name, req[r].version>>

ManifestOf(r) == Content[req[r].digest]

Init ==
  /\ namespaces \in [Namespaces -> Owners \cup {Absent, Unowned}]
  /\ plugins = [k \in PluginKeys |-> NoRow]
  /\ versions = [k \in VersionKeys |-> NoRow]
  /\ pc = [r \in Requests |-> "idle"]
  /\ req = [r \in Requests |-> NoRequest]
  /\ readme = [r \in Requests |-> Blank]
  /\ tx = [r \in Requests |-> EmptyTx]
  /\ created = [r \in Requests |-> FALSE]
  /\ status = [r \in Requests |-> "none"]

-----------------------------------------------------------------------------
Goto(r, step) ==
  /\ pc' = [pc EXCEPT ![r] = step]
  /\ UNCHANGED status

Answer(r, code) ==
  /\ pc' = [pc EXCEPT ![r] = "done"]
  /\ status' = [status EXCEPT ![r] = code]

InFlight(r) == pc[r] \notin {"idle", "done"}

\* Bug for the checks: the deferred Rollback is missing.
ReleaseNothing(r) == tx

\* defer tx.Rollback(): the uncommitted rows and their locks are gone.
Release(r) == [tx EXCEPT ![r] = EmptyTx]

\* Bug for the checks: PluginCreate goes through the Adapter instead of the
\* transaction, so its row survives the rollback.
AbortKeepsPlugin(r) ==
  /\ Answer(r, "500")
  /\ tx' = [tx EXCEPT ![r] = EmptyTx]
  /\ plugins' = IF tx[r].plugin # NoRow
                THEN [plugins EXCEPT ![PluginKey(r)] = tx[r].plugin] ELSE plugins
  /\ UNCHANGED <<namespaces, versions, req, readme, created>>

\* Any error after validation is answered 500.
Abort(r) ==
  /\ Answer(r, "500")
  /\ tx' = Release(r)
  /\ UNCHANGED <<tables, req, readme, created>>

\* PublishHandler: an unreadable body, or one without version or digest.
Malformed(r) ==
  /\ pc[r] = "idle"
  /\ Answer(r, "400")
  /\ UNCHANGED <<tables, req, readme, tx, created>>

Receive(r, sent) ==
  /\ pc[r] = "idle"
  /\ req' = [req EXCEPT ![r] = sent]
  /\ Goto(r, "fetch")
  /\ UNCHANGED <<tables, readme, tx, created>>

\* The version first, then the name (its part after the last slash).
Valid(r) ==
  /\ ManifestOf(r).version = req[r].version
  /\ ManifestOf(r).name = req[r].name

\* fetchOCILayers, ParseManifest and the two comparisons.  The error of the
\* README extraction is dropped: the README may be blank for no reason.
Fetch(r) ==
  /\ pc[r] = "fetch"
  /\ \/ /\ ManifestOf(r) = Broken
        /\ Answer(r, "500")
        /\ UNCHANGED readme
     \/ /\ ManifestOf(r) # Broken /\ ~Valid(r)
        /\ Answer(r, "400")
        /\ UNCHANGED readme
     \/ /\ ManifestOf(r) # Broken /\ Valid(r)
        /\ Goto(r, "namespaceGet")
        /\ \E text \in {ManifestOf(r).readme} \cup (IF Faults THEN {Blank} ELSE {}) :
             readme' = [readme EXCEPT ![r] = text]
  /\ UNCHANGED <<tables, req, tx, created>>

-----------------------------------------------------------------------------
\* upsertRecords.  A lookup decides between insert and update; the rows it
\* has looked at may change before the write.

\* BeginTx and the namespace lookup.
NamespaceGet(r) ==
  /\ pc[r] = "namespaceGet"
  /\ Goto(r, IF namespaces[req[r].namespace] = Absent THEN "namespaceCreate"
                                                      ELSE "pluginGet")
  /\ UNCHANGED <<tables, req, readme, tx, created>>

NamespaceLocked(r) ==
  \E q \in Requests \ {r} :
    tx[q].namespace /\ req[q].namespace = req[r].namespace

NamespaceCreate(r) ==
  /\ pc[r] = "namespaceCreate"
  /\ ~NamespaceLocked(r)
  /\ \/ /\ namespaces[req[r].namespace] # Absent  \* unique violation
        /\ Abort(r)
     \/ /\ namespaces[req[r].namespace] = Absent
        /\ tx' = [tx EXCEPT ![r].namespace = TRUE]
        /\ Goto(r, "pluginGet")
        /\ UNCHANGED <<tables, req, readme, created>>

PluginGet(r) ==
  LET found == plugins[PluginKey(r)] IN
  /\ pc[r] = "pluginGet"
  /\ Goto(r, IF found = NoRow THEN "pluginCreate"
             ELSE IF found # ManifestOf(r).description THEN "pluginUpdate"
             ELSE "versionGet")
  /\ UNCHANGED <<tables, req, readme, tx, created>>

PluginLocked(r) ==
  \E q \in Requests \ {r} :
    tx[q].plugin # NoRow /\ PluginKey(q) = PluginKey(r)

WritePlugin(r) ==
  /\ tx' = [tx EXCEPT ![r].plugin = ManifestOf(r).description]
  /\ Goto(r, "versionGet")

PluginCreate(r) ==
  /\ pc[r] = "pluginCreate"
  /\ ~PluginLocked(r)
  /\ \/ /\ plugins[PluginKey(r)] # NoRow           \* unique violation
        /\ Abort(r)
     \/ /\ plugins[PluginKey(r)] = NoRow
        /\ WritePlugin(r)
        /\ UNCHANGED <<tables, req, readme, created>>

PluginUpdate(r) ==
  /\ pc[r] = "pluginUpdate"
  /\ ~PluginLocked(r)
  /\ WritePlugin(r)
  /\ UNCHANGED <<tables, req, readme, created>>

VersionGet(r) ==
  LET found == versions[VersionKey(r)] # NoRow IN
  /\ pc[r] = "versionGet"
  /\ Goto(r, IF found THEN "versionUpdate" ELSE "versionCreate")
  /\ UNCHANGED <<tables, req, readme, tx, created>>

VersionLocked(r) ==
  \E q \in Requests \ {r} :
    tx[q].version # NoRow /\ VersionKey(q) = VersionKey(r)

\* Bug for the checks: two string arguments of PluginVersionCreate swapped.
NewVersionSwapped(r) ==
  [digest |-> readme[r], readme |-> req[r].digest,
   description |-> ManifestOf(r).description]

\* Bug for the checks: an update without a README leaves that of the row as it
\* was.
NewVersionKeepsReadme(r) ==
  LET found == versions[VersionKey(r)] IN
  [digest |-> req[r].digest,
   readme |-> IF readme[r] = Blank /\ found # NoRow THEN found.readme ELSE readme[r],
   description |-> ManifestOf(r).description]

NewVersion(r) ==
  [digest |-> req[r].digest, readme |-> readme[r],
   description |-> ManifestOf(r).description]

WriteVersion(r) ==
  /\ tx' = [tx EXCEPT ![r].version = NewVersion(r)]
  /\ Goto(r, "commit")

\* Bug for the checks: there is no unique index on (plugin_id, version).
VersionTakenNever(r) == FALSE

VersionTaken(r) == versions[VersionKey(r)] # NoRow

VersionCreate(r) ==
  /\ pc[r] = "versionCreate"
  /\ ~VersionLocked(r)
  /\ \/ /\ VersionTaken(r)                         \* unique violation
        /\ Abort(r)
     \/ /\ ~VersionTaken(r)
        /\ WriteVersion(r)
        /\ created' = [created EXCEPT ![r] = TRUE]
        /\ UNCHANGED <<tables, req, readme>>

VersionUpdate(r) ==
  /\ pc[r] = "versionUpdate"
  /\ ~VersionLocked(r)
  /\ WriteVersion(r)
  /\ UNCHANGED <<tables, req, readme, created>>

-----------------------------------------------------------------------------
\* Bug for the checks: the version is written outside of the transaction, to
\* a connection that is never committed.
CommitsNever(r) == FALSE

\* Bug for the checks: the update of an existing version misses its row.
CommitsNewVersion(r) == tx[r].version # NoRow /\ created[r]

CommitsVersion(r) == tx[r].version # NoRow

Written(r) ==
  /\ namespaces' = IF tx[r].namespace
                   THEN [namespaces EXCEPT ![req[r].namespace] = Unowned]
                   ELSE namespaces
  /\ plugins' = IF tx[r].plugin # NoRow
                THEN [plugins EXCEPT ![PluginKey(r)] = tx[r].plugin]
                ELSE plugins
  /\ versions' = IF CommitsVersion(r)
                 THEN [versions EXCEPT ![VersionKey(r)] = tx[r].version]
                 ELSE versions

\* With faults the answer to the commit may be lost: the rows are there, the
\* client is told 500.
Commit(r) ==
  /\ pc[r] = "commit"
  /\ Written(r)
  /\ tx' = [tx EXCEPT ![r] = EmptyTx]
  /\ \E code \in {"201"} \cup (IF Faults THEN {"500"} ELSE {}) : Answer(r, code)
  /\ UNCHANGED <<req, readme, created>>

\* A registry or store call fails, the commit included.
Fail(r) ==
  /\ Faults
  /\ InFlight(r)
  /\ Abort(r)

\* The process dies; the database rolls its transactions back.
Crash ==
  /\ Faults
  /\ \E r \in Requests : InFlight(r)
  /\ pc' = [r \in Requests |-> IF InFlight(r) THEN "done" ELSE pc[r]]
  /\ status' = [r \in Requests |-> IF InFlight(r) THEN "aborted" ELSE status[r]]
  /\ tx' = [r \in Requests |-> EmptyTx]
  /\ UNCHANGED <<tables, req, readme, created>>

\* The steps of a request that has been received, but for failures.
Work(r) ==
  \/ Fetch(r)
  \/ NamespaceGet(r) \/ NamespaceCreate(r)
  \/ PluginGet(r) \/ PluginCreate(r) \/ PluginUpdate(r)
  \/ VersionGet(r) \/ VersionCreate(r) \/ VersionUpdate(r)
  \/ Commit(r)

Next ==
  \/ \E r \in Requests :
       \/ Malformed(r)
       \/ \E sent \in Request : Receive(r, sent)
       \/ Work(r)
       \/ Fail(r)
  \/ Crash

Spec == Init /\ [][Next]_vars

\* The handler goroutine of a request runs on, and the database grants a lock
\* as soon as its holder has ended.
FairSpec == Spec /\ \A r \in Requests : WF_vars(Work(r))

-----------------------------------------------------------------------------
TypeOK ==
  /\ namespaces \in [Namespaces -> Owners \cup {Absent, Unowned}]
  /\ plugins \in [PluginKeys -> Descriptions \cup {NoRow}]
  /\ versions \in [VersionKeys -> VersionRow \cup {NoRow}]
  /\ pc \in [Requests -> Steps]
  /\ req \in [Requests -> Request \cup {NoRequest}]
  /\ readme \in [Requests -> Digests \cup {Blank}]
  /\ tx \in [Requests -> [namespace : BOOLEAN,
                          plugin : Descriptions \cup {NoRow},
                          version : VersionRow \cup {NoRow}]]
  /\ created \in [Requests -> BOOLEAN]
  /\ status \in [Requests -> Statuses]

\* internal/web/handlers.go:88 answers 500 for a plugin without versions; no
\* commit, failure or crash of a publication leaves one behind.
PluginHasVersion ==
  \A k \in PluginKeys : plugins[k] # NoRow =>
    /\ namespaces[k[1]] # Absent
    /\ \E v \in Versions : versions[<<k[1], k[2], v>>] # NoRow

\* A version row is one image: digest and manifest come from the same
\* publication, the image says it is this plugin and this version, and the
\* README is that image's or, where its extraction failed (service.go:238),
\* empty; never that of an image published before under the same version.
RowsMatchImage ==
  \A k \in VersionKeys : versions[k] # NoRow =>
    LET row == versions[k] IN
    /\ Content[row.digest] # Broken
    /\ Content[row.digest].name = k[2] /\ Content[row.digest].version = k[3]
    /\ row.description = Content[row.digest].description
    /\ row.readme = Content[row.digest].readme \/ (Faults /\ row.readme = Blank)

\* Of all answers 201 for a version at most one says created, whatever races:
\* one publication has inserted the row, the others have replaced it.
CreatedOnce ==
  \A r, q \in Requests :
    /\ status[r] = "201" /\ created[r] /\ status[q] = "201" /\ created[q]
    /\ VersionKey(r) = VersionKey(q)
    => r = q

\* A 201 is durable: the version stays in the catalogue, with the image of
\* some request for it.
PublishedStays ==
  \A r \in Requests : status[r] = "201" =>
    /\ versions[VersionKey(r)] # NoRow
    /\ \E q \in Requests : /\ req[q] # NoRequest
                           /\ VersionKey(q) = VersionKey(r)
                           /\ versions[VersionKey(r)].digest = req[q].digest

\* The transactions take their locks in one order (namespace, plugin,
\* version) and release them on every path, so every request is answered.
EveryPublishAnswered == \A r \in Requests : InFlight(r) ~> pc[r] = "done"

Abstract == INSTANCE Catalog

\* Publication is atomic for every reader of the tables.
ImplementsCatalog == Abstract!Spec

\* internal/service/service.go:156 "Publish fetches the OCI manifest, ...
\* validates, and upserts the database records": a valid request succeeds
\* when nothing fails.
ValidPublishSucceeds ==
  \A r \in Requests :
    status[r] = "500" /\ req[r] # NoRequest => ManifestOf(r) = Broken
=============================================================================
