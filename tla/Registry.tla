------------------------------ MODULE Registry ------------------------------
(***************************************************************************)
(* The registry server around PluginService.Publish: the publish route     *)
(* with its middleware (internal/handler/routes.go,                        *)
(* internal/middleware/auth.go), the registrations that give namespaces    *)
(* their owners, and the readers of the catalogue (the pages of            *)
(* internal/web/handlers.go and htmx.go, GET .../versions/:version).       *)
(*                                                                         *)
(* RequireNamespace reads the owner before, and outside of, the            *)
(* transaction of the publication; the readers use one statement per       *)
(* table and no transaction.                                               *)
(***************************************************************************)
EXTENDS Publish, FiniteSetsExt

CONSTANTS
  Readers,  \* requests that read the catalogue
  Home,     \* user -> the namespace a registration tries to create for it
  Nobody,   \* no authenticated caller
  Everywhere, \* the scope of a list that names no namespace
  Limits, Offsets,  \* what the URLs of lists ask for
  DefaultLimit, MaxLimit  \* parsePagination's 20 and 50

ASSUME PagingAssumption ==
  /\ Limits \subseteq Int /\ Offsets \subseteq Int
  /\ MaxLimit \in Nat /\ DefaultLimit \in 1..MaxLimit /\ Everywhere \notin Namespaces
  /\ IsFiniteSet(Namespaces) /\ IsFiniteSet(Names)
ASSUME HomeAssumption == Home \in [Owners -> Namespaces] /\ Nobody \notin Owners

VARIABLES
  caller,   \* the user_id claim of a publish request
  cleared,  \* the namespace RequireNamespace has let the request through for
  reads     \* the readers

registry == <<vars, caller, cleared, reads>>

NoRead == [page |-> "none", step |-> "idle"]

Busy == {"namespace", "plugin", "version", "count", "list"}

RegistryInit ==
  /\ Init
  /\ caller = [r \in Requests |-> Nobody]
  /\ cleared = [r \in Requests |-> Absent]
  /\ reads = [d \in Readers |-> NoRead]

-----------------------------------------------------------------------------
\* UserService.Register's NamespaceCreate: the first user of a local part gets
\* the namespace, anybody later gets none (module Accounts).
RegisterUser(u) ==
  /\ namespaces[Home[u]] = Absent
  /\ \A r \in Requests : ~(tx[r].namespace /\ req[r].namespace = Home[u])
  /\ namespaces' = [namespaces EXCEPT ![Home[u]] = u]
  /\ UNCHANGED <<plugins, versions, pc, req, readme, tx, created, status>>
  /\ UNCHANGED <<caller, cleared, reads>>

\* AuthRequired: no valid access token.
Unauthenticated(r) ==
  /\ pc[r] = "idle" /\ cleared[r] = Absent
  /\ Answer(r, "401")
  /\ UNCHANGED <<tables, req, readme, tx, created, caller, cleared, reads>>

\* Bug for the checks: a namespace without an owner is open to everybody.
OwnsOrUnowned(u, ns) == namespaces[ns] \in {u, Unowned}

\* Bug for the checks: a namespace that does not exist is let through, for the
\* publication to create.
OwnsOrAbsent(u, ns) == namespaces[ns] \in {u, Absent}

\* ownerID # nil and *ownerID = uid
Owns(u, ns) == namespaces[ns] = u

\* RequireNamespace for the caller u of a valid access token; a namespace that
\* does not exist, has no owner or another one, or cannot be looked up: 403.
RequireNamespace(r, u, ns) ==
  /\ pc[r] = "idle" /\ cleared[r] = Absent
  /\ caller' = [caller EXCEPT ![r] = u]
  /\ \/ /\ Owns(u, ns)
        /\ cleared' = [cleared EXCEPT ![r] = ns]
        /\ UNCHANGED <<pc, status>>
     \/ /\ ~Owns(u, ns) \/ Faults
        /\ Answer(r, "403")
        /\ UNCHANGED cleared
  /\ UNCHANGED <<tables, req, readme, tx, created, reads>>

\* PublishHandler takes the namespace from the URL, as the middleware did.
HandlePublish(r) ==
  /\ cleared[r] # Absent
  /\ \/ Malformed(r)
     \/ \E sent \in Request : sent.namespace = cleared[r] /\ Receive(r, sent)
  /\ UNCHANGED <<caller, cleared, reads>>

PublishStep(r) ==
  /\ Work(r) \/ Fail(r)
  /\ UNCHANGED <<caller, cleared, reads>>

-----------------------------------------------------------------------------
\* The readers.  after records, for the properties only, that the version had
\* been answered 201 when the read began.
ReadArrives(d, page, k) ==
  /\ reads[d] = NoRead
  /\ reads' = [reads EXCEPT ![d] =
       [page |-> page, step |-> "namespace", key |-> k,
        after |-> \E r \in Requests : status[r] = "201" /\ VersionKey(r) = k]]
  /\ UNCHANGED <<vars, caller, cleared>>

ReadGoes(d, from, to) ==
  /\ reads[d].step = from
  /\ reads' = [reads EXCEPT ![d].step = to]
  /\ UNCHANGED <<vars, caller, cleared>>

ReadNamespace(d) ==
  /\ reads[d].page # "walk"
  /\ ReadGoes(d, "namespace",
              IF namespaces[reads[d].key[1]] = Absent THEN "404" ELSE "plugin")

ReadPlugin(d) ==
  LET k == reads[d].key IN
  ReadGoes(d, "plugin", IF plugins[<<k[1], k[2]>>] = NoRow THEN "404" ELSE "version")

\* PluginVersionListByPlugin: a plugin without versions is an internal error.
ListVersions(d) ==
  LET k == reads[d].key IN
  /\ reads[d].page = "detail"
  /\ ReadGoes(d, "version",
       IF \A v \in Versions : versions[<<k[1], k[2], v>>] = NoRow THEN "500" ELSE "200")

\* GetPluginVersion: a missing version is not found.  VersionReadmeFragment
\* reads the same.
ReadVersion(d) ==
  /\ reads[d].page = "version"
  /\ ReadGoes(d, "version", IF versions[reads[d].key] = NoRow THEN "404" ELSE "200")

\* Lists in pages: the browse page, the page of a namespace, and the fragments
\* that htmx asks for, a search or what the button under a page loads.  A
\* visitor walks through one list.  scope: the namespace of the list; a query
\* narrows it likewise.  from: where the walk begins; cards: how many plugins
\* it has shown.
WalkArrives(d, scope, limit, offset) ==
  LET clampedOffset == IF offset < 0 THEN 0 ELSE offset IN
  /\ reads[d] = NoRead
  /\ reads' = [reads EXCEPT ![d] =
       [page |-> "walk", scope |-> scope,
        step |-> IF scope = Everywhere THEN "count" ELSE "namespace",
        limit |-> IF limit < 1 \/ limit > MaxLimit THEN DefaultLimit ELSE limit,
        from |-> clampedOffset, offset |-> clampedOffset, total |-> 0, cards |-> 0]]
  /\ UNCHANGED <<vars, caller, cleared>>

ListNamespace(d) ==
  /\ reads[d].page = "walk"
  /\ ReadGoes(d, "namespace",
              IF namespaces[reads[d].scope] = Absent THEN "404" ELSE "count")

Listed(scope) ==
  Cardinality({k \in PluginKeys : plugins[k] # NoRow /\ scope \in {k[1], Everywhere}})

\* PluginList, PluginListByNamespace: the total, then the rows of the page, cut
\* out of the rows in any order.
CountPlugins(d) ==
  /\ reads[d].step = "count"
  /\ reads' = [reads EXCEPT ![d] =
                 [@ EXCEPT !.step = "list", !.total = Listed(reads[d].scope)]]
  /\ UNCHANGED <<vars, caller, cleared>>

OnPage(n, limit, offset) == Min({limit, Max({n - offset, 0})})

ListPlugins(d) ==
  LET w == reads[d] IN
  /\ w.step = "list"
  /\ reads' = [reads EXCEPT ![d] = [w EXCEPT !.step = "200",
                 !.cards = w.cards + OnPage(Listed(w.scope), w.limit, w.offset)]]
  /\ UNCHANGED <<vars, caller, cleared>>

\* Bug for the checks: off by one.
HasMoreBut1(w) == w.offset + w.limit + 1 < w.total

\* LoadMoreButton, with nextPageURL.
HasMore(w) == w.offset + w.limit < w.total

LoadMore(d) ==
  LET w == reads[d] IN
  /\ w.page = "walk" /\ w.step = "200" /\ HasMore(w)
  /\ reads' = [reads EXCEPT ![d] = [w EXCEPT !.offset = w.offset + w.limit,
                 !.step = IF w.scope = Everywhere THEN "count" ELSE "namespace"]]
  /\ UNCHANGED <<vars, caller, cleared>>

Walk(d) ==
  \/ \E scope \in Namespaces \cup {Everywhere}, limit \in Limits, offset \in Offsets :
       WalkArrives(d, scope, limit, offset)
  \/ ListNamespace(d)
  \/ CountPlugins(d)
  \/ ListPlugins(d)
  \/ LoadMore(d)

Read(d) ==
  \/ \E page \in {"detail", "version"}, k \in VersionKeys : ReadArrives(d, page, k)
  \/ ReadNamespace(d)
  \/ ReadPlugin(d)
  \/ ListVersions(d)
  \/ ReadVersion(d)

\* The process dies, with the readers and the requests still in the
\* middleware; nothing they did is left.
RegistryCrash ==
  /\ Crash
  /\ cleared' = [r \in Requests |-> IF pc[r] = "idle" THEN Absent ELSE cleared[r]]
  /\ reads' = [d \in Readers |-> IF reads[d].step \in Busy THEN NoRead ELSE reads[d]]
  /\ UNCHANGED caller

RegistryNext ==
  \/ \E u \in Owners : RegisterUser(u)
  \/ \E r \in Requests :
       \/ Unauthenticated(r)
       \/ \E u \in Owners, ns \in Namespaces : RequireNamespace(r, u, ns)
       \/ HandlePublish(r)
       \/ PublishStep(r)
  \/ \E d \in Readers : Read(d) \/ Walk(d)
  \/ RegistryCrash

RegistrySpec == RegistryInit /\ [][RegistryNext]_registry

-----------------------------------------------------------------------------
RegistryTypeOK ==
  /\ TypeOK
  /\ caller \in [Requests -> Owners \cup {Nobody}]
  /\ cleared \in [Requests -> Namespaces \cup {Absent}]
  /\ reads \in [Readers ->
       [page : {"detail", "version"}, key : VersionKeys, after : BOOLEAN,
        step : {"namespace", "plugin", "version", "200", "404", "500"}]
       \cup [page : {"walk"}, scope : Namespaces \cup {Everywhere}, limit : 1..MaxLimit,
             step : {"namespace", "count", "list", "200", "404"},
             from : Nat, offset : Nat, total : Nat, cards : Nat]
       \cup {NoRead}]

\* internal/middleware/auth.go: the owner is checked before the transaction
\* and not again; every row of the catalogue still comes from a request whose
\* caller owns the namespace now.
OnlyOwnersPublish ==
  \A k \in VersionKeys : versions[k] # NoRow =>
    \E r \in Requests : /\ cleared[r] = k[1] /\ caller[r] = namespaces[k[1]]
                        /\ req[r] # NoRequest /\ VersionKey(r) = k
                        /\ req[r].digest = versions[k].digest

\* internal/service/service.go:261 creates a missing namespace without owner;
\* behind RequireNamespace that never happens: no namespace becomes unowned,
\* and none changes its owner.
NamespacesKeepOwner ==
  [][\A ns \in Namespaces :
       /\ namespaces[ns] # Absent => namespaces'[ns] = namespaces[ns]
       /\ namespaces[ns] = Absent => namespaces'[ns] # Unowned]_registry

\* internal/web/handlers.go:88: reading namespace, plugin and versions one
\* after the other never finds a plugin without versions.
DetailPageNeverFails == \A d \in Readers : reads[d].step # "500"

\* A reader that asks for a version after its publication was answered 201
\* finds it, whatever is published in between.
PublishedVersionIsFound ==
  \A d \in Readers : reads[d].page \in {"detail", "version"} /\ reads[d].after =>
    reads[d].step \in Busy \cup {"200"}

\* pkg/store/store.go:291 counts and lists in two statements, for each page
\* anew, while publications commit: a visitor who has loaded pages until there
\* is no button for more has been shown as many cards as the last total says,
\* and not fewer.
WalkShowsTotal ==
  \A d \in Readers : LET w == reads[d] IN
    w.page = "walk" /\ w.step = "200" /\ ~HasMore(w) => w.from + w.cards >= w.total
=============================================================================
