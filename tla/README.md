# Flowbot registry: TLA+ models, checks and proofs

The flowbot registry is a Go server (Fiber, PostgreSQL through ent) and a CLI.
Plugin authors build a plugin, push it as an OCI image to a Docker registry
and tell the flowbot registry about it; the registry keeps the catalogue,
accounts and sessions, and issues the tokens the Docker registry accepts. This
directory models the server's own logic: what it stores, when it refuses, and
what concurrent requests, failing calls, and restarts do to it; the generated
ORM under it; and the CLI's way from a login and a working directory through the
OCI registry and the catalogue to an installation.

Check a model with `tlc -config Accounts.cfg MCAccounts.tla` (every `.cfg`
names its module below), the proofs with `tlapm Accounts_proofs.tla`,
`tlapm RateLimit_proofs.tla`, `tlapm Publish_proofs.tla`, `tlapm Registry_proofs.tla`,
`tlapm RegistryToken_proofs.tla`, `tlapm CLISession_proofs.tla`,
`tlapm Orm_proofs.tla` and `tlapm Distribution_proofs.tla`.

## Inventory

| Component | Source | State | Operations | What is hard | What makes it correct |
| --- | --- | --- | --- | --- | --- |
| Accounts and sessions | `internal/service/auth_user.go`, `internal/handler/auth_user.go` | tables users, namespaces, refresh_tokens | register, login, refresh | several store calls per request and no transaction; any of them may fail, or happen and report an error; crashes between them | one account per address, one owner per name for good, sessions go back to a password, a session ends only by its own token |
| Login rate limiter | `internal/middleware/ratelimit.go` | volatile map address → (count, end of window) | login passes or 429, sweep, restart | fixed windows, lazy expiry, the sweep between requests | bounded number of logins; the sweep is invisible |
| Publish service | `internal/service/service.go` (Publish, upsertRecords), `internal/handler/plugin.go` | tables namespaces, plugins, plugin_versions | publish | look-up-then-write at READ COMMITTED, locks, rollback, lost commit answers | a publication is atomic; every row comes from one image |
| Middleware and routes | `internal/middleware/auth.go`, `internal/handler/routes.go` | none | AuthRequired, RequireNamespace | ownership is read before the transaction and not again | only owners publish |
| Catalogue readers | `internal/web/handlers.go`, `internal/web/htmx.go`, `handler/plugin.go` | none | detail page, version endpoint, lists in pages | several statements per page and no transaction; count and list disagree, no ORDER BY | no half-published plugin is seen; a walk shows as many plugins as it says there are |
| Access tokens | `pkg/jwt/usertoken.go` | RSA key | issue, parse | expiry | library code, stateless |
| Docker registry tokens | `service.go` (ParseScopes, IssueJWT), `internal/handler/auth.go`, `pkg/jwt/jwt.go` | none | issue a token for scopes | names that have no owner, ownership that changes after issue | nobody gets a token to push to another user's namespace; one without an owner is open to everybody |
| OCI client, pusher, signatures | `pkg/oci`, `pkg/sign` | images, tags and signatures in the Docker registry | fetch, push, head, sign, verify | tags move; layers that cannot be read are skipped | what is installed is what was published |
| Manifest, scaffold | `pkg/manifest`, `cmd/cli/init.go` | files | parse, validate, generate | a failure in the middle leaves files | the scaffold parses |
| CLI publish, register, install | `cmd/cli`, `internal/build` | the OCI tag and signature, the installation directory | publish, register, install | failures and reruns after each step, concurrent publishers, a server that finishes late | a rerun repairs; tag, signature, catalogue and installation are of one image |
| CLI session | `cmd/cli/login.go`, `config.go`, `auth.go` | `~/.flowbot/config.json` | login, use of the session by publish and register | the file is truncated and rewritten in place, by several logins at once; kills; expiry | the next login repairs the file; a run keeps the session it began with |
| CLI search, choice of the registry URL | `cmd/cli/search.go`, `registry_resolve.go` | none | print a page of the catalogue; ask the server for the URL | | stateless, not modelled |
| Generated ORM | `internal/ent` | the tables, a transaction, the mutation of each builder | setters, adders, clearers and removers of builders; save in and outside of a transaction; eager-loading queries | a mutation keeps the calls in six places; a save is several statements; the second statement of a query sees other rows than the first | a save writes the last word and nothing else; the tables stay valid; only commits show |
| Web rendering, server assembly | `internal/web/templates`, `cmd/server` | none of their own | | | not modelled |

The components interact through the tables: registration creates the
namespaces that RequireNamespace reads and publications hang their plugins on;
publications write what the readers read; a command of the CLI takes a session,
which is a login's answer, to the token endpoint, its token to the Docker registry, and
the session again to the publish route. Every table access goes through the
ORM. `PROJECT.json` lists the places in
the code where this can go wrong ("hazards") with the properties aimed at them.

## Modules

| Module | What it is |
| --- | --- |
| `RateLimit` | the limiter's map, its two critical sections, the clock and restarts |
| `LoginBudget` | what the limiter promises: an allowance per address, refilled when its window is over |
| `RateLimit_proofs` | proofs of `TypeOK` and `TwoWindowBound`, and that it implements `LoginBudget` |
| `Accounts` | register, login and refresh, one action per store call |
| `Accounts_proofs` | the inductive invariants and the theorems from them |
| `Catalog` | an atomic catalogue: a publication is one step |
| `Publish` | `PluginService.Publish` as the code does it, call by call |
| `Publish_proofs` | proofs of its safety properties, and that it implements `Catalog` |
| `Registry` | extends `Publish` with middleware, registrations and readers |
| `Registry_proofs` | proofs of its properties |
| `RegistryToken` | tokens for the Docker registry: scope entries looked up one by one |
| `RegistryToken_proofs` | proofs of its properties |
| `CLISession` | extends `RegistryToken` with logins that rewrite the configuration, and commands that use it |
| `CLISession_proofs` | proofs of its properties, and that it behaves as `RegistryToken` |
| `Distribution` | the CLI commands publish, register and install over tag, signature, catalogue row and directory |
| `Distribution_proofs` | proofs of its properties |
| `EntSchema` | tables, columns, unique keys, foreign keys and edges of the five entities |
| `Ent` | what the generated entities have in common: mutations, transactions, the statements of a save, eager loading |
| `EntNamespace`, `EntPlugin`, `EntPluginVersion`, `EntRefreshToken`, `EntUser` | what each entity adds: its setters, defaults, checks, edges and predicates |
| `Orm` | the client: one writer and one reader over the five entities |
| `Orm_proofs` | proofs of its five properties |
| `MC*` | constants and symmetry for TLC |

### RateLimit

`ipCounts` is the map; `OpenWindow`, `Admit` and `Reject` are the three ways
through the locked section of a request (lines 39-58), `Cleanup` is the locked
section of the goroutine. The counter is raised before it is compared, also
for a refused login. The sleep of five minutes is dropped: the sweep may come
at any moment. `Restart` empties the map. `admitted` is a history variable: it
records when logins were passed on and no action reads it.
`ImplementsLoginBudget` maps the map to an allowance in which expired, deleted
and absent entries are the same.

### Accounts

Every store call is an autocommitted statement and so an action; a request is
at the call named by `pc` and remembers in `user` what the handler's local
variable holds. A store call has an outcome: `ok`, `failed` (no effect) or
`lost` (the effect is there, the caller sees an error); the handlers' reaction
is the code's: every error of `UserCreate` is 409, the error of
`NamespaceCreate` and of the deletes is dropped, others are 500. A refresh token
is 256 random bits and is named after the request that drew it; a client may
present only a token it was handed. The tokens' expiry is compared with a
clock. `Crash` ends all requests in flight and keeps the tables. Passwords
under 8 characters are 400 and over 72 bytes, which bcrypt refuses, 500.
Namespaces without an owner, which predate user accounts, may exist at the
start. `troubled` is a history variable: the requests that have seen one of their
own store calls fail. What an answer promises (`ConflictMeansRegistered`,
`NoReplay`) is promised for the others only, whatever fails elsewhere.
`RegisteredNameIsTaken` says who may be left without a name: a user whose name
nobody has is one of a registration that is about to insert it, or that was cut off by
a crash or has seen a call of its own fail. Nothing makes up for the namespace later.
A user whose name somebody else had first stays without one (auth_user.go:69).

### Publish and Catalog

A publication fetches the image by digest, validates, and runs the calls of
`upsertRecords` one by one. The database is at its default READ COMMITTED
level, so a look-up sees what is committed and the write that follows may meet
something else: `tx[r]` holds the uncommitted rows of a request, which are also
its locks. A write waits while another transaction has the row or the key, then
an insert finds the committed key taken (500) and an update overwrites. An image
is what its digest says and never changes; it is either `Broken` or the fields
of `plugin.yaml` the catalogue keeps. With `Faults` any call may fail, the
README may silently come out empty (`RowsMatchImage` therefore asks of a row the
README of its own image or the empty one, never another's), the answer to the commit may be lost and the
process may die.

`Catalog` is the promise: a version appears or is replaced whole, its plugin is
there with it, and the plugin's description is the one of this publication or
stays. The last disjunct is what the code does when it compares the description
with a row that another publication then changes (service.go:281); the
description of a plugin may therefore differ from its newest version's.

### Registry

`RequireNamespace` is a step of its own, before the publication: `caller` and
`cleared` remember what it decided. `Unauthenticated` stands for every failure
of the bearer token. `RegisterUser` is the namespace insert of a registration
(the rest of it is in `Accounts`); it waits like every other insert for a
pending row of the same name. `Read*` are the statements of the detail page and
of `GET .../versions/:version`. Behind the middleware the branch of
`upsertRecords` that creates an unowned namespace is dead: `NamespacesKeepOwner`
says so, and `Publish` alone exercises it.

A walk is a visitor on the browse page, the page of a namespace or a search who
clicks the button under the cards until there is none. Every page counts and
lists anew; a query narrows the list as a namespace does. Rows are cut out of the
list in any order, because the statements have no ORDER BY: a row may show twice
and another not at all, so only their number is modelled and claimed. Readers
are modelled without store failures, which end a page with an error and change
nothing.

### RegistryToken

`AuthTokenHandler` turns the bearer token into a `caller`, `Anonymous` when it
is missing or invalid, and `IssueJWT` looks the namespaces of the scope entries
up one by one (`Grant`, `Forbid`); one refused entry refuses the request. A scope
string lists its entries in some order, so the model takes the set of them in
any order; the type of an entry is copied and never looked at. Registrations
create namespaces meanwhile and afterwards. A namespace without an owner is refused to
nobody, `Anonymous` included, so `PushTokensOfOwners` says of a token that the names it
allows pushing to are its caller's or nobody's, also after later registrations; that
the design wants it otherwise is said under Runs. `owned` is a history variable. The
lifetime of a token is not modelled: the properties hold for tokens of any age.

### CLISession

The requests of `RegistryToken` are either Docker clients', who ask for what they
like, or one per run of `publish` or `register`. `config` is the file: the session
that can be read from it, and its length. `OpenConfig` truncates it (config.go:69),
`WriteConfig` writes from its beginning; since the file is not opened for
appending and not locked, of two logins at once the one that writes less leaves the
end of the other's file behind its own, and nothing can be parsed. `LoginEnds` is
a failure or a kill, in the middle of the write too. `GetAccessToken` takes the
stored session, or any other session as `--api-key`; `FetchOCIToken` asks for
pulling and pushing in the plugin's namespace; `WithOrWithout` goes on whatever was
answered, as resolveOCIAuth does; `RegisterMetadata` ends at RequireNamespace with
the session read at the beginning. Nothing in the CLI exchanges the stored refresh
token, so `Expire` is final for a session. `latest` and `trusted` are history
variables: the login that ran alone, and the commands that began with the session of
their namespace's owner, which has not expired, with no failed call so far. Build,
push and signature, which take the minutes in between, are one step here and
several in `Distribution`.

### The ORM: EntSchema, Ent, the five entities, Orm

The generated code has one shape for five entities, and the models share it in the
same way. A builder's mutation has the field pointers (`set`), `cleared` fields,
the cleared owner (`uncoupled`), and per edge the `added`, `removed` and `wiped`
children. Every setter, adder, remover, clearer and resetter is a call that changes
some of these as the code does; a save reads them one by one (defaults, checks,
then the statements: insert or update of the row, foreign keys of children that
leave, foreign keys of children that join). Beside it `said` records, for the
properties only, what the caller asked for last. `tx` is a transaction with its own
tables; a builder works on it if it comes from its client. `reader` runs a query:
the nodes in one statement, each eager-loaded edge in another, with the writer's
steps in between.

* Columns under equal rules are merged: `description` stands for `display_name` and
  `logo_url`, `readme_html` for `oci_image_ref` and `manifest_json`.
* The caller follows the services' discipline and rolls back after a failed save
  (`failed`). It has to: a save refused because a child is already connected is
  not refused by the database, and its earlier statements stay in the outer
  transaction, in which its own rollback does nothing.
* Clearing an edge drops what is stored and keeps what this builder adds, so
  SetUserID followed by ClearUser saves the user; `SavedAsSaid` says so.
  ResetUser after ClearUser does not take the clear back. What that should
  mean nobody says, and `vague` excludes it.
* AddVersionIDs and AddRefreshTokenIDs to rows of another owner always fail, for the
  foreign key cannot be NULL in between. The edge from a namespace to its
  plugins uses the column `namespace_plugins` and not `namespace_id`, which the
  program sets; the model has both.
* `ImmutableStays` compares the rows before and after a save, also inside a
  transaction. Between two commits a row may be deleted and made anew under its id
  with other values, which no immutability forbids.
* The edges of a save are taken in the order of the generated code, which for User is
  refresh tokens, then namespaces.
* A query object that is run a second time keeps the predicate on ids of the first
  run and may miss children; `LoadedIsStored` then demands a subset only.
* Much of this the program does not call today: services and store create and update rows
  one by one. Bulk creates, adders and removers of edges and queries run twice are
  modelled because they are part of the generated API, and its properties are about
  every caller of it.
* Not modelled: numeric adds that no save reads, hooks and interceptors (the
  program registers none), GroupBy, Aggregate and Clone, the readers of old values,
  and First, Only, Exist and Count, which are queries of the same rows.

### Distribution

One version of one plugin. `tag`, `sig` and `images` are the OCI registry's,
`row` is the digest in the catalogue, `dest` the installation directory. A run
of a command goes through its steps by `pc`; every remote call may fail before
or after it has its effect (`Outcomes`), and a run may be killed at any step
(`Fail`). `Head` takes any error for an absent image, as the code does.
`PushArtifact` stamps an image with the time, so an image is named after the run
that built it; two equal builds within one second would be one image, which is
left out and only makes the properties easier. `Serve` is the server's part
(`PluginService.Publish`, one step by the refinement of `Catalog`), which goes on
when the client has ended. `Collect` is the garbage collection that
`docs/zot-config.json` switches on. The installation writes a map's files in any
order over what is there already. `alone` and `calm` are history variables:
which run started undisturbed, and whether publishers have overlapped or a HEAD
has failed so far. The session is `CLISession`'s; references and the choice of the
registry URL are not modelled.

## Runs

| Run | Config | What it shows |
| --- | --- | --- |
| `rate_limit` | `RateLimit.cfg` | two addresses, limit 2, window 1, six instants, one restart: the table implements `LoginBudget`; 2·limit+1 logins never fit one window length |
| `accounts` | `Accounts.cfg` | three requests, two addresses with one local part and one with none, failing and lost calls, crashes, expiry: all that is claimed of accounts |
| `accounts_rotation` | `AccountsRotation.cfg` | violated: one refresh token buys one session |
| `orm` | `Orm.cfg` | builder calls on five entities in any order, saves in and outside of transactions, two builders, saves tried again, writes between the statements of a query |
| `publish` | `Publish.cfg` | three publications of two versions, one description shared, two names, with failing calls, lost commit answers and crashes: `Publish` implements `Catalog` |
| `publish_live` | `PublishLive.cfg` | every request is answered |
| `publish_doc` | `PublishDoc.cfg` | violated: a valid publication succeeds when nothing fails |
| `registry` | `Registry.cfg` | two publishers, a reader who opens a page, asks for a version or walks through a list, two users, two names, with failures |
| `registry_token` | `RegistryToken.cfg` | two users and two names; one Docker client with any set of entries, or one command and three logins |
| `distribution` | `Distribution.cfg` | three runs in any overlap, with failures and kills: an undisturbed successful run repairs; in a calm history the tag never moves and row and installation agree with it |
| `distribution_delayed` | `DistributionDelayed.cfg` | violated: publish is safe to re-run |
| `distribution_layers` | `DistributionLayers.cfg` | violated: a successful installation has every file |

The violated runs each state a sentence of the documents or of a comment in the
code; `PROJECT.json` quotes it under "findings". `distribution_delayed` and the
property `RunAloneRepairs` of `distribution` go together: a rerun repairs
everything once the server has nothing left to do, and the violated run shows
that this condition is needed.

Disagreements with the documents that have no run of their own, because they
follow from one guard: the login limit counts in fixed windows, not in any minute
(what does hold is `TwoWindowBound`); a registration whose name is taken, or whose
insert of it fails, is answered 201 without a namespace (`RegisteredNameIsTaken` is what
holds); a failed insert is answered 409 like a conflict (`ConflictMeansRegistered` is
what holds of a request whose own calls succeed); a token to push to a namespace
without an owner is granted to anybody, also to a caller without an account, because
service.go:106 compares owners only if there is one, while the design of user
authentication (`2026-06-06-user-authentication-design.md`) grants it only if
`namespace.user_id` is the caller (lines 117-119) and says that "Unauthenticated
callers cannot obtain push-scoped tokens" (line 368), as the comment on service.go:105
does (`PushTokensOfOwners` is what holds; to publish to such a namespace is refused, as
line 51 says, by RequireNamespace); `publish` reuses whatever image has the tag, without the
comparison of digests that the CLI design describes.

### Bounds

* Requests: a race here needs two requests that touch the same row; a third
  (publications) lets one commit between the look-up and the write of another
  and still leaves one to wait, and (accounts) lets a session be registered and
  its token be presented twice. More account requests are left to the proofs.
* `MaxTime` and `RefreshTTL` (Accounts): one tick is before, two after the
  expiry of a token.
* `MaxTime`, `MaxCount`, `MaxBoots` (RateLimit): six instants hold three windows
  of length 1, so that 2·2+1 logins can span the seam of two and reach a third;
  `MaxCount` is one above the limit, the refused count.
* Pages: limits 0, 2 and 3 and offsets -1 and 1 about a default of 1 and a maximum of
  2 hold every branch of parsePagination; two plugins make lists that end within
  a page, with a page, and before it.
* Logins: two that overlap and a third that runs alone afterwards; files of two
  lengths. `MCStages` keeps Docker clients and logins apart, which share no state;
  the proofs have them together.
* ORM: two ids per table, at most two builders in a bulk (`BulkSize`); `MCStarts` spends the steps in five ways (a long sequence
  of calls on one builder; a save that is tried again; two builders; a write next
  to a query; a deletion next to a query run twice), on a filled database, and the
  first of them also on one without users and namespaces.
* Scope entries: every set of them over two names; requests share nothing but
  the names, which no request writes, so one request is enough.
* Runs of the CLI: two publishers and an installation, or three publishers; the
  third comes after a disturbance of the other two. Files: `plugin.yaml` and one
  more.
* Passwords: one too short, one too long, two acceptable.
  Digests: two builds of one version with different descriptions, one of
  another version with the description of the first, and a broken one.
* Symmetry: requests (and users and addresses where they differ in nothing)
  are interchangeable. No symmetry is used in the liveness run.
* `CHECK_DEADLOCK FALSE` where the requests of an instance are used up and the
  system rests; `rate_limit` runs with the deadlock check.

### Fairness

`publish_live` assumes weak fairness of the steps of a request that has been
received (`WF_vars(Work(r))`): its goroutine is scheduled, the database runs
its statements, and a lock is granted once its holder has ended. Failures,
crashes and the arrival of requests are not fair. Weak fairness is enough
because a request waits only for locks, the locks are taken in one order
(namespace, plugin, version), and each transaction holds them only for a
bounded number of its own steps.

## Proofs

**RateLimit.** `TypeCorrect` for every set of addresses, limit, window and
bound. `TwoWindowSafety` proves `TwoWindowBound`, from the assumption that limit
and window are positive. The bound is not inductive: the
inductive invariant says in addition that the latest logins of an address, as
many as its entry has used, fall into the entry's window, that all earlier ones
lie before it, and that all but the latest `MaxRequests` of those lie more than a
whole window before it. A new window then keeps a full window between the fifth
login and the first (for limit 2), and an entry that was swept or has expired
says as much about the past as a live one. `BudgetKept` is the refinement: it
computes what each entry leaves to its address (`Left`) before and after every critical
section; nothing beyond the types is needed, since an entry that a sweep deletes
leaves what no entry leaves.

**Accounts.** `Inductive` proves `[]IInv` for every number of requests, every
assignment of local parts, and every set of outcomes. The safety
properties are not inductive: they speak of answers, and what makes an answer
right is checked steps earlier. `IInv` says where a request stands and what it
has checked by then (`LocalOK`, `AuthOK`), that a stored token belongs to an
answered or failed request that had authenticated its user (`RowOK`), that a
token in an exchange had been handed out (`PresOK`), that a token handed out and
never presented is stored (`SessionOK`), and that one registration per address
got past the insert (`OneRegistered`). There is a lemma per action;
all of them go through frame lemmas (`OthersSafe`, `RowsSafe`,
`SessionsSafe`) that say which parts of the invariant a step of another request
cannot disturb. From it: `OwnerSafety`, `WinnerSafety`, `SessionSafety`,
`AuthenticationSafety`, and the action property `OwnerStability`.
`ReplaySafety`, `ConflictSafety` and `NameSafety` prove `NoReplay`,
`ConflictMeansRegistered` and `RegisteredNameIsTaken` for every mix of failures,
from two further invariants. `FInv`, for the first two: what the untroubled requests
have established by the step they are at (the row they find or insert, the deletion of
the token they exchange) stays so, whatever the others do. `NInv`: every user goes back
to a registration that knows it or has seen a call of its own fail (`UserMade`), and one that
knows its user and is past the namespace without trouble has found or made it (`NamedOK`).

**Publish.** `Inductive` proves `[]PInv` for every number of requests and all sets of
namespaces, names, versions and images. A look-up at READ COMMITTED takes no lock, so
little of what a request has read is still true when it writes; what the invariant
says of it (`RequestOK`) is only what can be relied on: what was found stays found,
because no statement deletes a row; what the request itself wrote is its own until the
transaction ends (`LocksApart`); the insert of a version under a key is committed at most
once (`CreatedOnce`). With that `CommitFacts` says what a commit does to the tables,
and `CommitPublishes` that this is one publication of `Catalog`. From it:
`PluginSafety`, `RowSafety`, `CreatedSafety`, `DurableSafety`, and `Atomicity`, the
refinement. The abstract specification is safety only, so no fairness is involved.
`NoDeadlock` is the safety side of `EveryPublishAnswered`: a request that holds the lock
on a row is past the step at which others wait for it (`HolderIsPast`), so of those
under way one that is furthest waits for nobody. `ServerNoDeadlock` says it of `Registry`.

**Registry.** `RInv` adds the middleware and the readers. That the owner is checked
early does no harm because a cleared caller owns the namespace for good (`CallerOK`):
registrations take absent names, publications create no namespace that has been
cleared, and nothing else writes owners. That readers use one statement per table does no
harm because tables only grow (`Grows`): a page that found the plugin finds a version
(`PageOK`). The walk is the least obvious: after each page either as many cards have
been shown as the total counted before that page, or the page was full
(`WalkOK`); count and list disagree only upwards. The lengths of lists are
cardinalities, so the proofs assume that namespaces and names are finitely many.

**RegistryToken.** `PushSafety`, `ExistenceSafety` and `OwnerSafety` for every
number of requests, users and names. The invariant says that a granted entry
names a namespace that exists and, if it allows pushing, that the name is the
caller's or has no owner (`GrantsHold`), and that an owner's request has only
own names left to look up (`OwnersKeep`). It is stable because a registration
takes absent names only.

**CLISession.** `CommandsAreClients` proves that a behaviour of `CLISession` is one
of `RegistryToken`: a command asks for a token as some Docker client could, and no
other step of it touches the server's state. The theorems about tokens therefore
hold with the command line in place. `RepairSafety` and `RunSafety` prove
`LoginRepairs` and `RunKeepsSession` for any number of logins, commands and
clients, and files of any length. The invariant `CInv` says that the login that runs
alone is the only one that may touch the file, which is empty when it comes to write
(`LatestWrites`), that requests of Docker clients are no commands' (`Apart`), and that
a trusted command's session and its namespace have one user and that its token
request was the owner's (`TrustedOwns`). The last is stable because names with an
owner keep it.

**Orm.** All five properties, for every valid database to begin with, every set of
values and ids, and every bound on calls, saves and queries.

* `CommitSafety` proves `OnlyCommitsShow`. What a save does to the rows is immaterial
  to it: what counts is where `Store` puts them and what `Saved` answers, so one lemma
  about those two serves creates, updates and deletions of all five entities. The
  invariant `ClientOK` (theorem `ClientsApart`) says that a builder that works outside
  of transactions and an open transaction are never there together: without it a
  builder opened before a transaction could write past it.
* `DataAlwaysOK` proves `[]DataOK`, from which follow `RowsSafety` (`StoredRowsValid`),
  `SavesAsSaid` (`SavedAsSaid`) and `ImmutableSafety` (`ImmutableStays`). Valid tables
  alone are not inductive: the rows an open transaction would commit must be valid too
  unless it was aborted (`TxValid`), and a save writes what a mutation holds, so the
  mutation must agree with the caller's last words at every call (`BuilderAgrees`):
  a value is in its field pointer, a clear is among the cleared fields and left no
  pointer, a child said "in" is among the added ones, and one removed and then
  added is in both places, which is why the order of the statements matters. The
  part on statements (`UnlinkAllEffect`, `LinkAllEffect`) says
  which keys each of them may change; `InsertedEffect` and `ChangedEffect` put
  them together to a save, which the ten creates and updates of the entities specialise.
  One save can do half of its statements and then be refused: `OutcomeOK` and `Keeps`
  hold of what it leaves all the same.
* `LoadsAsStored` proves `LoadedIsStored` from `ReaderOK`: whatever was selected, the
  nodes kept the foreign keys that the edges still to load go by, as they were
  stored when the nodes were read.

They assume of the database to begin with what PostgreSQL and the validators see to
(`StartAssumption`), that ids are numbers, and that the sentinels are apart from values.

**Distribution.** `Inductive` proves `[]DInv` for any number of runs and any set of files,
and from it all properties of the run `distribution`. `CalmOK` says what a calm history
keeps together: one publisher at a time; who builds has found no tag, so a push sets
the first one; every digest that a run or the server holds is the tag's, so a
notification that the server finishes late does no harm. `AloneOK` follows the run
that has the registry to itself: no other publisher acts and nothing of others is
left at the server, so tag, signature and row are its own as soon as it has set them;
this, and not calm, is what `RunAloneRepairs` needs.

The assumptions about constants are the `ASSUME`s of the modules: sentinels are
not ordinary values, bounds are naturals.

Only model-checked: liveness (`EveryPublishAnswered`), which is out of the prover's
reach together with `ENABLED` and induction over recursive definitions. The four runs that
expect a violation refute what they check and have no theorem.

## Not modelled, and the plan

Not modelled at all: HTML rendering (functions from records to text, most of them
generated), server assembly, build scripts, cryptography (hashes and signatures
are ideal), the JWT library. The refresh-token clean-up of the store has no caller.
`search` prints one page; the scaffold of `init` writes constant files once. The
choice of the registry URL is one request with a fallback: only the flag
`--registry` keeps it from asking, although the comment on it
(registry_resolve.go:54) also speaks of the environment variable.

What the plan has left: parsing of references as operators against a reference
definition, if the CLI's parsers grow.
