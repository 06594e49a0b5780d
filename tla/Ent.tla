-------------------------------- MODULE Ent --------------------------------
(***************************************************************************)
(* What the five generated entities of internal/ent have in common: the    *)
(* builder with its mutation, transactions, the statements of a save, and  *)
(* the two steps of an eager-loading query.  Modules EntNamespace,         *)
(* EntPlugin, EntPluginVersion, EntRefreshToken and EntUser say what each  *)
(* entity adds.                                                            *)
(*                                                                         *)
(* One goroutine writes through builders, alone or in a transaction; one   *)
(* reads.  The program registers no hooks and no interceptors, so a save   *)
(* runs its builder at once.                                               *)
(***************************************************************************)
EXTENDS EntSchema, Sequences

CONSTANTS
  Ids,      \* the ids callers use
  Starts,   \* the contents of the database to begin with, and the bounds:
            \* transactions, builders, calls on them, saves, queries
  WordSets, TimeSets, IdSets,  \* what comparisons of columns select by
  Unset,    \* a nil pointer in a mutation
  Zero      \* the 0 of a column that was not selected

\* A database to begin with has rows of the tables' columns, under ids from
\* the tables' sequences, that PostgreSQL and the validators have let in.
ASSUME StartAssumption ==
  \A start \in Starts :
    /\ start.budget \in [txs : Nat, builders : Nat, calls : Nat, saves : Nat, queries : Nat]
    /\ RowsValid(start.tables) /\ Consistent(start.tables)
    /\ \A e \in Entities : IsFiniteSet(DOMAIN start.tables[e])
ASSUME IdAssumption == Ids \subseteq Nat
ASSUME UnsetAssumption == Unset \notin Words \cup Times \cup Nat \cup {Null}

VARIABLES
  tables,   \* the committed tables
  serial,   \* entity -> the last id given
  tx,       \* the transaction
  builder,  \* the builder the writer calls
  answer,   \* what the last save answered
  reader,   \* the query of the reader
  budget    \* what is left of the bounds

vars == <<tables, serial, tx, builder, answer, reader, budget>>

\* A mutation, as newNamespaceMutation makes it.  set holds the field
\* pointers, the owner's among them; uncoupled is cleareduser or
\* clearedplugin; added, removed and wiped belong to the edges with many
\* children.
NewMutation(e) ==
  [set |-> [c \in Columns[e] |-> Unset], cleared |-> {}, uncoupled |-> FALSE,
   added |-> [g \in EdgesOf(e) |-> {}], removed |-> [g \in EdgesOf(e) |-> {}],
   wiped |-> {}, id |-> Unset]

\* What the caller has said, for the properties: the last word on each column
\* and on each child, and the edges it wanted emptied of what is stored.
\* vague: ResetUser after ClearUser; clearedFields keeps the clear.
NothingSaid(e) ==
  [column |-> [c \in Columns[e] |-> Unset],
   child |-> [g \in EdgesOf(e) |-> [i \in Ids |-> "unsaid"]],
   emptied |-> {}, id |-> Unset, vague |-> FALSE]

NoBuilder == [kind |-> "none"]
NoTx == [state |-> "none"]
Idle == [step |-> "idle"]

Init ==
  /\ \E start \in Starts : tables = start.tables /\ budget = start.budget
  /\ serial = [e \in Entities |-> Cardinality(DOMAIN tables[e])]
  /\ tx = NoTx
  /\ builder = NoBuilder
  /\ answer = "none"
  /\ reader = Idle

-----------------------------------------------------------------------------
\* Transactions.

InTx == tx.state \in {"open", "aborted"}

BeginTx ==
  /\ tx = NoTx /\ builder = NoBuilder /\ budget.txs > 0
  /\ tx' = [state |-> "open", work |-> tables, failed |-> FALSE]
  /\ budget' = [budget EXCEPT !.txs = @ - 1]
  /\ UNCHANGED <<tables, serial, builder, answer, reader>>

\* The services return at the first error of a call and roll back, so they
\* never commit what a failed save has left in the transaction.
CommitTx ==
  /\ tx.state = "open" /\ ~tx.failed
  /\ tables' = tx.work
  /\ tx' = [tx EXCEPT !.state = "ended"]
  /\ UNCHANGED <<serial, builder, answer, reader, budget>>

RollbackTx ==
  /\ InTx
  /\ tx' = [tx EXCEPT !.state = "ended"]
  /\ UNCHANGED <<tables, serial, builder, answer, reader, budget>>

-----------------------------------------------------------------------------
\* Calls on a builder.

\* Predicates: none; the comparisons of a column (EQ, NEQ, In, GT, Contains,
\* IsNil, ...), each a set of values; HasPlugins, and HasPluginsWith a
\* predicate on the child; HasUser.
Everything == [kind |-> "all"]
Compared(columns, sets) ==
  {[kind |-> "in", column |-> c, values |-> vs] : c \in columns, vs \in sets}
Has(edges, predicates) ==
  {[kind |-> "has", edge |-> g, with |-> p] : g \in edges, p \in predicates}
HasOwner(column) ==
  {[kind |-> "owned", column |-> column]}

\* A builder works on the transaction whose client it comes from, if any.
Open(kind, e, where, id) ==
  /\ budget.builders > 0 /\ tx.state # "ended"
  /\ builder' = [kind |-> kind, entity |-> e, where |-> where, id |-> id,
                 inTx |-> InTx, mutations |-> <<NewMutation(e)>>,
                 said |-> <<NothingSaid(e)>>]
  /\ budget' = [budget EXCEPT !.builders = @ - 1]
  /\ UNCHANGED <<tables, serial, tx, answer, reader>>

Calling(e) ==
  /\ builder # NoBuilder /\ builder.entity = e /\ budget.calls > 0
  /\ builder.kind \notin {"Delete", "DeleteOne"}

Top == Len(builder.mutations)
M == builder.mutations[Top]
S == builder.said[Top]

Call(m, s) ==
  /\ builder' = [builder EXCEPT !.mutations[Top] = m, !.said[Top] = s]
  /\ budget' = [budget EXCEPT !.calls = @ - 1]
  /\ UNCHANGED <<tables, serial, tx, answer, reader>>

\* The builders of an entity's client.
OpenAny(e, predicates) ==
  \/ \E kind \in {"Create", "CreateBulk"} : Open(kind, e, Everything, Unset)
  \/ \E kind \in {"Update", "Delete"}, p \in predicates : Open(kind, e, p, Unset)
  \/ \E kind \in {"UpdateOne", "DeleteOne"}, id \in Ids : Open(kind, e, Everything, id)

\* The second builder of a CreateBulk: a new one, or one that MapCreateBulk has
\* made the same calls on.  A CreateBulk has at most BulkSize builders here.
BulkSize == 2

AnotherBuilder(e) ==
  /\ Calling(e) /\ builder.kind = "CreateBulk" /\ Top < BulkSize
  /\ \E next \in {<<NewMutation(e), NothingSaid(e)>>, <<M, S>>} :
       builder' = [builder EXCEPT !.mutations = Append(@, next[1]),
                                  !.said = Append(@, next[2])]
  /\ UNCHANGED <<tables, serial, tx, answer, reader, budget>>

\* SetID, of builders that create
SetID(i) ==
  builder.kind \in {"Create", "CreateBulk"} /\ Call([M EXCEPT !.id = i], [S EXCEPT !.id = i])

SetField(f, v) ==
  Call([M EXCEPT !.set[f] = v], [S EXCEPT !.column[f] = v])

ResetField(f) ==
  Call([M EXCEPT !.set[f] = Unset], [S EXCEPT !.column[f] = Unset])

\* ClearUserID
ClearField(f) ==
  Call([M EXCEPT !.set[f] = Unset, !.cleared = @ \cup {f}],
       [S EXCEPT !.column[f] = Null])

\* ResetUserID where the column is optional
ResetOptionalField(f) ==
  Call([M EXCEPT !.set[f] = Unset, !.cleared = @ \ {f}],
       [S EXCEPT !.column[f] = Unset])

\* ClearUser: drops the stored owner.  An owner set through this builder,
\* before or after, stays.
ClearOwner(f) ==
  Call([M EXCEPT !.uncoupled = TRUE, !.cleared = @ \cup {f}],
       [S EXCEPT !.emptied = @ \cup {f}])

\* ResetUser
ResetOwner(f) ==
  Call([M EXCEPT !.set[f] = Unset, !.uncoupled = FALSE],
       [S EXCEPT !.column[f] = Unset, !.emptied = @ \ {f},
                 !.vague = @ \/ (<<builder.entity, f>> \in Nullable /\ f \in M.cleared)])

\* AddPluginIDs
AddChild(g, i) ==
  Call([M EXCEPT !.added[g] = @ \cup {i}], [S EXCEPT !.child[g][i] = "in"])

\* Bug for the checks: the id stays among the added ones.
WithRemovedOnly(m, g, i) == [m EXCEPT !.removed[g] = @ \cup {i}]

WithRemoved(m, g, i) ==
  [m EXCEPT !.added[g] = @ \ {i}, !.removed[g] = @ \cup {i}]

\* RemovePluginIDs
RemoveChild(g, i) == Call(WithRemoved(M, g, i), [S EXCEPT !.child[g][i] = "out"])

\* ClearPlugins: the stored children go; those added through this builder,
\* before or after, stay.
ClearChildren(g) ==
  Call([M EXCEPT !.wiped = @ \cup {g}], [S EXCEPT !.emptied = @ \cup {g}])

ResetChildren(g) ==
  Call([M EXCEPT !.added[g] = {}, !.removed[g] = {}, !.wiped = @ \ {g}],
       [S EXCEPT !.child[g] = [i \in Ids |-> "unsaid"], !.emptied = @ \ {g}])

ChildrenCall(g) ==
  \/ \E i \in Ids : AddChild(g, i) \/ RemoveChild(g, i)
  \/ ClearChildren(g)
  \/ ResetChildren(g)

FieldCall(f, values) == ResetField(f) \/ \E v \in values : SetField(f, v)

OwnerCall(f) == ClearOwner(f) \/ ResetOwner(f)

-----------------------------------------------------------------------------
\* What a save does with a mutation.

IsSet(m, f) == m.set[f] # Unset
Given(m, fs) == \A f \in fs : IsSet(m, f)
NotEmpty(m, fs) == \A f \in fs : m.set[f] # Blank
Or(v, default) == IF v = Unset THEN default ELSE v

\* The owner column after an update: an id that was set wins over a clear.
OwnerAfter(m, f, cleared, old) ==
  IF IsSet(m, f) THEN m.set[f] ELSE IF cleared THEN Null ELSE old

\* UserCleared() && len(UserIDs) > 0
ClearsAndSets(m, f) == m.uncoupled /\ IsSet(m, f)

\* The outcome of a save's statements so far.  "error": PostgreSQL refused
\* one.  "refused": sqlgraph did, after statements that had succeeded.
Outcome(status, t) == [status |-> status, t |-> t]
Execute(t) == Outcome(IF Consistent(t) THEN "ok" ELSE "error", t)

\* UPDATE child SET fk = NULL WHERE fk IN parents [AND id IN children]
Unlink(r, m, g, parents) ==
  LET E == Edge[g]
      stored == UNION {Children(r.t, g, p) : p \in parents}
      ids == IF g \in m.wiped THEN stored ELSE stored \cap m.removed[g]
  IN IF r.status # "ok" \/ ids = {} THEN r
     ELSE Execute(PutColumn(r.t, E.child, ids, E.column, Null))

\* UPDATE child SET fk = parent WHERE id IN children AND fk IS NULL; fewer
\* rows than children: "one of ... is already connected".
Link(r, m, g, parents) ==
  LET E == Edge[g]
      free == m.added[g] \cap Children(r.t, g, Null)
  IN IF r.status # "ok" \/ m.added[g] = {} \/ parents = {} THEN r
     ELSE IF \E p, q \in parents : p # q THEN Outcome("refused", r.t)
     ELSE LET done == Execute(PutColumn(r.t, E.child, free, E.column,
                                        CHOOSE p \in parents : TRUE))
          IN IF done.status = "ok" /\ free # m.added[g]
             THEN Outcome("refused", done.t) ELSE done

\* The edges in the order the builders name them.
UnlinkAll(r, m, e, parents) ==
  CASE e = "Namespace" -> Unlink(r, m, "plugins", parents)
    [] e = "Plugin" -> Unlink(r, m, "versions", parents)
    [] e = "User" -> Unlink(Unlink(r, m, "refresh_tokens", parents), m, "namespaces", parents)
    [] OTHER -> r

LinkAll(r, m, e, parents) ==
  CASE e = "Namespace" -> Link(r, m, "plugins", parents)
    [] e = "Plugin" -> Link(r, m, "versions", parents)
    [] e = "User" -> Link(Link(r, m, "refresh_tokens", parents), m, "namespaces", parents)
    [] OTHER -> r

Target == IF builder.inTx THEN tx.work ELSE tables
CanExecute == builder.inTx => tx.state = "open"

\* Bug for the checks: the Commit of the transaction inside a save commits the
\* one around it.
StoreThrough(r) ==
  /\ tables' = IF r.status = "ok" THEN r.t ELSE tables
  /\ IF builder.inTx
     THEN tx' = [tx EXCEPT !.work = r.t, !.failed = r.status # "ok"] ELSE UNCHANGED tx

\* A save runs its statements in a transaction of its own.  In a transaction
\* that one is txDriver: its Commit and its Rollback do nothing, so what a
\* refused save has done so far stays in the transaction.
Store(r) ==
  IF builder.inTx
  THEN /\ tx' = [tx EXCEPT !.state = IF r.status = "error" THEN "aborted" ELSE "open",
                           !.work = r.t, !.failed = @ \/ r.status # "ok"]
       /\ UNCHANGED tables
  ELSE /\ tables' = IF r.status = "ok" THEN r.t ELSE tables
       /\ UNCHANGED tx

\* The answer of a save, and the mutations it leaves in the builder.
Saved(result, mutations) ==
  /\ answer' = result
  /\ builder' = [builder EXCEPT !.mutations = mutations]
  /\ budget' = [budget EXCEPT !.saves = @ - 1]
  /\ UNCHANGED reader

Saving(kinds, e) ==
  /\ builder # NoBuilder /\ builder.kind \in kinds /\ builder.entity = e
  /\ budget.saves > 0

\* A save that ends before it reaches the database, or finds its transaction
\* ended.
SaveFails(result, mutations) ==
  /\ Saved(result, mutations)
  /\ tx' = IF InTx THEN [tx EXCEPT !.failed = TRUE] ELSE tx
  /\ UNCHANGED <<tables, serial>>

\* The ids of new rows come from the table's sequence, or from SetID, or from
\* an earlier save of the same builder.
Drawn(ms) == {i \in DOMAIN ms : ms[i].id = Unset}
NewIds(e, ms) == [i \in DOMAIN ms |-> Or(ms[i].id, serial[e] + i)]

\* INSERT of the rows, then the edges of each: of the one builder of a Create,
\* of the one or two of a CreateBulk.
Inserted(e, ms, rows) ==
  LET ids == NewIds(e, ms)
      new == {ids[i] : i \in DOMAIN ms}
      at(id) == CHOOSE i \in DOMAIN ms : ids[i] = id
      full == [Target EXCEPT ![e] =
                 [id \in DOMAIN Target[e] \cup new |->
                    IF id \in new THEN rows[at(id)] ELSE Target[e][id]]]
      fresh == /\ \A i, j \in DOMAIN ms : ids[i] = ids[j] => i = j
               /\ new \cap DOMAIN Target[e] = {}
      inserted == IF fresh THEN Execute(full) ELSE Outcome("error", Target)
      first == LinkAll(inserted, ms[1], e, {ids[1]})
  IN IF Len(ms) = 1 THEN first ELSE LinkAll(first, ms[2], e, {ids[2]})

\* Create and CreateBulk, with the mutations after the defaults, the verdict
\* of their checks, and their rows.  The ids of a CreateBulk must come from the
\* same source: "inconsistent id values for batch insert".
SaveNew(e, ms, valid, rows) ==
  LET r == Inserted(e, ms, rows)
  IN IF ~valid THEN SaveFails("invalid", ms)
     ELSE IF ~CanExecute \/ Drawn(ms) \notin {{}, DOMAIN ms} THEN SaveFails("failed", ms)
     ELSE /\ Store(r)
          /\ serial' = [serial EXCEPT ![e] = @ + Cardinality(Drawn(ms))]
          /\ IF r.status = "ok"
             THEN Saved("ok", [i \in DOMAIN ms |-> [ms[i] EXCEPT !.id = NewIds(e, ms)[i]]])
             ELSE Saved("failed", ms)

Compares(p, row) == p = Everything \/ row[p.column] \in p.values

Selects(p, t, e, id) ==
  CASE p.kind \in {"all", "in"} -> Compares(p, t[e][id])
    [] p.kind = "owned" -> t[e][id][p.column] # Null
    [] p.kind = "has" -> \E k \in Children(t, p.edge, id) :
                           Compares(p.with, t[Edge[p.edge].child][k])

Matching(p, t, e) == {id \in DOMAIN t[e] : Selects(p, t, e, id)}

\* The rows a builder is about: those its predicate selects, or the one it
\* names.
Chosen(e) ==
  IF builder.kind \in {"Update", "Delete"} THEN Matching(builder.where, Target, e)
                                          ELSE {builder.id} \cap DOMAIN Target[e]

\* UPDATE of the rows, then the edges, first what is cleared, then what is
\* added.
Changed(e, m, rows) ==
  LET written == Execute([Target EXCEPT ![e] =
        [id \in DOMAIN @ |-> IF id \in Chosen(e) THEN rows[id] ELSE @[id]]])
  IN LinkAll(UnlinkAll(written, m, e, Chosen(e)), m, e, Chosen(e))

\* Update and UpdateOne, with the mutation after the defaults, the verdict of
\* its check, and what each row would become.  Update may find no row;
\* UpdateOne reports a row that is not there.
SaveChanged(e, m, valid, rows) ==
  LET r == Changed(e, m, rows)
      missing == builder.kind = "UpdateOne" /\ Chosen(e) = {}
  IN IF ~valid THEN SaveFails("invalid", <<m>>)
     ELSE IF ~CanExecute \/ missing THEN SaveFails("failed", <<m>>)
     ELSE /\ Store(r)
          /\ Saved(IF r.status = "ok" THEN "ok" ELSE "failed", <<m>>)
          /\ UNCHANGED serial

\* Delete and DeleteOne, which reports a row that is not there.
SaveDelete(e) ==
  LET r == Execute(DeleteRows(Target, e, Chosen(e)))
      missing == builder.kind = "DeleteOne" /\ Chosen(e) = {}
  IN /\ Saving({"Delete", "DeleteOne"}, e)
     /\ IF ~CanExecute \/ missing THEN SaveFails("failed", builder.mutations)
        ELSE /\ Store(r)
             /\ Saved(IF r.status = "ok" THEN "ok" ELSE "failed", builder.mutations)
             /\ UNCHANGED serial

-----------------------------------------------------------------------------
\* The reader.  An eager-loading query is one statement for the nodes and one
\* for each edge, on what is committed by then.  narrowed: the ids that earlier
\* runs of the same query have asked for; the predicates of an edge's query
\* stay on it.  stored, for the properties only: the rows behind the nodes.

AllColumns == {"*"}

\* Where, Select, WithX in the order sqlAll loads them, and the Select of the
\* queries of the edges.
OpenQuery(e, where, fields, with, childFields) ==
  /\ reader = Idle /\ budget.queries > 0
  /\ reader' = [step |-> "query", entity |-> e, where |-> where, fields |-> fields,
                with |-> with, todo |-> <<>>, childFields |-> childFields,
                narrowed |-> [i \in DOMAIN with |-> Unset],
                nodes |-> <<>>, stored |-> <<>>,
                loaded |-> [i \in DOMAIN with |-> <<>>]]
  /\ budget' = [budget EXCEPT !.queries = @ - 1]
  /\ UNCHANGED <<tables, serial, tx, builder, answer>>

\* A row as assignValues fills the struct: a column that was not selected
\* keeps its zero value, nil for a pointer.
ZeroOf(e, c) == IF <<e, c>> \in Nullable THEN Null ELSE Zero

Node(e, row, columns) ==
  [c \in Columns[e] |-> IF columns = AllColumns \/ c \in columns
                        THEN row[c] ELSE ZeroOf(e, c)]

\* AddColumnOnce, AppendFieldOnce
WithColumn(columns, c) == IF columns = AllColumns THEN columns ELSE columns \cup {c}

Reads(next) ==
  /\ reader' = next
  /\ UNCHANGED <<tables, serial, tx, builder, answer, budget>>

\* The statement for the nodes; without nodes, no further statement.
QueryNodes(e, columns) ==
  LET ids == Matching(reader.where, tables, e)
      todo == IF ids = {} THEN <<>> ELSE [i \in DOMAIN reader.with |-> i]
  IN /\ reader.step = "query" /\ reader.entity = e
     /\ Reads([reader EXCEPT
          !.step = IF todo = <<>> THEN "done" ELSE "load", !.todo = todo,
          !.nodes = [id \in ids |-> Node(e, tables[e][id], columns)],
          !.stored = [id \in ids |-> tables[e][id]],
          !.loaded = [i \in DOMAIN reader.with |-> <<>>]])

Loading(e, edge) ==
  /\ reader.step = "load" /\ reader.entity = e
  /\ reader.with[Head(reader.todo)] = edge

Asked(i, ids) ==
  IF reader.narrowed[i] = Unset THEN ids ELSE ids \cap reader.narrowed[i]

Loaded(i, ids, nodes) ==
  Reads([reader EXCEPT
    !.step = IF Len(reader.todo) = 1 THEN "done" ELSE "load", !.todo = Tail(@),
    !.loaded[i] = nodes,
    !.narrowed[i] = IF ids = {} THEN @ ELSE Asked(i, ids)])

\* loadPlugins, loadVersions, ...: the children of the nodes, told apart by
\* the foreign key that was read.
LoadChildren(g, columns) ==
  LET E == Edge[g]
      i == Head(reader.todo)
      parents == DOMAIN reader.nodes
      found == UNION {Children(tables, g, p) : p \in Asked(i, parents)}
      key(k) == Node(E.child, tables[E.child][k], columns)[E.column]
  IN /\ Loading(E.parent, g)
     /\ IF \E k \in found : key(k) \notin parents
        THEN Reads([reader EXCEPT !.step = "failed"])
        ELSE Loaded(i, parents, [p \in parents |-> {k \in found : key(k) = p}])

\* loadUser, loadPlugin: the owners of the nodes, by id.
LoadOwner(e, f, owner) ==
  LET i == Head(reader.todo)
      nodes == reader.nodes
      wanted == {nodes[id][f] : id \in DOMAIN nodes} \ {Null}
      found == Asked(i, wanted) \cap DOMAIN tables[owner]
  IN /\ Loading(e, f)
     /\ Loaded(i, wanted, [id \in DOMAIN nodes |-> {nodes[id][f]} \cap found])

\* The same query object is run again.
RunAgain ==
  /\ reader.step = "done" /\ budget.queries > 0
  /\ reader' = [reader EXCEPT !.step = "query"]
  /\ budget' = [budget EXCEPT !.queries = @ - 1]
  /\ UNCHANGED <<tables, serial, tx, builder, answer>>
=============================================================================
