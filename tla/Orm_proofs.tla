----------------------------- MODULE Orm_proofs -----------------------------
(***************************************************************************)
(* What the generated client guarantees, for every content of the          *)
(* database, every set of values and every bound.                          *)
(*                                                                         *)
(* Part 1, the tables change by commits only.  What a save does to the     *)
(* rows is immaterial there: what counts is where it puts them (Store) and *)
(* what it answers (Saved).  ClientOK is inductive: a builder that works   *)
(* outside of transactions and an open transaction are never there at the  *)
(* same time.                                                              *)
(*                                                                         *)
(* Part 2, what a save does to the rows.  DataOK is inductive: beside      *)
(* valid rows, in the tables and in an open transaction, it says how the   *)
(* mutation of a builder, kept in several places, and the last words of    *)
(* the caller go together (BuilderAgrees).  The statements of a save are   *)
(* taken one by one (Unlinked, Linked), then a whole save (RowMade,        *)
(* RowsChanged), then what each entity's create and update make of a       *)
(* mutation (RowSaid, RowAsSaid).                                          *)
(*                                                                         *)
(* Part 3, the reader.  ReaderOK is inductive: the nodes have the foreign  *)
(* keys that the edges still to load go by.                                *)
(***************************************************************************)
EXTENDS Orm, FiniteSetTheorems, TLAPS

BudgetOK ==
  budget \in [txs : Nat, builders : Nat, calls : Nat, saves : Nat, queries : Nat]

TxOK == "state" \in DOMAIN tx

BuilderOK ==
  builder # NoBuilder => "inTx" \in DOMAIN builder /\ (InTx => builder.inTx)

ClientOK == BudgetOK /\ TxOK /\ BuilderOK

\* OnlyCommitsShow, of one step.
Shown ==
  tables' # tables =>
    \/ tx.state = "open" /\ tx'.state = "ended" /\ tables' = tx.work /\ ~tx.failed
    \/ ~InTx /\ answer' = "ok" /\ budget'.saves < budget.saves

\* In a transaction a save leaves the tables alone, outside of one it changes
\* them if it succeeds (tx.go:206).
LEMMA StoreStep ==
  ASSUME ClientOK, builder # NoBuilder, budget.saves > 0,
         NEW r, NEW a, NEW ms, Store(r), Saved(a, ms), r.status = "ok" => a = "ok"
  PROVE  ClientOK' /\ Shown
<1>1. /\ answer' = a
      /\ builder' = [builder EXCEPT !.mutations = ms]
      /\ budget' = [budget EXCEPT !.saves = @ - 1]
  BY DEF Saved
<1>2. BudgetOK' /\ budget'.saves < budget.saves
  BY <1>1 DEF ClientOK, BudgetOK
<1>3. "inTx" \in DOMAIN builder' /\ builder'.inTx = builder.inTx
  BY <1>1 DEF ClientOK, BuilderOK
<1>4. CASE builder.inTx
  <2>1. tables' = tables /\ TxOK'
    BY <1>4 DEF Store, ClientOK, TxOK
  <2>2. BuilderOK'
    BY <1>3, <1>4 DEF BuilderOK
  <2> QED
    BY <1>2, <2>1, <2>2 DEF ClientOK, Shown
<1>5. CASE ~builder.inTx
  <2>1. ~InTx /\ tx' = tx /\ (tables' # tables => r.status = "ok")
    BY <1>5 DEF Store, ClientOK, BuilderOK
  <2>2. TxOK' /\ BuilderOK'
    BY <1>3, <2>1 DEF ClientOK, TxOK, BuilderOK, InTx
  <2> QED
    BY <1>1, <1>2, <2>1, <2>2 DEF ClientOK, Shown
<1> QED
  BY <1>4, <1>5

\* A save that does not reach the database changes no row.
LEMMA SaveFailsStep ==
  ASSUME ClientOK, builder # NoBuilder, budget.saves > 0, NEW a, NEW ms, SaveFails(a, ms)
  PROVE  ClientOK' /\ Shown
<1>1. /\ builder' = [builder EXCEPT !.mutations = ms]
      /\ budget' = [budget EXCEPT !.saves = @ - 1]
      /\ tx' = IF InTx THEN [tx EXCEPT !.failed = TRUE] ELSE tx
      /\ tables' = tables
  BY DEF SaveFails, Saved
<1>2. BudgetOK'
  BY <1>1 DEF ClientOK, BudgetOK
<1>3. TxOK' /\ tx'.state = tx.state
  BY <1>1 DEF ClientOK, TxOK
<1>4. BuilderOK'
  BY <1>1, <1>3 DEF ClientOK, BuilderOK, InTx
<1> QED
  BY <1>1, <1>2, <1>3, <1>4 DEF ClientOK, Shown

\* The three kinds of saves.
LEMMA SaveNewStep ==
  ASSUME ClientOK, NEW kinds, NEW e, Saving(kinds, e),
         NEW ms, NEW valid, NEW rows, SaveNew(e, ms, valid, rows)
  PROVE  ClientOK' /\ Shown
<1>1. builder # NoBuilder /\ budget.saves > 0
  BY DEF Saving
<1>2. \/ SaveFails("invalid", ms)
      \/ SaveFails("failed", ms)
      \/ /\ Store(Inserted(e, ms, rows))
         /\ \E a, after : /\ Saved(a, after)
                          /\ Inserted(e, ms, rows).status = "ok" => a = "ok"
  BY DEF SaveNew
<1> QED
  BY <1>1, <1>2, SaveFailsStep, StoreStep

LEMMA SaveChangedStep ==
  ASSUME ClientOK, NEW kinds, NEW e, Saving(kinds, e),
         NEW m, NEW valid, NEW rows, SaveChanged(e, m, valid, rows)
  PROVE  ClientOK' /\ Shown
<1>1. builder # NoBuilder /\ budget.saves > 0
  BY DEF Saving
<1>2. \/ SaveFails("invalid", <<m>>)
      \/ SaveFails("failed", <<m>>)
      \/ /\ Store(Changed(e, m, rows))
         /\ \E a : /\ Saved(a, <<m>>)
                   /\ Changed(e, m, rows).status = "ok" => a = "ok"
  BY DEF SaveChanged
<1> QED
  BY <1>1, <1>2, SaveFailsStep, StoreStep

LEMMA SaveDeleteStep ==
  ASSUME ClientOK, NEW e, SaveDelete(e)
  PROVE  ClientOK' /\ Shown
<1>1. builder # NoBuilder /\ budget.saves > 0
  BY DEF SaveDelete, Saving
<1>2. \/ SaveFails("failed", builder.mutations)
      \/ \E r, a : /\ Store(r) /\ Saved(a, builder.mutations)
                   /\ r.status = "ok" => a = "ok"
  BY DEF SaveDelete
<1> QED
  BY <1>1, <1>2, SaveFailsStep, StoreStep

\* Calls on a builder.
LEMMA CallStep ==
  ASSUME ClientOK, builder # NoBuilder, NEW m, NEW s, Call(m, s), budget.calls > 0
  PROVE  ClientOK' /\ Shown
<1>1. tables' = tables /\ tx' = tx /\ BudgetOK'
  BY DEF Call, ClientOK, BudgetOK
<1>2. BuilderOK'
  BY DEF Call, ClientOK, BuilderOK, InTx
<1> QED
  BY <1>1, <1>2 DEF ClientOK, TxOK, Shown

LEMMA OpenStep ==
  ASSUME ClientOK, NEW kind, NEW e, NEW where, NEW id, Open(kind, e, where, id)
  PROVE  ClientOK' /\ Shown
<1>1. tables' = tables /\ tx' = tx /\ BudgetOK'
  BY DEF Open, ClientOK, BudgetOK
<1>2. BuilderOK'
  BY DEF Open, ClientOK, BuilderOK, InTx
<1> QED
  BY <1>1, <1>2 DEF ClientOK, TxOK, Shown

LEMMA AnotherBuilderStep ==
  ASSUME ClientOK, NEW e, AnotherBuilder(e)
  PROVE  ClientOK' /\ Shown
<1>1. /\ builder # NoBuilder
      /\ UNCHANGED <<tables, serial, tx, answer, reader, budget>>
      /\ \E next : builder' = [builder EXCEPT !.mutations = Append(@, next[1]),
                                              !.said = Append(@, next[2])]
  BY DEF AnotherBuilder, Calling
<1>2. BuilderOK'
  BY <1>1 DEF ClientOK, BuilderOK, InTx
<1> QED
  BY <1>1, <1>2 DEF ClientOK, BudgetOK, TxOK, Shown

\* A step of the reader, which may use up a query.
LEMMA ReadStep ==
  ASSUME ClientOK, UNCHANGED <<tables, tx, builder>>,
         budget' = budget \/ (budget.queries > 0 /\ budget' = [budget EXCEPT !.queries = @ - 1])
  PROVE  ClientOK' /\ Shown
BY DEF ClientOK, BudgetOK, TxOK, BuilderOK, InTx, Shown

LEMMA QueryStep ==
  ASSUME ClientOK,
         \/ \E e, where, fields, with, child : OpenQuery(e, where, fields, with, child)
         \/ RunAgain
         \/ \E next : Reads(next)
  PROVE  ClientOK' /\ Shown
BY ReadStep DEF OpenQuery, RunAgain, Reads

\* The setters, adders, removers, clearers and resetters are calls.
LEMMA FieldStep ==
  ASSUME ClientOK, builder # NoBuilder, budget.calls > 0, NEW f,
         \/ \E values : FieldCall(f, values)
         \/ \E v : SetField(f, v)
         \/ ClearField(f) \/ ResetOptionalField(f) \/ OwnerCall(f)
         \/ \E i \in Ids : SetID(i)
  PROVE  ClientOK' /\ Shown
BY CallStep DEF FieldCall, SetField, ResetField, ClearField, ResetOptionalField,
   OwnerCall, ClearOwner, ResetOwner, SetID

LEMMA ChildrenStep ==
  ASSUME ClientOK, builder # NoBuilder, budget.calls > 0, NEW g, ChildrenCall(g)
  PROVE  ClientOK' /\ Shown
BY CallStep DEF ChildrenCall, AddChild, RemoveChild, ClearChildren, ResetChildren

LEMMA ClientStep ==
  ASSUME ClientOK, NEW e, NEW predicates, OpenAny(e, predicates)
  PROVE  ClientOK' /\ Shown
BY OpenStep DEF OpenAny

-----------------------------------------------------------------------------
\* Transactions: CommitTx alone shows what a transaction has done.
LEMMA TxStep ==
  ASSUME ClientOK, BeginTx \/ CommitTx \/ RollbackTx
  PROVE  ClientOK' /\ Shown
<1>1. CASE BeginTx
  <2>1. tables' = tables /\ BudgetOK' /\ TxOK' /\ builder' = NoBuilder
    BY <1>1 DEF BeginTx, ClientOK, BudgetOK, TxOK
  <2> QED
    BY <2>1 DEF ClientOK, BuilderOK, NoBuilder, Shown
<1>2. CASE CommitTx
  <2>1. /\ tables' = tx.work /\ tx.state = "open" /\ ~tx.failed
        /\ tx' = [tx EXCEPT !.state = "ended"] /\ UNCHANGED <<builder, budget>>
    BY <1>2 DEF CommitTx
  <2>2. TxOK' /\ tx'.state = "ended"
    BY <2>1 DEF ClientOK, TxOK
  <2> QED
    BY <2>1, <2>2 DEF ClientOK, BudgetOK, BuilderOK, InTx, Shown
<1>3. CASE RollbackTx
  <2>1. /\ tables' = tables
        /\ tx' = [tx EXCEPT !.state = "ended"] /\ UNCHANGED <<builder, budget>>
    BY <1>3 DEF RollbackTx
  <2>2. TxOK' /\ tx'.state = "ended"
    BY <2>1 DEF ClientOK, TxOK
  <2> QED
    BY <2>1, <2>2 DEF ClientOK, BudgetOK, BuilderOK, InTx, Shown
<1> QED
  BY <1>1, <1>2, <1>3

\* The five entities differ in what they write, not in how.
LEMMA NamespaceStep ==
  ASSUME ClientOK, NamespaceWrites \/ NamespaceReads
  PROVE  ClientOK' /\ Shown
<1>1. CASE NamespaceCall
  <2>1. builder # NoBuilder /\ budget.calls > 0
    BY <1>1 DEF NamespaceCall, Calling
  <2> QED
    BY <1>1, <2>1, FieldStep, ChildrenStep DEF NamespaceCall, NamespaceFieldCall, NamespaceEdgeCall
<1>2. CASE NamespaceClient \/ AnotherBuilder("Namespace")
  BY <1>2, ClientStep, AnotherBuilderStep DEF NamespaceClient
<1>3. CASE NamespaceCreate \/ NamespaceCreateBulk
  BY <1>3, SaveNewStep DEF NamespaceCreate, NamespaceCreateBulk, NamespaceNew
<1>4. CASE NamespaceUpdate \/ NamespaceUpdateOne
  BY <1>4, SaveChangedStep DEF NamespaceUpdate, NamespaceUpdateOne, NamespaceChange
<1>5. CASE NamespaceDelete
  BY <1>5, SaveDeleteStep DEF NamespaceDelete
<1>6. CASE NamespaceReads
  BY <1>6, QueryStep DEF NamespaceReads, NamespaceQuery, NamespaceAll, NamespaceLoadPlugins, NamespaceLoadUser, QueryNodes, LoadChildren, LoadOwner, Loaded
<1> QED
  BY <1>1, <1>2, <1>3, <1>4, <1>5, <1>6 DEF NamespaceWrites

LEMMA PluginStep ==
  ASSUME ClientOK, PluginWrites \/ PluginReads
  PROVE  ClientOK' /\ Shown
<1>1. CASE PluginCall
  <2>1. builder # NoBuilder /\ budget.calls > 0
    BY <1>1 DEF PluginCall, Calling
  <2> QED
    BY <1>1, <2>1, FieldStep, ChildrenStep DEF PluginCall, PluginFieldCall, PluginEdgeCall
<1>2. CASE PluginClient \/ AnotherBuilder("Plugin")
  BY <1>2, ClientStep, AnotherBuilderStep DEF PluginClient
<1>3. CASE PluginCreate \/ PluginCreateBulk
  BY <1>3, SaveNewStep DEF PluginCreate, PluginCreateBulk, PluginNew
<1>4. CASE PluginUpdate \/ PluginUpdateOne
  BY <1>4, SaveChangedStep DEF PluginUpdate, PluginUpdateOne, PluginChange
<1>5. CASE PluginDelete
  BY <1>5, SaveDeleteStep DEF PluginDelete
<1>6. CASE PluginReads
  BY <1>6, QueryStep DEF PluginReads, PluginQuery, PluginAll, PluginLoadVersions, QueryNodes, LoadChildren, Loaded
<1> QED
  BY <1>1, <1>2, <1>3, <1>4, <1>5, <1>6 DEF PluginWrites

LEMMA PluginVersionStep ==
  ASSUME ClientOK, PluginVersionWrites \/ PluginVersionReads
  PROVE  ClientOK' /\ Shown
<1>1. CASE PluginVersionCall
  <2>1. builder # NoBuilder /\ budget.calls > 0
    BY <1>1 DEF PluginVersionCall, Calling
  <2> QED
    BY <1>1, <2>1, FieldStep DEF PluginVersionCall, PluginVersionFieldCall, PluginVersionEdgeCall
<1>2. CASE PluginVersionClient \/ AnotherBuilder("PluginVersion")
  BY <1>2, ClientStep, AnotherBuilderStep DEF PluginVersionClient
<1>3. CASE PluginVersionCreate \/ PluginVersionCreateBulk
  BY <1>3, SaveNewStep DEF PluginVersionCreate, PluginVersionCreateBulk, PluginVersionNew
<1>4. CASE PluginVersionUpdate \/ PluginVersionUpdateOne
  BY <1>4, SaveChangedStep DEF PluginVersionUpdate, PluginVersionUpdateOne, PluginVersionChange
<1>5. CASE PluginVersionDelete
  BY <1>5, SaveDeleteStep DEF PluginVersionDelete
<1>6. CASE PluginVersionReads
  BY <1>6, QueryStep DEF PluginVersionReads, PluginVersionQuery, PluginVersionAll, PluginVersionLoadPlugin, QueryNodes, LoadOwner, Loaded
<1> QED
  BY <1>1, <1>2, <1>3, <1>4, <1>5, <1>6 DEF PluginVersionWrites

LEMMA RefreshTokenStep ==
  ASSUME ClientOK, RefreshTokenWrites \/ RefreshTokenReads
  PROVE  ClientOK' /\ Shown
<1>1. CASE RefreshTokenCall
  <2>1. builder # NoBuilder /\ budget.calls > 0
    BY <1>1 DEF RefreshTokenCall, Calling
  <2> QED
    BY <1>1, <2>1, FieldStep DEF RefreshTokenCall, RefreshTokenFieldCall, RefreshTokenEdgeCall
<1>2. CASE RefreshTokenClient \/ AnotherBuilder("RefreshToken")
  BY <1>2, ClientStep, AnotherBuilderStep DEF RefreshTokenClient
<1>3. CASE RefreshTokenCreate \/ RefreshTokenCreateBulk
  BY <1>3, SaveNewStep DEF RefreshTokenCreate, RefreshTokenCreateBulk, RefreshTokenNew
<1>4. CASE RefreshTokenUpdate \/ RefreshTokenUpdateOne
  BY <1>4, SaveChangedStep DEF RefreshTokenUpdate, RefreshTokenUpdateOne, RefreshTokenChange
<1>5. CASE RefreshTokenDelete
  BY <1>5, SaveDeleteStep DEF RefreshTokenDelete
<1>6. CASE RefreshTokenReads
  BY <1>6, QueryStep DEF RefreshTokenReads, RefreshTokenQuery, RefreshTokenAll, RefreshTokenLoadUser, QueryNodes, LoadOwner, Loaded
<1> QED
  BY <1>1, <1>2, <1>3, <1>4, <1>5, <1>6 DEF RefreshTokenWrites

LEMMA UserStep ==
  ASSUME ClientOK, UserWrites \/ UserReads
  PROVE  ClientOK' /\ Shown
<1>1. CASE UserCall
  <2>1. builder # NoBuilder /\ budget.calls > 0
    BY <1>1 DEF UserCall, Calling
  <2> QED
    BY <1>1, <2>1, FieldStep, ChildrenStep DEF UserCall, UserFieldCall, UserEdgeCall
<1>2. CASE UserClient \/ AnotherBuilder("User")
  BY <1>2, ClientStep, AnotherBuilderStep DEF UserClient
<1>3. CASE UserCreate \/ UserCreateBulk
  BY <1>3, SaveNewStep DEF UserCreate, UserCreateBulk, UserNew
<1>4. CASE UserUpdate \/ UserUpdateOne
  BY <1>4, SaveChangedStep DEF UserUpdate, UserUpdateOne, UserChange
<1>5. CASE UserDelete
  BY <1>5, SaveDeleteStep DEF UserDelete
<1>6. CASE UserReads
  BY <1>6, QueryStep DEF UserReads, UserQuery, UserAll, UserLoadRefreshTokens, UserLoadNamespaces, QueryNodes, LoadChildren, Loaded
<1> QED
  BY <1>1, <1>2, <1>3, <1>4, <1>5, <1>6 DEF UserWrites

-----------------------------------------------------------------------------
LEMMA InitOK == Init => ClientOK
BY StartAssumption DEF Init, NoTx, ClientOK, BudgetOK, TxOK, BuilderOK

LEMMA NextStep ==
  ASSUME ClientOK, [Next]_vars
  PROVE  ClientOK' /\ (Next => Shown)
<1>1. CASE UNCHANGED vars
  BY <1>1 DEF vars, ClientOK, BudgetOK, TxOK, BuilderOK, InTx, Shown
<1>2. CASE Next
  BY <1>2, TxStep, NamespaceStep, PluginStep, PluginVersionStep, RefreshTokenStep,
     UserStep, QueryStep DEF Next
<1> QED
  BY <1>1, <1>2

\* A builder outside of transactions and an open transaction never meet.
THEOREM ClientsApart == Spec => []ClientOK
<1>1. ClientOK /\ [Next]_vars => ClientOK'
  BY NextStep
<1> QED
  BY <1>1, InitOK, PTL DEF Spec

\* The tables change with the commit of a transaction no save of which has
\* failed, or by a save of its own that succeeded (internal/ent/tx.go:206).
THEOREM CommitSafety == Spec => OnlyCommitsShow
<1>1. ClientOK /\ [Next]_vars => [Shown]_vars
  BY NextStep
<1>2. Spec => [][Shown]_vars
  BY <1>1, ClientsApart, PTL DEF Spec
<1> QED
  BY <1>2, PTL DEF OnlyCommitsShow, Shown

-----------------------------------------------------------------------------
\* What a mutation and what is said of it range over.
Kinds == {"Create", "CreateBulk", "Update", "UpdateOne", "Delete", "DeleteOne"}
Creates == {"Create", "CreateBulk"}
Values == Words \cup Times \cup Nat \cup {Unset}

Mutations(e) ==
  [set : [Columns[e] -> Values], cleared : SUBSET Columns[e], uncoupled : BOOLEAN,
   added : [EdgesOf(e) -> SUBSET Ids], removed : [EdgesOf(e) -> SUBSET Ids],
   wiped : SUBSET EdgesOf(e), id : Nat \cup {Unset}]

Sayings(e) ==
  [column : [Columns[e] -> Values \cup {Null}],
   child : [EdgesOf(e) -> [Ids -> {"in", "out", "unsaid"}]],
   emptied : SUBSET (Columns[e] \cup EdgesOf(e)), id : Nat \cup {Unset}, vague : BOOLEAN]

\* The columns of ClearUser and ClearPlugin.
OwnerColumns ==
  [Namespace |-> {"user_id"}, Plugin |-> {}, PluginVersion |-> {"plugin_id"},
   RefreshToken |-> {"user_id"}, User |-> {}]

\* A column and the last word on it: a value is in its field pointer; a clear
\* is among the cleared fields and left no pointer; nothing said leaves none,
\* but for the defaults of a create and of updated_at.
ColumnAgrees(kind, e, m, s, c) ==
  /\ s.column[c] \notin {Unset, Null} => m.set[c] = s.column[c]
  /\ s.column[c] = Null =>
       e = "Namespace" /\ c = "user_id" /\ m.set[c] = Unset /\ c \in m.cleared
  /\ s.column[c] = Unset /\ c # "updated_at" /\ kind \notin Creates => m.set[c] = Unset
  /\ c \in s.emptied <=> (m.uncoupled /\ c \in OwnerColumns[e])
  /\ c = "namespace_plugins" => s.column[c] = Unset
  /\ e = "Namespace" /\ c = "user_id" /\ c \in m.cleared /\ ~s.vague =>
       s.column[c] # Unset \/ c \in s.emptied

\* The children of an edge and the last word on each.  A child that was removed
\* and then added is still among the removed ones.
ChildAgrees(m, s, g) ==
  /\ g \in s.emptied <=> g \in m.wiped
  /\ \A i \in Ids :
       /\ s.child[g][i] = "in" <=> i \in m.added[g]
       /\ s.child[g][i] = "out" => i \in m.removed[g]
       /\ s.child[g][i] = "unsaid" => i \notin m.removed[g]

\* A mutation of a builder of this kind and what its caller has said.
Agrees(kind, e, m, s) ==
  /\ m \in Mutations(e) /\ s \in Sayings(e)
  /\ s.id \in {m.id, Unset}
  /\ \A c \in Columns[e] : ColumnAgrees(kind, e, m, s, c)
  /\ \A g \in EdgesOf(e) : ChildAgrees(m, s, g)

\* The builder: as many last words as mutations, one of each but in a bulk.
BuilderAgrees ==
  builder # NoBuilder =>
    /\ builder \in [kind : Kinds, entity : Entities, where : {builder.where},
                    id : {builder.id}, inTx : BOOLEAN,
                    mutations : Seq(Mutations(builder.entity)),
                    said : Seq(Sayings(builder.entity))]
    /\ Len(builder.said) = Top
    /\ IF builder.kind = "CreateBulk" THEN Top \in {1, 2} ELSE Top = 1
    /\ \A i \in DOMAIN builder.mutations :
         Agrees(builder.kind, builder.entity, builder.mutations[i], builder.said[i])

\* What an open transaction would commit is valid.  An aborted one can only be
\* rolled back.
TxValid ==
  tx # NoTx =>
    /\ tx \in [state : {"open", "aborted", "ended"}, work : {tx.work}, failed : BOOLEAN]
    /\ tx.state = "open" => RowsValid(tx.work) /\ Consistent(tx.work)

\* Sequences give numbers.
SerialOK == serial \in [Entities -> Nat]

\* A statement writes foreign keys only, or rows a builder has validated.
OutcomeOK(r) == RowsValid(r.t) /\ (r.status # "error" => Consistent(r.t))

LEMMA EdgeFacts ==
  /\ EdgeNames = {"plugins", "versions", "refresh_tokens", "namespaces"}
  /\ Edge["plugins"].parent = "Namespace" /\ Edge["plugins"].child = "Plugin"
  /\ Edge["plugins"].column = "namespace_plugins"
  /\ Edge["versions"].parent = "Plugin" /\ Edge["versions"].child = "PluginVersion"
  /\ Edge["versions"].column = "plugin_id"
  /\ Edge["refresh_tokens"].parent = "User" /\ Edge["refresh_tokens"].child = "RefreshToken"
  /\ Edge["refresh_tokens"].column = "user_id"
  /\ Edge["namespaces"].parent = "User" /\ Edge["namespaces"].child = "Namespace"
  /\ Edge["namespaces"].column = "user_id"
BY DEF EdgeNames, Edge

\* A foreign key may be empty.
LEMMA KeyFacts ==
  ASSUME NEW g \in EdgeNames
  PROVE  /\ Edge[g].child \in Entities /\ Edge[g].column \in Columns[Edge[g].child]
         /\ Edge[g].column \notin NotEmptyColumns[Edge[g].child]
         /\ Edge[g].column \notin ImmutableColumns[Edge[g].child]
BY EdgeFacts DEF Entities, Columns, NotEmptyColumns, ImmutableColumns

LEMMA ExecuteOK ==
  ASSUME NEW t, RowsValid(t)
  PROVE  OutcomeOK(Execute(t))
BY DEF OutcomeOK, Execute, Outcome

LEMMA PutColumnOK ==
  ASSUME NEW t, RowsValid(t), NEW g \in EdgeNames, NEW ids, NEW v
  PROVE  RowsValid(PutColumn(t, Edge[g].child, ids, Edge[g].column, v))
<1> DEFINE e == Edge[g].child
           c == Edge[g].column
           u == PutColumn(t, e, ids, c, v)
<1>1. e \in Entities /\ c \notin NotEmptyColumns[e]
  BY KeyFacts
<1>2. \A f \in Entities : NotEmptyColumns[f] \subseteq Columns[f]
  BY DEF Entities, NotEmptyColumns, Columns
<1>3. DOMAIN u = Entities
  BY DEF PutColumn, RowsValid
<1>4. ASSUME NEW f \in Entities, NEW id \in DOMAIN u[f]
      PROVE  id \in Nat /\ RowValid(f, u[f][id])
  <2>1. id \in DOMAIN t[f] /\ (u[f][id] = t[f][id] \/ (f = e /\ u[f][id] = [t[f][id] EXCEPT ![c] = v]))
    BY <1>4 DEF PutColumn, RowsValid
  <2>2. id \in Nat /\ RowValid(f, t[f][id])
    BY <2>1 DEF RowsValid
  <2> HIDE DEF e, c, u
  <2> QED
    BY <1>1, <1>2, <2>1, <2>2 DEF RowValid
<1>5. RowsValid(u)
  <2> HIDE DEF u
  <2> QED
    BY <1>3, <1>4 DEF RowsValid
<1> QED
  BY <1>5

LEMMA UnlinkOK ==
  ASSUME NEW r, OutcomeOK(r), NEW m, NEW g \in EdgeNames, NEW parents
  PROVE  OutcomeOK(Unlink(r, m, g, parents))
BY PutColumnOK, ExecuteOK DEF Unlink, OutcomeOK

LEMMA LinkOK ==
  ASSUME NEW r, OutcomeOK(r), NEW m, NEW g \in EdgeNames, NEW parents
  PROVE  OutcomeOK(Link(r, m, g, parents))
<1> DEFINE free == m.added[g] \cap Children(r.t, g, Null)
           linked == PutColumn(r.t, Edge[g].child, free, Edge[g].column, CHOOSE p \in parents : TRUE)
<1>1. RowsValid(linked)
  BY PutColumnOK DEF OutcomeOK
<1>2. OutcomeOK(Execute(linked))
  BY <1>1, ExecuteOK
<1>3. OutcomeOK(Outcome("refused", r.t)) \/ r.status # "ok"
  BY DEF OutcomeOK, Outcome
<1>4. Execute(linked).status = "ok" => OutcomeOK(Outcome("refused", Execute(linked).t))
  BY <1>2 DEF OutcomeOK, Outcome
<1>5. \/ Link(r, m, g, parents) = r
      \/ r.status = "ok" /\ Link(r, m, g, parents) = Outcome("refused", r.t)
      \/ Execute(linked).status = "ok" /\ Link(r, m, g, parents) = Outcome("refused", Execute(linked).t)
      \/ Link(r, m, g, parents) = Execute(linked)
  BY DEF Link
<1> HIDE DEF linked
<1> QED
  BY <1>2, <1>3, <1>4, <1>5

LEMMA UnlinkAllOK ==
  ASSUME NEW r, OutcomeOK(r), NEW m, NEW e, NEW parents
  PROVE  OutcomeOK(UnlinkAll(r, m, e, parents))
BY UnlinkOK DEF UnlinkAll, EdgeNames, Edge

LEMMA LinkAllOK ==
  ASSUME NEW r, OutcomeOK(r), NEW m, NEW e, NEW parents
  PROVE  OutcomeOK(LinkAll(r, m, e, parents))
BY LinkOK DEF LinkAll, EdgeNames, Edge

\* The names of columns and of edges differ.
LEMMA NameFacts ==
  ASSUME NEW e \in Entities
  PROVE  Columns[e] \cap EdgesOf(e) = {} /\ OwnerColumns[e] \subseteq Columns[e]
BY EdgeFacts DEF Entities, Columns, EdgesOf, OwnerColumns

LEMMA SetAgrees ==
  ASSUME NEW kind, NEW e \in Entities, NEW m, NEW s, Agrees(kind, e, m, s),
         NEW f \in Columns[e], f # "namespace_plugins", NEW v \in Values, v # Null,
         v = Unset => f # "user_id" \/ e # "Namespace"
  PROVE  Agrees(kind, e, [m EXCEPT !.set[f] = v], [s EXCEPT !.column[f] = v])
<1> DEFINE n == [m EXCEPT !.set[f] = v]
           w == [s EXCEPT !.column[f] = v]
<1>1. m \in Mutations(e) /\ s \in Sayings(e)
  BY DEF Agrees
<1>2. /\ n \in Mutations(e) /\ n.cleared = m.cleared /\ n.uncoupled = m.uncoupled
      /\ n.added = m.added /\ n.removed = m.removed /\ n.wiped = m.wiped /\ n.id = m.id
      /\ \A c \in Columns[e] : n.set[c] = IF c = f THEN v ELSE m.set[c]
  BY <1>1 DEF Mutations
<1>3. /\ w \in Sayings(e) /\ w.child = s.child /\ w.emptied = s.emptied
      /\ w.id = s.id /\ w.vague = s.vague
      /\ \A c \in Columns[e] : w.column[c] = IF c = f THEN v ELSE s.column[c]
  BY <1>1 DEF Sayings
<1> HIDE DEF n, w
<1>4. ASSUME NEW c \in Columns[e]
      PROVE  ColumnAgrees(kind, e, n, w, c)
  <2>1. ColumnAgrees(kind, e, m, s, c)
    BY DEF Agrees
  <2> QED
    BY <1>2, <1>3, <2>1 DEF ColumnAgrees
<1>5. ASSUME NEW g \in EdgesOf(e)
      PROVE  ChildAgrees(n, w, g)
  BY <1>2, <1>3 DEF Agrees, ChildAgrees
<1>6. w.id \in {n.id, Unset}
  BY <1>2, <1>3 DEF Agrees
<1>7. Agrees(kind, e, n, w)
  BY <1>2, <1>3, <1>4, <1>5, <1>6 DEF Agrees
<1> QED
  BY <1>7 DEF n, w

LEMMA ClearFieldAgrees ==
  ASSUME NEW kind, NEW m, NEW s, Agrees(kind, "Namespace", m, s)
  PROVE  Agrees(kind, "Namespace",
                [m EXCEPT !.set["user_id"] = Unset, !.cleared = @ \cup {"user_id"}],
                [s EXCEPT !.column["user_id"] = Null])
<1> DEFINE e == "Namespace"
           f == "user_id"
           n == [m EXCEPT !.set[f] = Unset, !.cleared = @ \cup {f}]
           w == [s EXCEPT !.column[f] = Null]
<1>1. f \in Columns[e] /\ Unset # Null
  BY UnsetAssumption DEF Columns
<1>2. m \in Mutations(e) /\ s \in Sayings(e)
  BY DEF Agrees
<1>3. /\ n \in Mutations(e) /\ n.cleared = m.cleared \cup {f} /\ n.uncoupled = m.uncoupled
      /\ n.added = m.added /\ n.removed = m.removed /\ n.wiped = m.wiped /\ n.id = m.id
      /\ \A c \in Columns[e] : n.set[c] = IF c = f THEN Unset ELSE m.set[c]
  BY <1>1, <1>2 DEF Mutations, Values
<1>4. /\ w \in Sayings(e) /\ w.child = s.child /\ w.emptied = s.emptied
      /\ w.id = s.id /\ w.vague = s.vague
      /\ \A c \in Columns[e] : w.column[c] = IF c = f THEN Null ELSE s.column[c]
  BY <1>1, <1>2 DEF Sayings
<1> HIDE DEF n, w
<1>5. ASSUME NEW c \in Columns[e]
      PROVE  ColumnAgrees(kind, e, n, w, c)
  <2>1. ColumnAgrees(kind, e, m, s, c)
    BY DEF Agrees
  <2> QED
    BY <1>1, <1>3, <1>4, <2>1 DEF ColumnAgrees
<1>6. ASSUME NEW g \in EdgesOf(e)
      PROVE  ChildAgrees(n, w, g)
  BY <1>3, <1>4 DEF Agrees, ChildAgrees
<1>7. w.id \in {n.id, Unset}
  BY <1>3, <1>4 DEF Agrees
<1>8. Agrees(kind, e, n, w)
  BY <1>3, <1>4, <1>5, <1>6, <1>7 DEF Agrees
<1> QED
  BY <1>8 DEF n, w

LEMMA ResetOptionalAgrees ==
  ASSUME NEW kind, NEW m, NEW s, Agrees(kind, "Namespace", m, s)
  PROVE  Agrees(kind, "Namespace",
                [m EXCEPT !.set["user_id"] = Unset, !.cleared = @ \ {"user_id"}],
                [s EXCEPT !.column["user_id"] = Unset])
<1> DEFINE e == "Namespace"
           f == "user_id"
           n == [m EXCEPT !.set[f] = Unset, !.cleared = @ \ {f}]
           w == [s EXCEPT !.column[f] = Unset]
<1>1. f \in Columns[e] /\ Unset # Null
  BY UnsetAssumption DEF Columns
<1>2. m \in Mutations(e) /\ s \in Sayings(e)
  BY DEF Agrees
<1>3. /\ n \in Mutations(e) /\ n.cleared = m.cleared \ {f} /\ n.uncoupled = m.uncoupled
      /\ n.added = m.added /\ n.removed = m.removed /\ n.wiped = m.wiped /\ n.id = m.id
      /\ \A c \in Columns[e] : n.set[c] = IF c = f THEN Unset ELSE m.set[c]
  BY <1>1, <1>2 DEF Mutations, Values
<1>4. /\ w \in Sayings(e) /\ w.child = s.child /\ w.emptied = s.emptied
      /\ w.id = s.id /\ w.vague = s.vague
      /\ \A c \in Columns[e] : w.column[c] = IF c = f THEN Unset ELSE s.column[c]
  BY <1>1, <1>2 DEF Sayings, Values
<1> HIDE DEF n, w
<1>5. ASSUME NEW c \in Columns[e]
      PROVE  ColumnAgrees(kind, e, n, w, c)
  <2>1. ColumnAgrees(kind, e, m, s, c)
    BY DEF Agrees
  <2> QED
    BY <1>1, <1>3, <1>4, <2>1 DEF ColumnAgrees
<1>6. ASSUME NEW g \in EdgesOf(e)
      PROVE  ChildAgrees(n, w, g)
  BY <1>3, <1>4 DEF Agrees, ChildAgrees
<1>7. w.id \in {n.id, Unset}
  BY <1>3, <1>4 DEF Agrees
<1>8. Agrees(kind, e, n, w)
  BY <1>3, <1>4, <1>5, <1>6, <1>7 DEF Agrees
<1> QED
  BY <1>8 DEF n, w

LEMMA ClearOwnerAgrees ==
  ASSUME NEW kind, NEW e \in Entities, NEW m, NEW s, Agrees(kind, e, m, s), NEW f,
         OwnerColumns[e] = {f}
  PROVE  Agrees(kind, e, [m EXCEPT !.uncoupled = TRUE, !.cleared = @ \cup {f}],
                         [s EXCEPT !.emptied = @ \cup {f}])
<1> DEFINE n == [m EXCEPT !.uncoupled = TRUE, !.cleared = @ \cup {f}]
           w == [s EXCEPT !.emptied = @ \cup {f}]
<1>1. f \in Columns[e] /\ f \notin EdgesOf(e)
  BY NameFacts
<1>2. m \in Mutations(e) /\ s \in Sayings(e)
  BY DEF Agrees
<1>3. /\ n \in Mutations(e) /\ n.cleared = m.cleared \cup {f} /\ n.uncoupled = TRUE
      /\ n.added = m.added /\ n.removed = m.removed /\ n.wiped = m.wiped /\ n.id = m.id
      /\ n.set = m.set
  BY <1>1, <1>2 DEF Mutations
<1>4. /\ w \in Sayings(e) /\ w.child = s.child /\ w.emptied = s.emptied \cup {f}
      /\ w.id = s.id /\ w.vague = s.vague /\ w.column = s.column
  BY <1>1, <1>2 DEF Sayings
<1> HIDE DEF n, w
<1>5. ASSUME NEW c \in Columns[e]
      PROVE  ColumnAgrees(kind, e, n, w, c)
  <2>1. ColumnAgrees(kind, e, m, s, c)
    BY DEF Agrees
  <2> QED
    BY <1>1, <1>3, <1>4, <2>1 DEF ColumnAgrees
<1>6. ASSUME NEW g \in EdgesOf(e)
      PROVE  ChildAgrees(n, w, g)
  BY <1>1, <1>3, <1>4 DEF Agrees, ChildAgrees
<1>7. w.id \in {n.id, Unset}
  BY <1>3, <1>4 DEF Agrees
<1>8. Agrees(kind, e, n, w)
  BY <1>3, <1>4, <1>5, <1>6, <1>7 DEF Agrees
<1> QED
  BY <1>8 DEF n, w

LEMMA ResetOwnerAgrees ==
  ASSUME NEW kind, NEW e \in Entities, NEW m, NEW s, Agrees(kind, e, m, s), NEW f,
         OwnerColumns[e] = {f}
  PROVE  Agrees(kind, e,
           [m EXCEPT !.set[f] = Unset, !.uncoupled = FALSE],
           [s EXCEPT !.column[f] = Unset, !.emptied = @ \ {f},
                     !.vague = @ \/ (<<e, f>> \in Nullable /\ f \in m.cleared)])
<1> DEFINE n == [m EXCEPT !.set[f] = Unset, !.uncoupled = FALSE]
           w == [s EXCEPT !.column[f] = Unset, !.emptied = @ \ {f},
                          !.vague = @ \/ (<<e, f>> \in Nullable /\ f \in m.cleared)]
<1>1. f \in Columns[e] /\ f \notin EdgesOf(e) /\ f # "namespace_plugins" /\ Unset # Null
  BY NameFacts, UnsetAssumption DEF OwnerColumns, Entities
<1>2. m \in Mutations(e) /\ s \in Sayings(e)
  BY DEF Agrees
<1>3. /\ n \in Mutations(e) /\ n.cleared = m.cleared /\ n.uncoupled = FALSE
      /\ n.added = m.added /\ n.removed = m.removed /\ n.wiped = m.wiped /\ n.id = m.id
      /\ \A c \in Columns[e] : n.set[c] = IF c = f THEN Unset ELSE m.set[c]
  BY <1>1, <1>2 DEF Mutations, Values
<1>4. /\ w \in Sayings(e) /\ w.child = s.child /\ w.emptied = s.emptied \ {f}
      /\ w.id = s.id
      /\ \A c \in Columns[e] : w.column[c] = IF c = f THEN Unset ELSE s.column[c]
  BY <1>1, <1>2 DEF Sayings, Values
<1>5. w.vague = (s.vague \/ (<<e, f>> \in Nullable /\ f \in m.cleared))
  BY <1>1, <1>2 DEF Sayings
<1> HIDE DEF n, w
<1>6. e = "Namespace" /\ "user_id" \in m.cleared /\ ~w.vague => f # "user_id"
  BY <1>5 DEF Nullable
<1>7. e = "Namespace" => f = "user_id"
  BY DEF OwnerColumns
<1>8. ~w.vague => ~s.vague
  BY <1>5
<1>9. ASSUME NEW c \in Columns[e]
      PROVE  ColumnAgrees(kind, e, n, w, c)
  <2>1. ColumnAgrees(kind, e, m, s, c)
    BY DEF Agrees
  <2> QED
    BY <1>1, <1>3, <1>4, <1>6, <1>7, <1>8, <2>1 DEF ColumnAgrees
<1>10. ASSUME NEW g \in EdgesOf(e)
       PROVE  ChildAgrees(n, w, g)
  BY <1>1, <1>3, <1>4 DEF Agrees, ChildAgrees
<1>11. w.id \in {n.id, Unset}
  BY <1>3, <1>4 DEF Agrees
<1>12. Agrees(kind, e, n, w)
  BY <1>3, <1>4, <1>9, <1>10, <1>11 DEF Agrees
<1> QED
  BY <1>12 DEF n, w

LEMMA IdAgrees ==
  ASSUME NEW kind, NEW e \in Entities, NEW m, NEW s, Agrees(kind, e, m, s), NEW i \in Ids
  PROVE  Agrees(kind, e, [m EXCEPT !.id = i], [s EXCEPT !.id = i])
<1> DEFINE n == [m EXCEPT !.id = i]
           w == [s EXCEPT !.id = i]
<1>1. m \in Mutations(e) /\ s \in Sayings(e)
  BY DEF Agrees
<1>2. /\ n \in Mutations(e) /\ n.cleared = m.cleared /\ n.uncoupled = m.uncoupled
      /\ n.added = m.added /\ n.removed = m.removed /\ n.wiped = m.wiped /\ n.id = i
      /\ n.set = m.set
  BY <1>1, IdAssumption DEF Mutations
<1>3. /\ w \in Sayings(e) /\ w.child = s.child /\ w.emptied = s.emptied
      /\ w.id = i /\ w.vague = s.vague /\ w.column = s.column
  BY <1>1, IdAssumption DEF Sayings
<1> HIDE DEF n, w
<1>4. Agrees(kind, e, n, w)
  BY <1>2, <1>3 DEF Agrees, ColumnAgrees, ChildAgrees
<1> QED
  BY <1>4 DEF n, w

LEMMA AddChildAgrees ==
  ASSUME NEW kind, NEW e \in Entities, NEW m, NEW s, Agrees(kind, e, m, s),
         NEW g \in EdgesOf(e), NEW i \in Ids
  PROVE  Agrees(kind, e, [m EXCEPT !.added[g] = @ \cup {i}], [s EXCEPT !.child[g][i] = "in"])
<1> DEFINE n == [m EXCEPT !.added[g] = @ \cup {i}]
           w == [s EXCEPT !.child[g][i] = "in"]
<1>1. m \in Mutations(e) /\ s \in Sayings(e)
  BY DEF Agrees
<1>2. /\ n \in Mutations(e) /\ n.cleared = m.cleared /\ n.uncoupled = m.uncoupled
      /\ n.removed = m.removed /\ n.wiped = m.wiped /\ n.id = m.id /\ n.set = m.set
      /\ \A h \in EdgesOf(e) : n.added[h] = IF h = g THEN m.added[g] \cup {i} ELSE m.added[h]
  BY <1>1 DEF Mutations
<1>3. /\ w \in Sayings(e) /\ w.emptied = s.emptied
      /\ w.id = s.id /\ w.vague = s.vague /\ w.column = s.column
      /\ \A h \in EdgesOf(e), j \in Ids :
           w.child[h][j] = IF h = g /\ j = i THEN "in" ELSE s.child[h][j]
  BY <1>1 DEF Sayings
<1> HIDE DEF n, w
<1>4. \A c \in Columns[e] : ColumnAgrees(kind, e, n, w, c)
  BY <1>2, <1>3 DEF Agrees, ColumnAgrees
<1>5. ASSUME NEW h \in EdgesOf(e)
      PROVE  ChildAgrees(n, w, h)
  BY <1>2, <1>3 DEF Agrees, ChildAgrees
<1>6. Agrees(kind, e, n, w)
  BY <1>2, <1>3, <1>4, <1>5 DEF Agrees
<1> QED
  BY <1>6 DEF n, w

LEMMA RemoveChildAgrees ==
  ASSUME NEW kind, NEW e \in Entities, NEW m, NEW s, Agrees(kind, e, m, s),
         NEW g \in EdgesOf(e), NEW i \in Ids
  PROVE  Agrees(kind, e, WithRemoved(m, g, i), [s EXCEPT !.child[g][i] = "out"])
<1> DEFINE n == WithRemoved(m, g, i)
           w == [s EXCEPT !.child[g][i] = "out"]
<1>1. m \in Mutations(e) /\ s \in Sayings(e)
  BY DEF Agrees
<1>2. /\ n \in Mutations(e) /\ n.cleared = m.cleared /\ n.uncoupled = m.uncoupled
      /\ n.wiped = m.wiped /\ n.id = m.id /\ n.set = m.set
      /\ \A h \in EdgesOf(e) :
           /\ n.added[h] = IF h = g THEN m.added[g] \ {i} ELSE m.added[h]
           /\ n.removed[h] = IF h = g THEN m.removed[g] \cup {i} ELSE m.removed[h]
  BY <1>1 DEF Mutations, WithRemoved
<1>3. /\ w \in Sayings(e) /\ w.emptied = s.emptied
      /\ w.id = s.id /\ w.vague = s.vague /\ w.column = s.column
      /\ \A h \in EdgesOf(e), j \in Ids :
           w.child[h][j] = IF h = g /\ j = i THEN "out" ELSE s.child[h][j]
  BY <1>1 DEF Sayings
<1> HIDE DEF n, w
<1>4. \A c \in Columns[e] : ColumnAgrees(kind, e, n, w, c)
  BY <1>2, <1>3 DEF Agrees, ColumnAgrees
<1>5. ASSUME NEW h \in EdgesOf(e)
      PROVE  ChildAgrees(n, w, h)
  BY <1>2, <1>3 DEF Agrees, ChildAgrees
<1>6. Agrees(kind, e, n, w)
  BY <1>2, <1>3, <1>4, <1>5 DEF Agrees
<1> QED
  BY <1>6 DEF n, w

LEMMA ClearChildrenAgrees ==
  ASSUME NEW kind, NEW e \in Entities, NEW m, NEW s, Agrees(kind, e, m, s),
         NEW g \in EdgesOf(e)
  PROVE  Agrees(kind, e, [m EXCEPT !.wiped = @ \cup {g}], [s EXCEPT !.emptied = @ \cup {g}])
<1> DEFINE n == [m EXCEPT !.wiped = @ \cup {g}]
           w == [s EXCEPT !.emptied = @ \cup {g}]
<1>1. \A c \in Columns[e] : c # g
  BY NameFacts
<1>2. m \in Mutations(e) /\ s \in Sayings(e)
  BY DEF Agrees
<1>3. /\ n \in Mutations(e) /\ n.cleared = m.cleared /\ n.uncoupled = m.uncoupled
      /\ n.added = m.added /\ n.removed = m.removed /\ n.id = m.id /\ n.set = m.set
      /\ n.wiped = m.wiped \cup {g}
  BY <1>2 DEF Mutations
<1>4. /\ w \in Sayings(e) /\ w.child = s.child /\ w.emptied = s.emptied \cup {g}
      /\ w.id = s.id /\ w.vague = s.vague /\ w.column = s.column
  BY <1>2 DEF Sayings
<1> HIDE DEF n, w
<1>5. \A c \in Columns[e] : ColumnAgrees(kind, e, n, w, c)
  BY <1>1, <1>3, <1>4 DEF Agrees, ColumnAgrees
<1>6. ASSUME NEW h \in EdgesOf(e)
      PROVE  ChildAgrees(n, w, h)
  BY <1>3, <1>4 DEF Agrees, ChildAgrees
<1>7. Agrees(kind, e, n, w)
  BY <1>3, <1>4, <1>5, <1>6 DEF Agrees
<1> QED
  BY <1>7 DEF n, w

LEMMA ResetChildrenAgrees ==
  ASSUME NEW kind, NEW e \in Entities, NEW m, NEW s, Agrees(kind, e, m, s),
         NEW g \in EdgesOf(e)
  PROVE  Agrees(kind, e,
           [m EXCEPT !.added[g] = {}, !.removed[g] = {}, !.wiped = @ \ {g}],
           [s EXCEPT !.child[g] = [i \in Ids |-> "unsaid"], !.emptied = @ \ {g}])
<1> DEFINE n == [m EXCEPT !.added[g] = {}, !.removed[g] = {}, !.wiped = @ \ {g}]
           w == [s EXCEPT !.child[g] = [i \in Ids |-> "unsaid"], !.emptied = @ \ {g}]
<1>1. \A c \in Columns[e] : c # g
  BY NameFacts
<1>2. m \in Mutations(e) /\ s \in Sayings(e)
  BY DEF Agrees
<1>3. /\ n \in Mutations(e) /\ n.cleared = m.cleared /\ n.uncoupled = m.uncoupled
      /\ n.wiped = m.wiped \ {g} /\ n.id = m.id /\ n.set = m.set
      /\ \A h \in EdgesOf(e) :
           /\ n.added[h] = IF h = g THEN {} ELSE m.added[h]
           /\ n.removed[h] = IF h = g THEN {} ELSE m.removed[h]
  BY <1>2 DEF Mutations
<1>4. /\ w \in Sayings(e) /\ w.emptied = s.emptied \ {g}
      /\ w.id = s.id /\ w.vague = s.vague /\ w.column = s.column
      /\ \A h \in EdgesOf(e), j \in Ids :
           w.child[h][j] = IF h = g THEN "unsaid" ELSE s.child[h][j]
  BY <1>2 DEF Sayings
<1> HIDE DEF n, w
<1>5. \A c \in Columns[e] : ColumnAgrees(kind, e, n, w, c)
  BY <1>1, <1>3, <1>4 DEF Agrees, ColumnAgrees
<1>6. ASSUME NEW h \in EdgesOf(e)
      PROVE  ChildAgrees(n, w, h)
  BY <1>3, <1>4 DEF Agrees, ChildAgrees
<1>7. Agrees(kind, e, n, w)
  BY <1>3, <1>4, <1>5, <1>6 DEF Agrees
<1> QED
  BY <1>7 DEF n, w

\* What a save leaves in a builder: the defaults of columns nothing was said
\* of, and the id of the new row.
LEMMA DefaultAgrees ==
  ASSUME NEW kind, NEW e \in Entities, NEW m, NEW s, Agrees(kind, e, m, s),
         NEW f \in Columns[e], NEW v \in Values,
         f # "user_id", f # "namespace_plugins",
         kind \in Creates \/ f = "updated_at"
  PROVE  Agrees(kind, e, [m EXCEPT !.set[f] = Or(@, v)], s)
<1> DEFINE n == [m EXCEPT !.set[f] = Or(@, v)]
<1>1. m \in Mutations(e)
  BY DEF Agrees
<1>2. /\ n \in Mutations(e) /\ n.cleared = m.cleared /\ n.uncoupled = m.uncoupled
      /\ n.added = m.added /\ n.removed = m.removed /\ n.wiped = m.wiped /\ n.id = m.id
      /\ \A c \in Columns[e] : n.set[c] = IF c = f THEN Or(m.set[f], v) ELSE m.set[c]
  BY <1>1 DEF Mutations, Or
<1> HIDE DEF n
<1>3. ASSUME NEW c \in Columns[e]
      PROVE  ColumnAgrees(kind, e, n, s, c)
  <2>1. ColumnAgrees(kind, e, m, s, c)
    BY DEF Agrees
  <2> QED
    BY <1>2, <2>1 DEF ColumnAgrees, Or
<1>4. ASSUME NEW g \in EdgesOf(e)
      PROVE  ChildAgrees(n, s, g)
  BY <1>2 DEF Agrees, ChildAgrees
<1>5. Agrees(kind, e, n, s)
  BY <1>2, <1>3, <1>4 DEF Agrees
<1> QED
  BY <1>5 DEF n

LEMMA DrawnAgrees ==
  ASSUME NEW kind, NEW e \in Entities, NEW m, NEW s, Agrees(kind, e, m, s), NEW i \in Nat
  PROVE  Agrees(kind, e, [m EXCEPT !.id = Or(m.id, i)], s)
<1> DEFINE n == [m EXCEPT !.id = Or(m.id, i)]
<1>1. m \in Mutations(e)
  BY DEF Agrees
<1>2. /\ n \in Mutations(e) /\ n.cleared = m.cleared /\ n.uncoupled = m.uncoupled
      /\ n.added = m.added /\ n.removed = m.removed /\ n.wiped = m.wiped
      /\ n.set = m.set /\ n.id = Or(m.id, i)
  BY <1>1 DEF Mutations, Or
<1> HIDE DEF n
<1>3. Agrees(kind, e, n, s)
  BY <1>2 DEF Agrees, ColumnAgrees, ChildAgrees, Or
<1> QED
  BY <1>3 DEF n

LEMMA NewAgrees ==
  ASSUME NEW kind, NEW e \in Entities
  PROVE  Agrees(kind, e, NewMutation(e), NothingSaid(e))
<1> DEFINE m == NewMutation(e)
           s == NothingSaid(e)
<1>1. Unset # Null
  BY UnsetAssumption
<1>2. /\ m \in Mutations(e) /\ m.cleared = {} /\ m.uncoupled = FALSE /\ m.wiped = {}
      /\ m.id = Unset
      /\ \A c \in Columns[e] : m.set[c] = Unset
      /\ \A g \in EdgesOf(e) : m.added[g] = {} /\ m.removed[g] = {}
  BY DEF NewMutation, Mutations, Values
<1>3. /\ s \in Sayings(e) /\ s.emptied = {} /\ s.id = Unset
      /\ \A c \in Columns[e] : s.column[c] = Unset
      /\ \A g \in EdgesOf(e), i \in Ids : s.child[g][i] = "unsaid"
  BY DEF NothingSaid, Sayings, Values
<1> HIDE DEF m, s
<1>4. \A c \in Columns[e] : ColumnAgrees(kind, e, m, s, c)
  BY <1>1, <1>2, <1>3 DEF ColumnAgrees
<1>5. \A g \in EdgesOf(e) : ChildAgrees(m, s, g)
  BY <1>2, <1>3 DEF ChildAgrees
<1>6. Agrees(kind, e, m, s)
  BY <1>2, <1>3, <1>4, <1>5 DEF Agrees
<1> QED
  BY <1>6 DEF m, s

LEMMA TopAgrees ==
  ASSUME BuilderAgrees, NEW e, Calling(e)
  PROVE  /\ e \in Entities /\ builder # NoBuilder /\ builder.entity = e
         /\ Agrees(builder.kind, e, M, S)
<1>1. builder # NoBuilder /\ builder.entity = e
  BY DEF Calling
<1>2. Top \in {1, 2} /\ builder.mutations \in Seq(Mutations(e))
  BY <1>1 DEF BuilderAgrees
<1>3. Top \in DOMAIN builder.mutations
  BY <1>2 DEF Top
<1> QED
  BY <1>1, <1>3 DEF BuilderAgrees, M, S

\* A call changes the builder it is made on and nothing else.
LEMMA CallAgrees ==
  ASSUME BuilderAgrees, NEW e, Calling(e), NEW m, NEW s, Call(m, s),
         Agrees(builder.kind, e, m, s)
  PROVE  BuilderAgrees'
<1>1. PICK ms, ss, k : ms = builder.mutations /\ ss = builder.said /\ k = builder.kind
  OBVIOUS
<1>2. /\ builder # NoBuilder /\ builder.entity = e /\ e \in Entities
  BY TopAgrees
<1>3. /\ ms \in Seq(Mutations(e)) /\ ss \in Seq(Sayings(e)) /\ Len(ss) = Len(ms)
      /\ k \in Kinds /\ IF k = "CreateBulk" THEN Len(ms) \in {1, 2} ELSE Len(ms) = 1
      /\ \A i \in DOMAIN ms : Agrees(k, e, ms[i], ss[i])
  BY <1>1, <1>2 DEF BuilderAgrees, Top
<1>4. m \in Mutations(e) /\ s \in Sayings(e)
  BY DEF Agrees
<1> DEFINE n == [ms EXCEPT ![Len(ms)] = m]
           w == [ss EXCEPT ![Len(ms)] = s]
<1>5. /\ builder' # NoBuilder /\ builder'.entity = e
      /\ builder'.mutations = n /\ builder'.said = w /\ builder'.kind = k
  <2>1. builder' = [builder EXCEPT !.mutations[Top] = m, !.said[Top] = s]
    BY DEF Call
  <2>2. builder \in [kind : Kinds, entity : Entities, where : {builder.where},
                     id : {builder.id}, inTx : BOOLEAN,
                     mutations : Seq(Mutations(e)), said : Seq(Sayings(e))]
    BY <1>2 DEF BuilderAgrees
  <2>3. /\ builder'.mutations = n /\ builder'.said = w /\ builder'.kind = k /\ builder'.entity = e
    BY <1>1, <1>2, <2>1, <2>2 DEF Top
  <2> QED
    BY <1>3, <2>3 DEF NoBuilder, Kinds
<1>6. builder' \in [kind : Kinds, entity : Entities, where : {builder'.where},
                    id : {builder'.id}, inTx : BOOLEAN,
                    mutations : Seq(Mutations(e)), said : Seq(Sayings(e))]
  <2>1. builder' = [builder EXCEPT !.mutations[Top] = m, !.said[Top] = s]
    BY DEF Call
  <2>2. builder \in [kind : Kinds, entity : Entities, where : {builder.where},
                     id : {builder.id}, inTx : BOOLEAN,
                     mutations : Seq(Mutations(e)), said : Seq(Sayings(e))]
    BY <1>2 DEF BuilderAgrees
  <2>3. n \in Seq(Mutations(e)) /\ w \in Seq(Sayings(e))
    BY <1>3, <1>4
  <2> QED
    BY <1>1, <2>1, <2>2, <2>3 DEF Top
<1>7. /\ Len(n) = Len(ms) /\ Len(w) = Len(ss) /\ DOMAIN n = DOMAIN ms
      /\ \A i \in DOMAIN ms : n[i] = IF i = Len(ms) THEN m ELSE ms[i]
      /\ \A i \in DOMAIN ms : w[i] = IF i = Len(ms) THEN s ELSE ss[i]
  BY <1>3, <1>4
<1>8. \A i \in DOMAIN n : Agrees(k, e, n[i], w[i])
  BY <1>1, <1>3, <1>7
<1> HIDE DEF n, w
<1> QED
  BY <1>3, <1>5, <1>6, <1>7, <1>8 DEF BuilderAgrees, Top

\* The setters, clearers and resetters of a column.
LEMMA FieldAgrees ==
  ASSUME BuilderAgrees, NEW e, Calling(e), NEW f \in Columns[e], f # "namespace_plugins",
         NEW values \in SUBSET (Words \cup Times \cup Nat),
         \/ FieldCall(f, values) /\ (f # "user_id" \/ e # "Namespace")
         \/ \E v \in values : SetField(f, v)
  PROVE  BuilderAgrees'
<1>1. e \in Entities /\ Agrees(builder.kind, e, M, S)
  BY TopAgrees
<1>2. CASE \E v \in values : SetField(f, v)
  <2>1. PICK v \in values : SetField(f, v)
    BY <1>2
  <2>2. v \in Values /\ v # Null /\ v # Unset
    BY NullAssumption, UnsetAssumption DEF Values
  <2>3. Agrees(builder.kind, e, [M EXCEPT !.set[f] = v], [S EXCEPT !.column[f] = v])
    BY <1>1, <2>2, SetAgrees
  <2> QED
    BY <2>1, <2>3, CallAgrees DEF SetField
<1>3. CASE ResetField(f) /\ (f # "user_id" \/ e # "Namespace")
  <2>1. Unset \in Values /\ Unset # Null
    BY UnsetAssumption DEF Values
  <2>2. Agrees(builder.kind, e, [M EXCEPT !.set[f] = Unset], [S EXCEPT !.column[f] = Unset])
    BY <1>1, <1>3, <2>1, SetAgrees
  <2> QED
    BY <1>3, <2>2, CallAgrees DEF ResetField
<1> QED
  BY <1>2, <1>3 DEF FieldCall

LEMMA OwnerFieldAgrees ==
  ASSUME BuilderAgrees, Calling("Namespace"),
         ClearField("user_id") \/ ResetOptionalField("user_id")
  PROVE  BuilderAgrees'
<1>1. Agrees(builder.kind, "Namespace", M, S)
  BY TopAgrees
<1>2. CASE ClearField("user_id")
  BY <1>1, <1>2, ClearFieldAgrees, CallAgrees DEF ClearField
<1>3. CASE ResetOptionalField("user_id")
  BY <1>1, <1>3, ResetOptionalAgrees, CallAgrees DEF ResetOptionalField
<1> QED
  BY <1>2, <1>3

LEMMA OwnerCallAgrees ==
  ASSUME BuilderAgrees, NEW e, Calling(e), NEW f, OwnerColumns[e] = {f}, OwnerCall(f)
  PROVE  BuilderAgrees'
<1>1. e \in Entities /\ builder.entity = e /\ Agrees(builder.kind, e, M, S)
  BY TopAgrees
<1>2. CASE ClearOwner(f)
  BY <1>1, <1>2, ClearOwnerAgrees, CallAgrees DEF ClearOwner
<1>3. CASE ResetOwner(f)
  <2>1. Call([M EXCEPT !.set[f] = Unset, !.uncoupled = FALSE],
             [S EXCEPT !.column[f] = Unset, !.emptied = @ \ {f},
                       !.vague = @ \/ (<<e, f>> \in Nullable /\ f \in M.cleared)])
    BY <1>1, <1>3 DEF ResetOwner
  <2>2. Agrees(builder.kind, e,
          [M EXCEPT !.set[f] = Unset, !.uncoupled = FALSE],
          [S EXCEPT !.column[f] = Unset, !.emptied = @ \ {f},
                    !.vague = @ \/ (<<e, f>> \in Nullable /\ f \in M.cleared)])
    BY <1>1, ResetOwnerAgrees
  <2> QED
    BY <2>1, <2>2, CallAgrees
<1> QED
  BY <1>2, <1>3 DEF OwnerCall

LEMMA SetIDAgrees ==
  ASSUME BuilderAgrees, NEW e, Calling(e), NEW i \in Ids, SetID(i)
  PROVE  BuilderAgrees'
BY TopAgrees, IdAgrees, CallAgrees DEF SetID

LEMMA ChildrenCallAgrees ==
  ASSUME BuilderAgrees, NEW e, Calling(e), NEW g \in EdgesOf(e), ChildrenCall(g)
  PROVE  BuilderAgrees'
<1>1. e \in Entities /\ Agrees(builder.kind, e, M, S)
  BY TopAgrees
<1>2. CASE \E i \in Ids : AddChild(g, i)
  BY <1>1, <1>2, AddChildAgrees, CallAgrees DEF AddChild
<1>3. CASE \E i \in Ids : RemoveChild(g, i)
  BY <1>1, <1>3, RemoveChildAgrees, CallAgrees DEF RemoveChild
<1>4. CASE ClearChildren(g)
  BY <1>1, <1>4, ClearChildrenAgrees, CallAgrees DEF ClearChildren
<1>5. CASE ResetChildren(g)
  BY <1>1, <1>5, ResetChildrenAgrees, CallAgrees DEF ResetChildren
<1> QED
  BY <1>2, <1>3, <1>4, <1>5 DEF ChildrenCall

LEMMA OpenAgrees ==
  ASSUME BuilderAgrees, NEW kind \in Kinds, NEW e \in Entities, NEW where, NEW id,
         Open(kind, e, where, id)
  PROVE  BuilderAgrees'
<1> DEFINE m == NewMutation(e)
           s == NothingSaid(e)
<1>1. Agrees(kind, e, m, s) /\ m \in Mutations(e) /\ s \in Sayings(e)
  BY NewAgrees DEF Agrees
<1>2. builder' = [kind |-> kind, entity |-> e, where |-> where, id |-> id,
                  inTx |-> InTx, mutations |-> <<m>>, said |-> <<s>>]
  BY DEF Open
<1> HIDE DEF m, s
<1>3. /\ <<m>> \in Seq(Mutations(e)) /\ <<s>> \in Seq(Sayings(e))
      /\ Len(<<m>>) = 1 /\ Len(<<s>>) = 1
      /\ \A i \in DOMAIN <<m>> : Agrees(kind, e, <<m>>[i], <<s>>[i])
  BY <1>1
<1>4. InTx \in BOOLEAN
  BY DEF InTx
<1>5. /\ builder'.kind = kind /\ builder'.entity = e /\ builder'.mutations = <<m>>
      /\ builder'.said = <<s>>
  BY <1>2
<1>6. builder' \in [kind : Kinds, entity : Entities, where : {builder'.where},
                    id : {builder'.id}, inTx : BOOLEAN,
                    mutations : Seq(Mutations(e)), said : Seq(Sayings(e))]
  BY <1>2, <1>3, <1>4
<1> QED
  BY <1>3, <1>5, <1>6 DEF BuilderAgrees, Top

LEMMA OpenAnyAgrees ==
  ASSUME BuilderAgrees, NEW e \in Entities, NEW predicates, OpenAny(e, predicates)
  PROVE  BuilderAgrees'
BY OpenAgrees DEF OpenAny, Kinds

LEMMA AnotherAgrees ==
  ASSUME BuilderAgrees, NEW e, AnotherBuilder(e)
  PROVE  BuilderAgrees'
<1>1. PICK ms, ss : ms = builder.mutations /\ ss = builder.said
  OBVIOUS
<1>2. /\ builder # NoBuilder /\ builder.entity = e /\ e \in Entities
      /\ builder.kind = "CreateBulk" /\ Agrees("CreateBulk", e, M, S) /\ Top < 2
  BY TopAgrees DEF AnotherBuilder, BulkSize
<1>3. /\ ms \in Seq(Mutations(e)) /\ ss \in Seq(Sayings(e)) /\ Len(ss) = Len(ms)
      /\ Len(ms) \in {1, 2} /\ Len(ms) < 2
      /\ \A i \in DOMAIN ms : Agrees("CreateBulk", e, ms[i], ss[i])
  BY <1>1, <1>2 DEF BuilderAgrees, Top
<1>4. PICK m, s : /\ Agrees("CreateBulk", e, m, s)
                  /\ builder' = [builder EXCEPT !.mutations = Append(@, m), !.said = Append(@, s)]
  <2>1. PICK next \in {<<NewMutation(e), NothingSaid(e)>>, <<M, S>>} :
          builder' = [builder EXCEPT !.mutations = Append(@, next[1]),
                                     !.said = Append(@, next[2])]
    BY DEF AnotherBuilder
  <2>2. Agrees("CreateBulk", e, next[1], next[2])
    <3>1. Agrees("CreateBulk", e, NewMutation(e), NothingSaid(e))
      BY <1>2, NewAgrees
    <3> QED
      BY <1>2, <2>1, <3>1
  <2> QED
    BY <2>1, <2>2
<1>5. m \in Mutations(e) /\ s \in Sayings(e)
  BY <1>4 DEF Agrees
<1> DEFINE n == Append(ms, m)
           w == Append(ss, s)
<1>6. builder \in [kind : Kinds, entity : Entities, where : {builder.where},
                   id : {builder.id}, inTx : BOOLEAN,
                   mutations : Seq(Mutations(e)), said : Seq(Sayings(e))]
  BY <1>2 DEF BuilderAgrees
<1>7. /\ n \in Seq(Mutations(e)) /\ w \in Seq(Sayings(e)) /\ Len(n) = 2 /\ Len(w) = 2
      /\ \A i \in DOMAIN n : Agrees("CreateBulk", e, n[i], w[i])
  BY <1>3, <1>4, <1>5
<1> HIDE DEF n, w
<1>8. /\ builder'.kind = "CreateBulk" /\ builder'.entity = e
      /\ builder'.mutations = n /\ builder'.said = w
  BY <1>1, <1>2, <1>4, <1>6 DEF n, w
<1>9. builder' \in [kind : Kinds, entity : Entities, where : {builder'.where},
                    id : {builder'.id}, inTx : BOOLEAN,
                    mutations : Seq(Mutations(e)), said : Seq(Sayings(e))]
  BY <1>1, <1>4, <1>6, <1>7 DEF n, w
<1> QED
  BY <1>7, <1>8, <1>9 DEF BuilderAgrees, Top
-----------------------------------------------------------------------------
\* What the statements on an edge do to the foreign keys behind it.
Key(t, g, k) == t[Edge[g].child][k][Edge[g].column]

\* u is t but for the foreign keys of the edges G.
Rekeyed(t, u, G) ==
  \A f \in Entities :
    /\ DOMAIN u[f] = DOMAIN t[f]
    /\ \A id \in DOMAIN t[f], c \in Columns[f] :
         (\A g \in G : f # Edge[g].child \/ c # Edge[g].column) => u[f][id][c] = t[f][id][c]

\* The keys of the children ids become v.
Put(t, u, g, ids, v) ==
  \A k \in DOMAIN t[Edge[g].child] : Key(u, g, k) = IF k \in ids THEN v ELSE Key(t, g, k)

IsCut(t, m, g, parents, k) ==
  (\E p \in parents : k \in Children(t, g, p)) /\ (g \in m.wiped \/ k \in m.removed[g])

Unlinked(t, u, m, g, parents) ==
  \A k \in DOMAIN t[Edge[g].child] :
    Key(u, g, k) = IF IsCut(t, m, g, parents, k) THEN Null ELSE Key(t, g, k)

Linked(t, u, m, g, parents) ==
  /\ parents # {} => m.added[g] \subseteq Children(t, g, Null)
  /\ \A k \in DOMAIN t[Edge[g].child] :
       Key(u, g, k) = IF k \in m.added[g] /\ parents # {}
                      THEN CHOOSE p \in parents : TRUE ELSE Key(t, g, k)

LEMMA PutColumnEffect ==
  ASSUME NEW t, RowsValid(t), NEW g \in EdgeNames, NEW ids, NEW v
  PROVE  LET u == PutColumn(t, Edge[g].child, ids, Edge[g].column, v) IN
         Rekeyed(t, u, {g}) /\ Put(t, u, g, ids, v)
<1> DEFINE e == Edge[g].child
           c == Edge[g].column
           u == PutColumn(t, e, ids, c, v)
<1>1. e \in Entities /\ c \in Columns[e]
  BY KeyFacts
<1>2. \A f \in Entities : DOMAIN u[f] = DOMAIN t[f]
  BY <1>1 DEF PutColumn, RowsValid
<1>3. \A f \in Entities : \A id \in DOMAIN t[f] :
         /\ f # e => u[f][id] = t[f][id]
         /\ f = e => u[f][id] = IF id \in ids THEN [t[f][id] EXCEPT ![c] = v] ELSE t[f][id]
  BY <1>1 DEF PutColumn, RowsValid
<1>4. \A f \in Entities : \A id \in DOMAIN t[f] : DOMAIN t[f][id] = Columns[f]
  BY DEF RowsValid, RowValid
<1> QED
  <2> HIDE DEF e, c, u
  <2>1. ASSUME NEW f \in Entities, NEW id \in DOMAIN t[f], NEW d \in Columns[f], f # e \/ d # c
        PROVE  u[f][id][d] = t[f][id][d]
    BY <1>1, <1>3, <1>4, <2>1
  <2>2. ASSUME NEW k \in DOMAIN t[e]
        PROVE  u[e][k][c] = IF k \in ids THEN v ELSE t[e][k][c]
    BY <1>1, <1>3, <1>4
  <2> QED
    BY <1>2, <2>1, <2>2 DEF Rekeyed, Put, Key, e, c, u

LEMMA SameEffect ==
  ASSUME NEW t
  PROVE  Rekeyed(t, t, {})
BY DEF Rekeyed

LEMMA UnlinkEffect ==
  ASSUME NEW r, OutcomeOK(r), NEW m, NEW g \in EdgeNames, NEW parents, NEW u,
         u = Unlink(r, m, g, parents)
  PROVE  /\ Rekeyed(r.t, u.t, {g})
         /\ u.status = "ok" => r.status = "ok" /\ Unlinked(r.t, u.t, m, g, parents)
<1> DEFINE stored == UNION {Children(r.t, g, p) : p \in parents}
           ids == IF g \in m.wiped THEN stored ELSE stored \cap m.removed[g]
           cut == PutColumn(r.t, Edge[g].child, ids, Edge[g].column, Null)
<1>1. RowsValid(r.t)
  BY DEF OutcomeOK
<1>2. Rekeyed(r.t, cut, {g}) /\ Put(r.t, cut, g, ids, Null)
  <2> HIDE DEF ids
  <2> QED
    BY <1>1, PutColumnEffect
<1>3. \A k : k \in ids <=> IsCut(r.t, m, g, parents, k)
  BY DEF IsCut
<1>4. CASE r.status # "ok" \/ ids = {}
  <2>1. u = r
    BY <1>4 DEF Unlink
  <2>2. ids = {} => Unlinked(r.t, u.t, m, g, parents)
    BY <1>3, <2>1 DEF Unlinked
  <2> QED
    BY <1>4, <2>1, <2>2 DEF Rekeyed
<1>5. CASE r.status = "ok" /\ ids # {}
  <2>1. u = Execute(cut)
    BY <1>5 DEF Unlink
  <2>2. u.t = cut
    BY <2>1 DEF Execute, Outcome
  <2>3. Unlinked(r.t, u.t, m, g, parents)
    BY <1>2, <1>3, <2>2 DEF Unlinked, Put
  <2> QED
    BY <1>2, <1>5, <2>2, <2>3
<1> QED
  BY <1>4, <1>5

LEMMA LinkEffect ==
  ASSUME NEW r, OutcomeOK(r), NEW m, NEW g \in EdgeNames, NEW parents, NEW u,
         u = Link(r, m, g, parents)
  PROVE  /\ Rekeyed(r.t, u.t, {g})
         /\ u.status = "ok" => r.status = "ok" /\ Linked(r.t, u.t, m, g, parents)
<1> DEFINE free == m.added[g] \cap Children(r.t, g, Null)
           parent == CHOOSE p \in parents : TRUE
           put == PutColumn(r.t, Edge[g].child, free, Edge[g].column, parent)
           done == Execute(put)
<1>1. RowsValid(r.t)
  BY DEF OutcomeOK
<1>2. Rekeyed(r.t, put, {g}) /\ Put(r.t, put, g, free, parent)
  <2> HIDE DEF free, parent
  <2> QED
    BY <1>1, PutColumnEffect
<1>3. done.t = put /\ done.status \in {"ok", "error"}
  BY DEF Execute, Outcome
<1>4. CASE r.status # "ok" \/ m.added[g] = {} \/ parents = {}
  <2>1. u = r
    BY <1>4 DEF Link
  <2>2. r.status = "ok" => Linked(r.t, u.t, m, g, parents)
    BY <1>4, <2>1 DEF Linked
  <2> QED
    BY <1>4, <2>1, <2>2 DEF Rekeyed
<1>5. CASE r.status = "ok" /\ m.added[g] # {} /\ parents # {}
  <2>1. \/ u = Outcome("refused", r.t)
        \/ u = Outcome("refused", done.t)
        \/ u = done /\ (done.status = "ok" => free = m.added[g])
    BY <1>5 DEF Link
  <2> HIDE DEF done, put
  <2>2. CASE u = Outcome("refused", r.t)
    BY <2>2 DEF Outcome, Rekeyed
  <2>3. CASE u = Outcome("refused", done.t)
    BY <1>2, <1>3, <2>3 DEF Outcome
  <2>4. CASE u = done /\ (done.status = "ok" => free = m.added[g])
    BY <1>2, <1>3, <1>5, <2>4 DEF Linked, Put
  <2> QED
    BY <2>1, <2>2, <2>3, <2>4
<1> QED
  BY <1>4, <1>5

LEMMA EdgesFacts ==
  /\ EdgesOf("Namespace") = {"plugins"} /\ EdgesOf("Plugin") = {"versions"}
  /\ EdgesOf("User") = {"refresh_tokens", "namespaces"}
  /\ EdgesOf("PluginVersion") = {} /\ EdgesOf("RefreshToken") = {}
BY EdgeFacts DEF EdgesOf

\* No edge leads from a table to itself, and no two from one table to another.
LEMMA EdgesApart ==
  ASSUME NEW e \in Entities, NEW g \in EdgesOf(e)
  PROVE  /\ g \in EdgeNames /\ Edge[g].parent = e /\ Edge[g].child # e
         /\ \A h \in EdgesOf(e) \ {g} : Edge[h].child # Edge[g].child
BY EdgeFacts, EdgesFacts DEF Entities

LEMMA RekeyedTwice ==
  ASSUME NEW t, NEW u, NEW v, NEW G, NEW H, Rekeyed(t, u, G), Rekeyed(u, v, H)
  PROVE  Rekeyed(t, v, G \cup H)
BY DEF Rekeyed

\* Statements on one edge leave the keys behind another one alone.
LEMMA OtherEdge ==
  ASSUME NEW t, NEW u, NEW g \in EdgeNames, NEW h \in EdgeNames, Rekeyed(t, u, {g}),
         Edge[h].child # Edge[g].child
  PROVE  /\ DOMAIN u[Edge[h].child] = DOMAIN t[Edge[h].child]
         /\ \A k \in DOMAIN t[Edge[h].child] : Key(u, h, k) = Key(t, h, k)
         /\ \A p : Children(u, h, p) = Children(t, h, p)
<1>1. Edge[h].child \in Entities /\ Edge[h].column \in Columns[Edge[h].child]
  BY KeyFacts
<1>2. /\ DOMAIN u[Edge[h].child] = DOMAIN t[Edge[h].child]
      /\ \A k \in DOMAIN t[Edge[h].child] :
           u[Edge[h].child][k][Edge[h].column] = t[Edge[h].child][k][Edge[h].column]
  BY <1>1 DEF Rekeyed
<1> QED
  BY <1>2 DEF Key, Children

LEMMA UnlinkAllEffect ==
  ASSUME NEW r, OutcomeOK(r), NEW m, NEW e \in Entities, NEW parents, NEW u,
         u = UnlinkAll(r, m, e, parents)
  PROVE  /\ OutcomeOK(u) /\ Rekeyed(r.t, u.t, EdgesOf(e))
         /\ u.status = "ok" =>
              r.status = "ok" /\ \A g \in EdgesOf(e) : Unlinked(r.t, u.t, m, g, parents)
<1>1. CASE e = "Namespace"
  <2>1. u = Unlink(r, m, "plugins", parents) /\ EdgesOf(e) = {"plugins"} /\ "plugins" \in EdgeNames
    BY <1>1, EdgesFacts, EdgeFacts DEF UnlinkAll
  <2>2. OutcomeOK(u)
    BY <2>1, UnlinkOK
  <2>3. /\ Rekeyed(r.t, u.t, {"plugins"})
        /\ u.status = "ok" => r.status = "ok" /\ Unlinked(r.t, u.t, m, "plugins", parents)
    BY <2>1, UnlinkEffect
  <2> QED
    BY <2>1, <2>2, <2>3
<1>2. CASE e = "Plugin"
  <2>1. u = Unlink(r, m, "versions", parents) /\ EdgesOf(e) = {"versions"} /\ "versions" \in EdgeNames
    BY <1>2, EdgesFacts, EdgeFacts DEF UnlinkAll
  <2>2. OutcomeOK(u)
    BY <2>1, UnlinkOK
  <2>3. /\ Rekeyed(r.t, u.t, {"versions"})
        /\ u.status = "ok" => r.status = "ok" /\ Unlinked(r.t, u.t, m, "versions", parents)
    BY <2>1, UnlinkEffect
  <2> QED
    BY <2>1, <2>2, <2>3
<1>3. CASE e = "PluginVersion" \/ e = "RefreshToken"
  BY <1>3, SameEffect, EdgesFacts DEF UnlinkAll
<1>4. CASE e = "User"
  <2> DEFINE g == "refresh_tokens"
             h == "namespaces"
  <2>1. PICK v : v = Unlink(r, m, g, parents)
    OBVIOUS
  <2>2. u = Unlink(v, m, h, parents)
    BY <1>4, <2>1 DEF UnlinkAll
  <2>3. OutcomeOK(v) /\ OutcomeOK(u)
    BY <2>1, <2>2, UnlinkOK, EdgeFacts
  <2>4. /\ Rekeyed(r.t, v.t, {g})
        /\ v.status = "ok" => r.status = "ok" /\ Unlinked(r.t, v.t, m, g, parents)
    BY <2>1, UnlinkEffect, EdgeFacts
  <2>5. /\ Rekeyed(v.t, u.t, {h})
        /\ u.status = "ok" => v.status = "ok" /\ Unlinked(v.t, u.t, m, h, parents)
    BY <2>2, <2>3, UnlinkEffect, EdgeFacts
  <2>6. Rekeyed(r.t, u.t, EdgesOf(e))
    <3>1. EdgesOf(e) = {g} \cup {h}
      BY <1>4, EdgesFacts
    <3> QED
      BY <2>4, <2>5, <3>1, RekeyedTwice
  <2>7. /\ DOMAIN v.t[Edge[h].child] = DOMAIN r.t[Edge[h].child]
        /\ \A k \in DOMAIN r.t[Edge[h].child] : Key(v.t, h, k) = Key(r.t, h, k)
        /\ \A p : Children(v.t, h, p) = Children(r.t, h, p)
    BY <2>4, OtherEdge, EdgeFacts
  <2>8. \A k \in DOMAIN v.t[Edge[g].child] : Key(u.t, g, k) = Key(v.t, g, k)
    BY <2>5, OtherEdge, EdgeFacts
  <2>9. DOMAIN v.t[Edge[g].child] = DOMAIN r.t[Edge[g].child]
    BY <2>4, KeyFacts, EdgeFacts DEF Rekeyed
  <2>10. u.status = "ok" => Unlinked(r.t, u.t, m, g, parents)
    BY <2>4, <2>5, <2>8, <2>9 DEF Unlinked
  <2>11. u.status = "ok" => Unlinked(r.t, u.t, m, h, parents)
    BY <2>5, <2>7 DEF Unlinked, IsCut
  <2> QED
    BY <1>4, <2>3, <2>4, <2>5, <2>6, <2>10, <2>11, EdgesFacts
<1> QED
  BY <1>1, <1>2, <1>3, <1>4 DEF Entities

LEMMA LinkAllEffect ==
  ASSUME NEW r, OutcomeOK(r), NEW m, NEW e \in Entities, NEW parents, NEW u,
         u = LinkAll(r, m, e, parents)
  PROVE  /\ OutcomeOK(u) /\ Rekeyed(r.t, u.t, EdgesOf(e))
         /\ u.status = "ok" =>
              r.status = "ok" /\ \A g \in EdgesOf(e) : Linked(r.t, u.t, m, g, parents)
<1>1. CASE e = "Namespace"
  <2>1. u = Link(r, m, "plugins", parents) /\ EdgesOf(e) = {"plugins"} /\ "plugins" \in EdgeNames
    BY <1>1, EdgesFacts, EdgeFacts DEF LinkAll
  <2>2. OutcomeOK(u)
    BY <2>1, LinkOK
  <2>3. /\ Rekeyed(r.t, u.t, {"plugins"})
        /\ u.status = "ok" => r.status = "ok" /\ Linked(r.t, u.t, m, "plugins", parents)
    BY <2>1, LinkEffect
  <2> QED
    BY <2>1, <2>2, <2>3
<1>2. CASE e = "Plugin"
  <2>1. u = Link(r, m, "versions", parents) /\ EdgesOf(e) = {"versions"} /\ "versions" \in EdgeNames
    BY <1>2, EdgesFacts, EdgeFacts DEF LinkAll
  <2>2. OutcomeOK(u)
    BY <2>1, LinkOK
  <2>3. /\ Rekeyed(r.t, u.t, {"versions"})
        /\ u.status = "ok" => r.status = "ok" /\ Linked(r.t, u.t, m, "versions", parents)
    BY <2>1, LinkEffect
  <2> QED
    BY <2>1, <2>2, <2>3
<1>3. CASE e = "PluginVersion" \/ e = "RefreshToken"
  BY <1>3, SameEffect, EdgesFacts DEF LinkAll
<1>4. CASE e = "User"
  <2> DEFINE g == "refresh_tokens"
             h == "namespaces"
  <2>1. PICK v : v = Link(r, m, g, parents)
    OBVIOUS
  <2>2. u = Link(v, m, h, parents)
    BY <1>4, <2>1 DEF LinkAll
  <2>3. OutcomeOK(v) /\ OutcomeOK(u)
    BY <2>1, <2>2, LinkOK, EdgeFacts
  <2>4. /\ Rekeyed(r.t, v.t, {g})
        /\ v.status = "ok" => r.status = "ok" /\ Linked(r.t, v.t, m, g, parents)
    BY <2>1, LinkEffect, EdgeFacts
  <2>5. /\ Rekeyed(v.t, u.t, {h})
        /\ u.status = "ok" => v.status = "ok" /\ Linked(v.t, u.t, m, h, parents)
    BY <2>2, <2>3, LinkEffect, EdgeFacts
  <2>6. Rekeyed(r.t, u.t, EdgesOf(e))
    <3>1. EdgesOf(e) = {g} \cup {h}
      BY <1>4, EdgesFacts
    <3> QED
      BY <2>4, <2>5, <3>1, RekeyedTwice
  <2>7. /\ DOMAIN v.t[Edge[h].child] = DOMAIN r.t[Edge[h].child]
        /\ \A k \in DOMAIN r.t[Edge[h].child] : Key(v.t, h, k) = Key(r.t, h, k)
        /\ \A p : Children(v.t, h, p) = Children(r.t, h, p)
    BY <2>4, OtherEdge, EdgeFacts
  <2>8. \A k \in DOMAIN v.t[Edge[g].child] : Key(u.t, g, k) = Key(v.t, g, k)
    BY <2>5, OtherEdge, EdgeFacts
  <2>9. DOMAIN v.t[Edge[g].child] = DOMAIN r.t[Edge[g].child]
    BY <2>4, KeyFacts, EdgeFacts DEF Rekeyed
  <2>10. u.status = "ok" => Linked(r.t, u.t, m, g, parents)
    BY <2>4, <2>5, <2>8, <2>9 DEF Linked
  <2>11. u.status = "ok" => Linked(r.t, u.t, m, h, parents)
    BY <2>5, <2>7 DEF Linked
  <2> QED
    BY <1>4, <2>3, <2>4, <2>5, <2>6, <2>10, <2>11, EdgesFacts
<1> QED
  BY <1>1, <1>2, <1>3, <1>4 DEF Entities

LEMMA RekeyedRow ==
  ASSUME NEW t, NEW u, NEW e \in Entities, Rekeyed(t, u, EdgesOf(e))
  PROVE  /\ DOMAIN u[e] = DOMAIN t[e]
         /\ \A id \in DOMAIN t[e], c \in Columns[e] : u[e][id][c] = t[e][id][c]
BY EdgesApart DEF Rekeyed

\* An edge leads from immutable columns of no table.
Keeps(t, u) ==
  \A f \in Entities : \A id \in DOMAIN t[f] \cap DOMAIN u[f] :
    \A c \in ImmutableColumns[f] : u[f][id][c] = t[f][id][c]

LEMMA RekeyedKeeps ==
  ASSUME NEW t, NEW u, NEW e \in Entities, Rekeyed(t, u, EdgesOf(e))
  PROVE  \A f \in Entities : /\ DOMAIN u[f] = DOMAIN t[f]
                             /\ \A id \in DOMAIN t[f], c \in ImmutableColumns[f] :
                                  u[f][id][c] = t[f][id][c]
<1>1. \A f \in Entities : ImmutableColumns[f] \subseteq Columns[f]
  BY DEF Entities, ImmutableColumns, Columns
<1>2. \A g \in EdgesOf(e) : Edge[g].column \notin ImmutableColumns[Edge[g].child]
  BY KeyFacts, EdgesApart
<1> QED
  BY <1>1, <1>2 DEF Rekeyed

\* The edges of a row are as said, whatever they were.
LEMMA ChildrenSaid ==
  ASSUME NEW t, NEW v, NEW g \in EdgeNames, NEW parents, Null \notin parents,
         NEW m, NEW e, NEW s \in Sayings(e), g \in EdgesOf(e), ChildAgrees(m, s, g),
         DOMAIN v[Edge[g].child] = DOMAIN t[Edge[g].child],
         parents # {} => m.added[g] \subseteq DOMAIN t[Edge[g].child],
         \A k \in DOMAIN t[Edge[g].child] :
           Key(v, g, k) = IF k \in m.added[g] /\ parents # {} THEN CHOOSE p \in parents : TRUE
                          ELSE IF IsCut(t, m, g, parents, k) THEN Null ELSE Key(t, g, k)
  PROVE  ChildrenAsSaid(g, parents, s, t, v)
<1> SUFFICES ASSUME NEW i \in Ids
             PROVE  LET was == \E p \in parents : i \in Children(t, g, p)
                        is == \E p \in parents : i \in Children(v, g, p)
                    IN CASE s.child[g][i] = "in" -> parents # {} => is
                         [] s.child[g][i] = "out" -> ~is
                         [] OTHER -> is = (was /\ g \notin s.emptied)
  BY DEF ChildrenAsSaid
<1> DEFINE was == \E p \in parents : i \in Children(t, g, p)
           is == \E p \in parents : i \in Children(v, g, p)
<1>1. s.child[g][i] \in {"in", "out", "unsaid"}
  BY DEF Sayings
<1>2. \A p : i \in Children(t, g, p) <=> i \in DOMAIN t[Edge[g].child] /\ Key(t, g, i) = p
  BY DEF Children, Key
<1>3. \A p : i \in Children(v, g, p) <=> i \in DOMAIN t[Edge[g].child] /\ Key(v, g, i) = p
  BY DEF Children, Key
<1>4. was <=> i \in DOMAIN t[Edge[g].child] /\ Key(t, g, i) \in parents
  BY <1>2
<1>5. is <=> i \in DOMAIN t[Edge[g].child] /\ Key(v, g, i) \in parents
  BY <1>3
<1>6. i \in DOMAIN t[Edge[g].child] =>
        (IsCut(t, m, g, parents, i) <=>
           Key(t, g, i) \in parents /\ (g \in m.wiped \/ i \in m.removed[g]))
  BY <1>2 DEF IsCut
<1>7. parents # {} => (CHOOSE p \in parents : TRUE) \in parents
  OBVIOUS
<1> HIDE DEF was, is
<1>8. CASE s.child[g][i] = "in"
  <2>1. i \in m.added[g]
    BY <1>8 DEF ChildAgrees
  <2>2. parents # {} => is
    BY <1>5, <1>7, <2>1
  <2> QED
    BY <1>8, <2>2 DEF is
<1>9. CASE s.child[g][i] = "out"
  <2>1. i \notin m.added[g] /\ i \in m.removed[g]
    BY <1>9 DEF ChildAgrees
  <2>2. ~is
    BY <1>5, <1>6, <2>1
  <2> QED
    BY <1>9, <2>2 DEF is
<1>10. CASE s.child[g][i] = "unsaid"
  <2>1. i \notin m.added[g] /\ i \notin m.removed[g] /\ (g \in s.emptied <=> g \in m.wiped)
    BY <1>10 DEF ChildAgrees
  <2>2. is <=> was /\ g \notin s.emptied
    BY <1>4, <1>5, <1>6, <2>1
  <2>3. is = (was /\ g \notin s.emptied)
    BY <2>2 DEF is, was
  <2> QED
    BY <1>10, <2>3 DEF is, was
<1> QED
  BY <1>1, <1>8, <1>9, <1>10

LEMMA ChosenRows ==
  ASSUME NEW e
  PROVE  Chosen(e) \subseteq DOMAIN Target[e]
BY DEF Chosen, Matching

\* The rows ids after an update, and the children of each.
RowsChanged(t, u, e, m, ids, rows) ==
  /\ DOMAIN u[e] = DOMAIN t[e]
  /\ \A id \in ids, c \in Columns[e] : u[e][id][c] = rows[id][c]
  /\ \A g \in EdgesOf(e) :
       /\ DOMAIN u[Edge[g].child] = DOMAIN t[Edge[g].child]
       /\ ids # {} => m.added[g] \subseteq DOMAIN t[Edge[g].child]
       /\ \A k \in DOMAIN t[Edge[g].child] :
            Key(u, g, k) =
              IF k \in m.added[g] /\ ids # {} THEN CHOOSE p \in ids : TRUE
              ELSE IF IsCut(t, m, g, ids, k) THEN Null ELSE Key(t, g, k)

\* An update, with the rows as the entity's sqlSave writes them.
LEMMA ChangedEffect ==
  ASSUME NEW t, t = Target, RowsValid(t), NEW e \in Entities, NEW m, NEW rows,
         NEW ids, ids = Chosen(e), NEW r, r = Changed(e, m, rows),
         \A id \in DOMAIN t[e] :
           /\ RowValid(e, rows[id])
           /\ \A c \in ImmutableColumns[e] : rows[id][c] = t[e][id][c]
  PROVE  /\ OutcomeOK(r) /\ Keeps(t, r.t)
         /\ r.status = "ok" => RowsChanged(t, r.t, e, m, ids, rows)
<1> DEFINE table == [id \in DOMAIN t[e] |-> IF id \in ids THEN rows[id] ELSE t[e][id]]
<1>1. PICK w : w = [t EXCEPT ![e] = table]
  OBVIOUS
<1>2. PICK r0, r1 : /\ r0 = Execute(w) /\ r1 = UnlinkAll(r0, m, e, ids)
  OBVIOUS
<1>3. r = LinkAll(r1, m, e, ids)
  BY <1>1, <1>2 DEF Changed
<1>4. RowsValid(t) /\ ids \subseteq DOMAIN t[e]
  BY ChosenRows
<1>5. \A id \in DOMAIN table : id \in Nat /\ RowValid(e, table[id])
  BY <1>4 DEF RowsValid
<1>6. RowsValid(w) /\ w[e] = table /\ \A f \in Entities \ {e} : w[f] = t[f]
  <2>1. w[e] = table /\ DOMAIN w = Entities /\ \A f \in Entities \ {e} : w[f] = t[f]
    BY <1>1, <1>4 DEF RowsValid
  <2> HIDE DEF table
  <2> QED
    BY <1>4, <1>5, <2>1 DEF RowsValid
<1>7. OutcomeOK(r0) /\ r0.t = w
  BY <1>2, <1>6, ExecuteOK DEF Execute, Outcome
<1>8. /\ OutcomeOK(r1) /\ Rekeyed(w, r1.t, EdgesOf(e))
      /\ r1.status = "ok" => \A g \in EdgesOf(e) : Unlinked(w, r1.t, m, g, ids)
  BY <1>2, <1>7, UnlinkAllEffect
<1>9. /\ OutcomeOK(r) /\ Rekeyed(r1.t, r.t, EdgesOf(e))
      /\ r.status = "ok" =>
           r1.status = "ok" /\ \A g \in EdgesOf(e) : Linked(r1.t, r.t, m, g, ids)
  BY <1>3, <1>8, LinkAllEffect
<1>10. Rekeyed(w, r.t, EdgesOf(e))
  <2>1. EdgesOf(e) \cup EdgesOf(e) = EdgesOf(e)
    OBVIOUS
  <2> QED
    BY <1>8, <1>9, <2>1, RekeyedTwice
<1>11. \A f \in Entities : DOMAIN w[f] = DOMAIN t[f]
  BY <1>6
<1>12. \A f \in Entities : DOMAIN r.t[f] = DOMAIN t[f]
  BY <1>10, <1>11 DEF Rekeyed
<1>13. \A id \in ids, c \in Columns[e] : r.t[e][id][c] = rows[id][c]
  BY <1>4, <1>6, <1>10, RekeyedRow
<1>14. Keeps(t, r.t)
  <2>1. \A f \in Entities : \A id \in DOMAIN t[f], c \in ImmutableColumns[f] :
          w[f][id][c] = t[f][id][c]
    BY <1>6
  <2> QED
    BY <1>10, <1>11, <2>1, RekeyedKeeps DEF Keeps
<1>15. ASSUME r.status = "ok", NEW g \in EdgesOf(e)
       PROVE  /\ ids # {} => m.added[g] \subseteq DOMAIN t[Edge[g].child]
              /\ \A k \in DOMAIN t[Edge[g].child] :
                   Key(r.t, g, k) =
                     IF k \in m.added[g] /\ ids # {} THEN CHOOSE p \in ids : TRUE
                     ELSE IF IsCut(t, m, g, ids, k) THEN Null ELSE Key(t, g, k)
  <2>1. Linked(r1.t, r.t, m, g, ids) /\ Unlinked(w, r1.t, m, g, ids)
    BY <1>8, <1>9, <1>15
  <2>2. w[Edge[g].child] = t[Edge[g].child] /\ Edge[g].child \in Entities
    BY <1>6, EdgesApart, KeyFacts
  <2>3. DOMAIN r1.t[Edge[g].child] = DOMAIN t[Edge[g].child]
    BY <1>8, <2>2 DEF Rekeyed
  <2>4. \A k : Key(w, g, k) = Key(t, g, k) /\ (IsCut(w, m, g, ids, k) <=> IsCut(t, m, g, ids, k))
    BY <2>2 DEF Key, IsCut, Children
  <2>5. ids # {} => m.added[g] \subseteq DOMAIN t[Edge[g].child]
    BY <2>1, <2>3 DEF Linked, Children
  <2>6. \A k \in DOMAIN t[Edge[g].child] :
          Key(r1.t, g, k) = IF IsCut(t, m, g, ids, k) THEN Null ELSE Key(t, g, k)
    BY <2>1, <2>2, <2>4 DEF Unlinked
  <2> QED
    BY <2>1, <2>3, <2>5, <2>6 DEF Linked
<1>16. \A g \in EdgesOf(e) : Edge[g].child \in Entities
  BY EdgesApart, KeyFacts
<1> HIDE DEF table
<1>17. r.status = "ok" => RowsChanged(t, r.t, e, m, ids, rows)
  BY <1>12, <1>13, <1>15, <1>16 DEF RowsChanged
<1> QED
  BY <1>9, <1>14, <1>17

\* The ids of new rows are not among the keys yet.
LEMMA KeysKnown ==
  ASSUME NEW t, References(t), NEW e \in Entities, NEW g \in EdgesOf(e),
         NEW k \in DOMAIN t[Edge[g].child], NEW id \in Nat, id \notin DOMAIN t[e]
  PROVE  Key(t, g, k) # id
<1>1. g \in EdgeNames /\ Edge[g].parent = e
  BY EdgesApart
<1>2. Key(t, g, k) \in DOMAIN t[e] \cup {Null}
  BY <1>1 DEF References, Key
<1> QED
  BY <1>2, NullAssumption

\* A new row under id, and the children it begins with.
RowMade(t, u, e, m, id, row) ==
  /\ id \notin DOMAIN t[e]
  /\ \A c \in Columns[e] : u[e][id][c] = row[c]
  /\ \A g \in EdgesOf(e) :
       /\ DOMAIN u[Edge[g].child] = DOMAIN t[Edge[g].child]
       /\ m.added[g] \subseteq DOMAIN t[Edge[g].child]
       /\ \A k \in DOMAIN t[Edge[g].child] :
            /\ Key(t, g, k) # id
            /\ Key(u, g, k) = id <=> k \in m.added[g]

RowsMade(t, u, e, ms, ids, rows) ==
  \A i \in DOMAIN ms : RowMade(t, u, e, ms[i], ids[i], rows[i])

\* An insert, with the rows as the entity's createSpec makes them.
LEMMA InsertedEffect ==
  ASSUME NEW t, t = Target, RowsValid(t), Consistent(t), NEW e \in Entities, NEW ms, NEW rows,
         (DOMAIN ms = {1} /\ Len(ms) = 1) \/ (DOMAIN ms = {1, 2} /\ Len(ms) = 2),
         NEW ids, ids = NewIds(e, ms), NEW r, r = Inserted(e, ms, rows),
         \A i \in DOMAIN ms : RowValid(e, rows[i]) /\ ids[i] \in Nat
  PROVE  /\ OutcomeOK(r) /\ Keeps(t, r.t)
         /\ r.status = "ok" => RowsMade(t, r.t, e, ms, ids, rows)
<1> DEFINE new == {ids[i] : i \in DOMAIN ms}
           at(id) == CHOOSE i \in DOMAIN ms : ids[i] = id
           table == [id \in DOMAIN t[e] \cup new |->
                       IF id \in new THEN rows[at(id)] ELSE t[e][id]]
           fresh == /\ \A i, j \in DOMAIN ms : ids[i] = ids[j] => i = j
                    /\ new \cap DOMAIN t[e] = {}
<1>1. PICK w : w = [t EXCEPT ![e] = table]
  OBVIOUS
<1>2. PICK m1, m2, new1, new2 : /\ m1 = ms[1] /\ new1 = {ids[1]}
                                /\ m2 = ms[2] /\ new2 = {ids[2]}
  OBVIOUS
<1>3. PICK r0, r1, r2, q :
         /\ r0 = IF fresh THEN Execute(w) ELSE Outcome("error", t)
         /\ r1 = LinkAll(r0, m1, e, new1)
         /\ r2 = LinkAll(r1, m2, e, new2)
         /\ q = IF Len(ms) = 1 THEN r1 ELSE r2
  OBVIOUS
<1>4. q = r
  BY <1>1, <1>3, <1>2 DEF Inserted
<1>5. RowsValid(t) /\ References(t) /\ DOMAIN t = Entities
  BY DEF Consistent, RowsValid
<1>6. ASSUME NEW id \in DOMAIN table
      PROVE  id \in Nat /\ RowValid(e, table[id])
  <2>1. CASE id \in new
    <3>1. at(id) \in DOMAIN ms /\ ids[at(id)] = id
      BY <2>1
    <3> QED
      BY <2>1, <3>1
  <2>2. CASE id \notin new
    BY <1>5, <2>2 DEF RowsValid
  <2> QED
    BY <2>1, <2>2
<1>7. /\ RowsValid(w) /\ w[e] = table /\ \A f \in Entities \ {e} : w[f] = t[f]
  <2>1. w[e] = table /\ DOMAIN w = Entities /\ \A f \in Entities \ {e} : w[f] = t[f]
    BY <1>1, <1>5
  <2> HIDE DEF table
  <2> QED
    BY <1>5, <1>6, <2>1 DEF RowsValid
<1>8. OutcomeOK(r0) /\ ((fresh /\ r0.t = w) \/ r0.t = t) /\ (r0.status = "ok" => fresh /\ r0.t = w)
  <2>1. OutcomeOK(Execute(w)) /\ Execute(w).t = w
    BY <1>7, ExecuteOK DEF Execute, Outcome
  <2>2. OutcomeOK(Outcome("error", t)) /\ Outcome("error", t).t = t /\ Outcome("error", t).status # "ok"
    BY <1>5 DEF OutcomeOK, Outcome
  <2> HIDE DEF fresh
  <2> QED
    BY <1>3, <2>1, <2>2
<1>9. /\ OutcomeOK(r1) /\ Rekeyed(r0.t, r1.t, EdgesOf(e))
      /\ r1.status = "ok" => /\ r0.status = "ok"
                             /\ \A g \in EdgesOf(e) : Linked(r0.t, r1.t, m1, g, new1)
  <2>1. r1 = LinkAll(r0, m1, e, new1)
    BY <1>3
  <2> QED
    BY <1>8, <2>1, LinkAllEffect
<1>10. /\ OutcomeOK(r2) /\ Rekeyed(r1.t, r2.t, EdgesOf(e))
       /\ r2.status = "ok" => /\ r1.status = "ok"
                              /\ \A g \in EdgesOf(e) : Linked(r1.t, r2.t, m2, g, new2)
  <2>1. r2 = LinkAll(r1, m2, e, new2)
    BY <1>3
  <2> QED
    BY <1>9, <2>1, LinkAllEffect
<1>11. OutcomeOK(r) /\ Rekeyed(r0.t, r.t, EdgesOf(e)) /\ (r.status = "ok" => r0.status = "ok")
  <2>1. EdgesOf(e) \cup EdgesOf(e) = EdgesOf(e)
    OBVIOUS
  <2>2. Rekeyed(r0.t, r2.t, EdgesOf(e))
    BY <1>9, <1>10, <2>1, RekeyedTwice
  <2> QED
    BY <1>3, <1>4, <1>9, <1>10, <2>2
<1>12. Keeps(t, r.t)
  <2>1. ASSUME fresh, NEW f \in Entities, NEW id \in DOMAIN t[f]
        PROVE  w[f][id] = t[f][id]
    BY <1>7, <2>1
  <2> HIDE DEF fresh
  <2>2. CASE r0.t = t
    BY <1>11, <2>2, RekeyedKeeps DEF Keeps
  <2>3. CASE fresh /\ r0.t = w
    BY <1>11, <2>1, <2>3, RekeyedKeeps DEF Keeps
  <2> QED
    BY <1>8, <2>2, <2>3
<1>13. ASSUME r.status = "ok"
       PROVE  /\ fresh /\ r0.t = w
              /\ \A g \in EdgesOf(e) : Linked(w, r1.t, m1, g, new1)
              /\ Len(ms) = 2 => \A g \in EdgesOf(e) : Linked(r1.t, r.t, m2, g, new2)
  BY <1>3, <1>4, <1>8, <1>9, <1>10, <1>11, <1>13
<1>14. ASSUME r.status = "ok", NEW i \in DOMAIN ms
       PROVE  /\ ids[i] \notin DOMAIN t[e] /\ ids[i] \in Nat
              /\ \A c \in Columns[e] : r.t[e][ids[i]][c] = rows[i][c]
  <2>1. fresh /\ ids[i] \in new
    BY <1>13, <1>14
  <2>2. at(ids[i]) = i
    BY <2>1
  <2>3. ids[i] \in DOMAIN w[e] /\ w[e][ids[i]] = rows[i]
    BY <1>7, <2>1, <2>2
  <2>4. Rekeyed(w, r.t, EdgesOf(e))
    BY <1>11, <1>13, <1>14
  <2> HIDE DEF table, fresh, at, new
  <2>5. \A c \in Columns[e] : r.t[e][ids[i]][c] = rows[i][c]
    BY <2>3, <2>4, RekeyedRow
  <2>6. ids[i] \notin DOMAIN t[e]
    BY <2>1 DEF fresh
  <2> QED
    BY <2>5, <2>6
<1>15. ASSUME r.status = "ok", NEW g \in EdgesOf(e)
       PROVE  /\ DOMAIN r.t[Edge[g].child] = DOMAIN t[Edge[g].child]
              /\ \A i \in DOMAIN ms :
                   /\ ms[i].added[g] \subseteq DOMAIN t[Edge[g].child]
                   /\ \A k \in DOMAIN t[Edge[g].child] :
                        /\ Key(t, g, k) # ids[i]
                        /\ Key(r.t, g, k) = ids[i] <=> k \in ms[i].added[g]
  <2> DEFINE rowsOf == DOMAIN t[Edge[g].child]
  <2>1. w[Edge[g].child] = t[Edge[g].child] /\ Edge[g].child \in Entities
    BY <1>7, EdgesApart, KeyFacts
  <2>2. DOMAIN r1.t[Edge[g].child] = rowsOf /\ DOMAIN r.t[Edge[g].child] = rowsOf
    BY <1>9, <1>11, <1>13, <1>15, <2>1 DEF Rekeyed
  <2>3. \A i \in DOMAIN ms : ids[i] # Null /\ \A k \in rowsOf : Key(t, g, k) # ids[i]
    BY <1>5, <1>14, <1>15, KeysKnown, NullAssumption
  <2>4. \A k \in rowsOf : Key(w, g, k) = Key(t, g, k)
    BY <2>1 DEF Key
  <2>5. /\ m1.added[g] \subseteq rowsOf
        /\ \A k \in rowsOf : Key(r1.t, g, k) = IF k \in m1.added[g] THEN ids[1] ELSE Key(t, g, k)
    BY <1>2, <1>13, <1>15, <2>1, <2>4 DEF Linked, Children
  <2>6. CASE Len(ms) = 1 /\ DOMAIN ms = {1}
    BY <1>3, <1>4, <1>2, <2>2, <2>3, <2>5, <2>6
  <2>7. CASE Len(ms) = 2 /\ DOMAIN ms = {1, 2}
    <3>1. /\ m2.added[g] \subseteq rowsOf
          /\ \A k \in m2.added[g] : Key(r1.t, g, k) = Null
          /\ \A k \in rowsOf : Key(r.t, g, k) = IF k \in m2.added[g] THEN ids[2] ELSE Key(r1.t, g, k)
      BY <1>2, <1>13, <1>15, <2>2, <2>7 DEF Linked, Children, Key
    <3>2. ids[1] # ids[2]
      BY <1>13, <1>15, <2>7
    <3> QED
      BY <1>2, <2>2, <2>3, <2>5, <2>7, <3>1, <3>2
  <2> QED
    BY <2>2, <2>6, <2>7
<1> HIDE DEF table, fresh, at, new
<1>16. r.status = "ok" => RowsMade(t, r.t, e, ms, ids, rows)
  BY <1>14, <1>15 DEF RowsMade, RowMade
<1> QED
  BY <1>11, <1>12, <1>16
-----------------------------------------------------------------------------
\* Rows, transactions, sequences and builders.
DataOK == BudgetOK /\ StoredRowsValid /\ TxValid /\ SerialOK /\ BuilderAgrees

Saves == SaveAsSaid /\ SaveKeeps

\* Steps that are no saves.
LEMMA QuietStep ==
  ASSUME BudgetOK, budget'.saves = budget.saves
  PROVE  Saves
BY DEF BudgetOK, Saves, SaveAsSaid, SaveKeeps

\* A save works on rows that are valid and consistent.
LEMMA TargetValid ==
  ASSUME DataOK, builder # NoBuilder, CanExecute
  PROVE  RowsValid(Target) /\ Consistent(Target)
<1>1. CASE builder.inTx
  <2>1. tx.state = "open"
    BY <1>1 DEF CanExecute
  <2>2. tx # NoTx
    BY <2>1 DEF NoTx
  <2> QED
    BY <1>1, <2>1, <2>2 DEF DataOK, TxValid, Target
<1>2. CASE ~builder.inTx
  BY <1>2 DEF DataOK, StoredRowsValid, Target
<1> QED
  BY <1>1, <1>2

LEMMA StoreData ==
  ASSUME DataOK, builder # NoBuilder, CanExecute, NEW r, OutcomeOK(r), Store(r)
  PROVE  /\ StoredRowsValid' /\ TxValid'
         /\ After = IF builder.inTx \/ r.status = "ok" THEN r.t ELSE Target
<1>1. CASE builder.inTx
  <2>1. tx.state = "open" /\ tx # NoTx
    BY <1>1 DEF CanExecute, NoTx
  <2>2. /\ tables' = tables
        /\ tx' = [tx EXCEPT !.state = IF r.status = "error" THEN "aborted" ELSE "open",
                            !.work = r.t, !.failed = @ \/ r.status # "ok"]
    BY <1>1 DEF Store
  <2>3. tx \in [state : {"open", "aborted", "ended"}, work : {tx.work}, failed : BOOLEAN]
    BY <2>1 DEF DataOK, TxValid
  <2>4. /\ tx' \in [state : {"open", "aborted", "ended"}, work : {tx'.work}, failed : BOOLEAN]
        /\ tx'.work = r.t /\ tx'.state = IF r.status = "error" THEN "aborted" ELSE "open"
    BY <2>2, <2>3
  <2>5. TxValid'
    BY <2>4 DEF TxValid, OutcomeOK
  <2> QED
    BY <1>1, <2>2, <2>4, <2>5 DEF DataOK, StoredRowsValid, After
<1>2. CASE ~builder.inTx
  <2>1. tx' = tx /\ tables' = IF r.status = "ok" THEN r.t ELSE tables
    BY <1>2 DEF Store
  <2> QED
    BY <1>2, <2>1 DEF DataOK, StoredRowsValid, TxValid, OutcomeOK, After, Target
<1> QED
  BY <1>1, <1>2

AllAgree(ms) ==
  \A i \in DOMAIN ms : Agrees(builder.kind, builder.entity, ms[i], builder.said[i])

\* The mutations a save leaves.
LEMMA SavedAgrees ==
  ASSUME BuilderAgrees, builder # NoBuilder, NEW ms,
         NEW e, e = builder.entity, ms \in Seq(Mutations(e)), Len(ms) = Top, AllAgree(ms),
         builder' = [builder EXCEPT !.mutations = ms]
  PROVE  BuilderAgrees'
<1>1. PICK k, ss : k = builder.kind /\ ss = builder.said
  OBVIOUS
<1>2. builder \in [kind : Kinds, entity : Entities, where : {builder.where},
                   id : {builder.id}, inTx : BOOLEAN,
                   mutations : Seq(Mutations(e)), said : Seq(Sayings(e))]
  BY <1>1 DEF BuilderAgrees
<1>3. /\ builder'.kind = k /\ builder'.entity = e /\ builder'.said = ss
      /\ builder'.mutations = ms /\ k # "none"
  BY <1>1, <1>2 DEF Kinds
<1>4. builder' \in [kind : Kinds, entity : Entities, where : {builder'.where},
                    id : {builder'.id}, inTx : BOOLEAN,
                    mutations : Seq(Mutations(e)), said : Seq(Sayings(e))]
  BY <1>1, <1>2
<1>5. Len(ss) = Len(ms) /\ IF k = "CreateBulk" THEN Len(ms) \in {1, 2} ELSE Len(ms) = 1
  BY <1>1 DEF BuilderAgrees, Top
<1> QED
  BY <1>1, <1>3, <1>4, <1>5 DEF BuilderAgrees, AllAgree, Top

LEMMA SavedBudget ==
  ASSUME BudgetOK, budget.saves > 0, budget' = [budget EXCEPT !.saves = @ - 1]
  PROVE  BudgetOK' /\ budget'.saves < budget.saves
BY DEF BudgetOK

\* A save that does not reach the database.
LEMMA FailsData ==
  ASSUME DataOK, builder # NoBuilder, budget.saves > 0, NEW a, a # "ok",
         NEW ms, SaveFails(a, ms),
         NEW e, e = builder.entity, ms \in Seq(Mutations(e)), Len(ms) = Top, AllAgree(ms)
  PROVE  DataOK' /\ Saves
<1>1. /\ builder' = [builder EXCEPT !.mutations = ms] /\ answer' = a
      /\ budget' = [budget EXCEPT !.saves = @ - 1]
      /\ tx' = IF InTx THEN [tx EXCEPT !.failed = TRUE] ELSE tx
      /\ tables' = tables /\ serial' = serial
  BY DEF SaveFails, Saved
<1>2. BudgetOK'
  BY <1>1, SavedBudget DEF DataOK
<1>3. BuilderAgrees'
  BY <1>1, SavedAgrees DEF DataOK
<1>4. TxValid' /\ tx'.work = tx.work
  <2>1. CASE InTx
    <3>1. tx # NoTx
      BY <2>1 DEF InTx, NoTx
    <3>2. tx \in [state : {"open", "aborted", "ended"}, work : {tx.work}, failed : BOOLEAN]
      BY <3>1 DEF DataOK, TxValid
    <3>3. /\ tx' \in [state : {"open", "aborted", "ended"}, work : {tx'.work}, failed : BOOLEAN]
          /\ tx'.work = tx.work /\ tx'.state = tx.state
      BY <1>1, <2>1, <3>2
    <3> QED
      BY <3>1, <3>3 DEF DataOK, TxValid
  <2>2. CASE ~InTx
    BY <1>1, <2>2 DEF DataOK, TxValid
  <2> QED
    BY <2>1, <2>2
<1>5. After = Target
  BY <1>1, <1>4 DEF After, Target
<1>6. Saves
  BY <1>1, <1>5 DEF Saves, SaveAsSaid, SaveKeeps
<1> QED
  BY <1>1, <1>2, <1>3, <1>4, <1>6 DEF DataOK, StoredRowsValid, SerialOK

-----------------------------------------------------------------------------
\* The three kinds of saves, each for every entity.

\* A save whose statements have run, with what they did to the rows.
LEMMA RunsData ==
  ASSUME DataOK, builder # NoBuilder, budget.saves > 0, CanExecute,
         NEW r, OutcomeOK(r), Keeps(Target, r.t), Store(r),
         NEW a, a = (IF r.status = "ok" THEN "ok" ELSE "failed"), NEW ms, Saved(a, ms),
         NEW e, e = builder.entity, ms \in Seq(Mutations(e)), Len(ms) = Top, AllAgree(ms),
         serial' \in [Entities -> Nat]
  PROVE  /\ DataOK' /\ SaveKeeps
         /\ r.status = "ok" => After = r.t
         /\ answer' = "ok" => r.status = "ok"
         /\ builder'.mutations = ms
<1>1. /\ builder' = [builder EXCEPT !.mutations = ms]
      /\ answer' = IF r.status = "ok" THEN "ok" ELSE "failed"
      /\ budget' = [budget EXCEPT !.saves = @ - 1]
  BY DEF Saved
<1>2. BudgetOK'
  BY <1>1, SavedBudget DEF DataOK
<1>3. BuilderAgrees'
  BY <1>1, SavedAgrees DEF DataOK
<1>4. /\ StoredRowsValid' /\ TxValid'
      /\ After = IF builder.inTx \/ r.status = "ok" THEN r.t ELSE Target
  BY StoreData
<1>5. SaveKeeps
  BY <1>4 DEF SaveKeeps, Keeps
<1>6. DataOK'
  BY <1>2, <1>3, <1>4 DEF DataOK, SerialOK
<1>7. builder'.mutations = ms
  BY <1>1 DEF DataOK, BuilderAgrees
<1> QED
  BY <1>1, <1>4, <1>5, <1>6, <1>7

\* A new row, and the children it begins with.
LEMMA NewSaid ==
  ASSUME NEW t, NEW v, NEW e \in Entities, NEW id, NEW m, NEW kind, NEW s,
         Agrees(kind, e, m, s), NEW row, RowMade(t, v, e, m, id, row),
         \A c \in Columns[e] : s.column[c] # Unset => row[c] = s.column[c]
  PROVE  AsSaid(e, {id}, s, t, v)
<1>1. ASSUME NEW g \in EdgesOf(e), NEW i \in Ids
      PROVE  LET was == \E p \in {id} : i \in Children(t, g, p)
                 is == \E p \in {id} : i \in Children(v, g, p)
             IN CASE s.child[g][i] = "in" -> {id} # {} => is
                  [] s.child[g][i] = "out" -> ~is
                  [] OTHER -> is = (was /\ g \notin s.emptied)
  <2> DEFINE was == \E p \in {id} : i \in Children(t, g, p)
             is == \E p \in {id} : i \in Children(v, g, p)
  <2>1. ~was /\ (is <=> i \in m.added[g])
    BY DEF RowMade, Children, Key
  <2>2. s.child[g][i] = "in" <=> i \in m.added[g]
    BY DEF Agrees, ChildAgrees
  <2>3. is \in BOOLEAN
    OBVIOUS
  <2> HIDE DEF was, is
  <2>4. is = (was /\ g \notin s.emptied) \/ s.child[g][i] = "in"
    BY <2>1, <2>2, <2>3
  <2>5. CASE s.child[g][i] = "in"
    BY <2>1, <2>2, <2>5 DEF was, is
  <2>6. CASE s.child[g][i] = "out"
    BY <2>1, <2>2, <2>6 DEF was, is
  <2>7. CASE s.child[g][i] \notin {"in", "out"}
    BY <2>4, <2>7 DEF was, is
  <2> QED
    BY <2>5, <2>6, <2>7
<1>2. \A g \in EdgesOf(e) : ChildrenAsSaid(g, {id}, s, t, v)
  BY <1>1 DEF ChildrenAsSaid
<1>3. id \notin DOMAIN t[e] /\ \A c \in Columns[e] : ColumnAsSaid(e, c, s, TRUE, <<>>, v[e][id])
  BY DEF ColumnAsSaid, RowMade
<1> QED
  BY <1>2, <1>3 DEF AsSaid

\* A row as a create writes it.
RowSaid(e, s, row) ==
  /\ RowValid(e, row)
  /\ \A c \in Columns[e] : s.column[c] # Unset => row[c] = s.column[c]

\* Create and CreateBulk.
LEMMA SaveNewData ==
  ASSUME DataOK, NEW e, NEW kinds \in SUBSET Creates, Saving(kinds, e),
         NEW ms, NEW valid, NEW rows, SaveNew(e, ms, valid, rows),
         ms \in Seq(Mutations(e)), Len(ms) = Top, AllAgree(ms),
         valid => \A i \in DOMAIN ms : RowSaid(e, builder.said[i], rows[i])
  PROVE  DataOK' /\ Saves
<1>1. /\ builder # NoBuilder /\ builder.entity = e /\ budget.saves > 0
      /\ builder.kind \in Creates /\ e \in Entities
      /\ Top \in {1, 2} /\ Len(builder.said) = Top /\ DOMAIN builder.said = DOMAIN ms
  BY DEF Saving, DataOK, BuilderAgrees, Creates
<1>2. CASE ~valid
  <2>1. SaveFails("invalid", ms)
    BY <1>2 DEF SaveNew
  <2> QED
    BY <1>1, <2>1, FailsData
<1>3. CASE valid /\ (~CanExecute \/ Drawn(ms) \notin {{}, DOMAIN ms})
  <2>1. SaveFails("failed", ms)
    BY <1>3 DEF SaveNew
  <2> QED
    BY <1>1, <2>1, FailsData
<1>4. CASE valid /\ CanExecute /\ Drawn(ms) \in {{}, DOMAIN ms}
  <2>1. PICK r, ids, new, t, a :
           /\ r = Inserted(e, ms, rows) /\ ids = NewIds(e, ms) /\ t = Target
           /\ new = IF r.status = "ok" THEN [i \in DOMAIN ms |-> [ms[i] EXCEPT !.id = ids[i]]]
                    ELSE ms
           /\ a = (IF r.status = "ok" THEN "ok" ELSE "failed")
    OBVIOUS
  <2>2. /\ Store(r) /\ serial' = [serial EXCEPT ![e] = @ + Cardinality(Drawn(ms))]
        /\ Saved(a, new)
    BY <1>4, <2>1 DEF SaveNew
  <2>3. DOMAIN ms = 1 .. Top /\ ((DOMAIN ms = {1} /\ Len(ms) = 1) \/ (DOMAIN ms = {1, 2} /\ Len(ms) = 2))
    BY <1>1
  <2>4. \A i \in DOMAIN ms :
          /\ ms[i].id \in Nat \cup {Unset} /\ serial[e] + i \in Nat
          /\ ids[i] = Or(ms[i].id, serial[e] + i) /\ ids[i] \in Nat
    <3>1. \A i \in DOMAIN ms : ms[i].id \in Nat \cup {Unset}
      BY <1>1 DEF AllAgree, Agrees, Mutations
    <3>2. serial[e] \in Nat
      BY <1>1 DEF DataOK, SerialOK
    <3>3. \A i \in DOMAIN ms : serial[e] + i \in Nat
      BY <2>3, <3>2
    <3> QED
      BY <2>1, <3>1, <3>3 DEF NewIds, Or
  <2>5. RowsValid(t) /\ Consistent(t)
    BY <1>1, <1>4, <2>1, TargetValid
  <2>6. \A i \in DOMAIN ms : RowValid(e, rows[i]) /\ ids[i] \in Nat
    BY <1>4, <2>4 DEF RowSaid
  <2>7. /\ OutcomeOK(r) /\ Keeps(t, r.t)
        /\ r.status = "ok" => RowsMade(t, r.t, e, ms, ids, rows)
    BY <1>1, <2>1, <2>3, <2>5, <2>6, InsertedEffect
  <2>8. serial' \in [Entities -> Nat]
    <3>1. IsFiniteSet(Drawn(ms))
      <4>1. IsFiniteSet({}) /\ IsFiniteSet({1})
        BY FS_EmptySet, FS_Singleton
      <4>2. IsFiniteSet({1} \cup {2}) /\ {1} \cup {2} = {1, 2}
        BY <4>1, FS_AddElement
      <4> QED
        BY <1>4, <2>3, <4>1, <4>2
    <3>2. Cardinality(Drawn(ms)) \in Nat
      BY <3>1, FS_CardinalityType
    <3>3. PICK n \in Nat : n = Cardinality(Drawn(ms))
      BY <3>2
    <3>4. serial' = [serial EXCEPT ![e] = @ + n] /\ serial \in [Entities -> Nat]
      BY <2>2, <3>3 DEF DataOK, SerialOK
    <3> QED
      BY <1>1, <3>4
  <2>9. /\ new \in Seq(Mutations(e)) /\ Len(new) = Top
        /\ AllAgree(new) /\ DOMAIN new = DOMAIN ms
        /\ r.status = "ok" => \A i \in DOMAIN ms : new[i].id = ids[i]
    <3>1. CASE r.status # "ok"
      BY <2>1, <3>1
    <3>2. CASE r.status = "ok"
      <4>1. DOMAIN new = DOMAIN ms /\ \A i \in DOMAIN ms : new[i] = [ms[i] EXCEPT !.id = ids[i]]
        BY <2>1, <3>2
      <4>2. ASSUME NEW i \in DOMAIN ms
            PROVE  Agrees(builder.kind, e, new[i], builder.said[i]) /\ new[i].id = ids[i]
        <5>1. PICK n \in Nat : n = serial[e] + i
          BY <2>4
        <5>2. Agrees(builder.kind, e, [ms[i] EXCEPT !.id = Or(ms[i].id, n)], builder.said[i])
          BY <1>1, DrawnAgrees DEF AllAgree
        <5>3. new[i] = [ms[i] EXCEPT !.id = Or(ms[i].id, n)]
          BY <2>4, <4>1, <5>1
        <5>4. ms[i] \in Mutations(e)
          BY <1>1 DEF AllAgree, Agrees
        <5> QED
          BY <4>1, <5>2, <5>3, <5>4 DEF Mutations
      <4>3. \A i \in DOMAIN ms : new[i] \in Mutations(e)
        BY <4>2 DEF Agrees
      <4>4. new \in [1 .. Top -> Mutations(e)]
        <5>1. new = [i \in 1 .. Top |-> new[i]]
          BY <2>1, <2>3, <3>2
        <5> QED
          BY <2>3, <4>3, <5>1
      <4>5. Top \in Nat
        BY <1>1
      <4>6. new \in Seq(Mutations(e)) /\ Len(new) = Top
        BY <4>4, <4>5
      <4> QED
        BY <1>1, <4>1, <4>2, <4>6 DEF AllAgree
    <3> QED
      BY <3>1, <3>2
  <2>10. /\ DataOK' /\ SaveKeeps
         /\ r.status = "ok" => After = r.t
         /\ answer' = "ok" => r.status = "ok"
         /\ builder'.mutations = new
    BY <1>1, <1>4, <2>1, <2>2, <2>7, <2>8, <2>9, RunsData
  <2>11. ASSUME r.status = "ok", NEW i \in DOMAIN builder.said
         PROVE  LET id == builder'.mutations[i].id IN
                /\ builder.said[i].id \in {id, Unset}
                /\ AsSaid(e, {id}, builder.said[i], Target, After)
    <3>1. i \in DOMAIN ms /\ builder'.mutations[i].id = ids[i]
      BY <1>1, <2>9, <2>10, <2>11
    <3>2. builder.said[i].id \in {ids[i], Unset}
      BY <1>1, <2>4, <3>1 DEF AllAgree, Agrees, Or
    <3>3. /\ RowMade(t, r.t, e, ms[i], ids[i], rows[i])
          /\ Agrees(builder.kind, e, ms[i], builder.said[i])
          /\ \A c \in Columns[e] : builder.said[i].column[c] # Unset =>
                                     rows[i][c] = builder.said[i].column[c]
      BY <1>1, <1>4, <2>7, <2>11, <3>1 DEF AllAgree, RowsMade, RowSaid
    <3>4. AsSaid(e, {ids[i]}, builder.said[i], t, r.t)
      BY <1>1, <3>3, NewSaid
    <3> QED
      BY <2>1, <2>10, <2>11, <3>1, <3>2, <3>4
  <2>12. builder.kind # "Update" /\ builder.kind # "UpdateOne"
    BY <1>1 DEF Creates
  <2>13. SaveAsSaid
    BY <1>1, <2>10, <2>11, <2>12 DEF SaveAsSaid
  <2> QED
    BY <2>10, <2>13 DEF Saves
<1> QED
  BY <1>2, <1>3, <1>4

\* The rows ids of an update.
LEMMA ChangedSaid ==
  ASSUME NEW t, NEW v, NEW e \in Entities, NEW ids \in SUBSET Nat, NEW m, NEW kind, NEW s,
         Agrees(kind, e, m, s), NEW rows, RowsChanged(t, v, e, m, ids, rows),
         ids \subseteq DOMAIN t[e],
         \A id \in ids, c \in Columns[e] :
           ColumnAsSaid(e, c, s, FALSE, t[e][id], rows[id])
  PROVE  AsSaid(e, ids, s, t, v)
<1>1. Null \notin ids /\ s \in Sayings(e)
  BY NullAssumption DEF Agrees
<1>2. ASSUME NEW g \in EdgesOf(e)
      PROVE  ChildrenAsSaid(g, ids, s, t, v)
  <2>1. g \in EdgeNames
    BY EdgesApart
  <2>2. ChildAgrees(m, s, g)
    BY DEF Agrees
  <2>3. /\ DOMAIN v[Edge[g].child] = DOMAIN t[Edge[g].child]
        /\ ids # {} => m.added[g] \subseteq DOMAIN t[Edge[g].child]
        /\ \A k \in DOMAIN t[Edge[g].child] :
             Key(v, g, k) =
               IF k \in m.added[g] /\ ids # {} THEN CHOOSE p \in ids : TRUE
               ELSE IF IsCut(t, m, g, ids, k) THEN Null ELSE Key(t, g, k)
    BY DEF RowsChanged
  <2> QED
    BY <1>1, <2>1, <2>2, <2>3, ChildrenSaid
<1>3. \A id \in ids, c \in Columns[e] : ColumnAsSaid(e, c, s, FALSE, t[e][id], v[e][id])
  <2>1. \A id \in ids, c \in Columns[e] : v[e][id][c] = rows[id][c]
    BY DEF RowsChanged
  <2> QED
    BY <2>1 DEF ColumnAsSaid
<1> QED
  BY <1>2, <1>3 DEF AsSaid

\* A row as an update writes it.
RowAsSaid(e, s, old, row) ==
  /\ RowValid(e, row)
  /\ \A c \in ImmutableColumns[e] : row[c] = old[c]
  /\ ~s.vague => \A c \in Columns[e] : ColumnAsSaid(e, c, s, FALSE, old, row)

RowsSaid(t, e, s, rows) ==
  \A id \in DOMAIN t[e] : RowAsSaid(e, s, t[e][id], rows[id])

\* Update and UpdateOne.
LEMMA SaveChangedData ==
  ASSUME DataOK, NEW e, NEW kinds \in SUBSET {"Update", "UpdateOne"}, Saving(kinds, e),
         NEW m, NEW valid, NEW rows, SaveChanged(e, m, valid, rows),
         Agrees(builder.kind, e, m, S),
         valid /\ RowsValid(Target) => RowsSaid(Target, e, S, rows)
  PROVE  DataOK' /\ Saves
<1>1. /\ builder # NoBuilder /\ builder.entity = e /\ budget.saves > 0
      /\ builder.kind \in {"Update", "UpdateOne"} /\ e \in Entities
      /\ Top = 1 /\ Len(builder.said) = 1 /\ DOMAIN builder.said = {1}
      /\ S = builder.said[1]
  <2>1. /\ builder # NoBuilder /\ builder.entity = e /\ budget.saves > 0
        /\ builder.kind \in {"Update", "UpdateOne"}
    BY DEF Saving
  <2>2. /\ e \in Entities /\ Top = 1 /\ Len(builder.said) = 1
        /\ builder.said \in Seq(Sayings(e))
    BY <2>1 DEF DataOK, BuilderAgrees
  <2>3. DOMAIN builder.said = {1}
    BY <2>2
  <2> QED
    BY <2>1, <2>2, <2>3 DEF S
<1>2. PICK ms : ms = <<m>>
  OBVIOUS
<1>3. ms \in Seq(Mutations(e)) /\ Len(ms) = Top /\ AllAgree(ms)
  BY <1>1, <1>2 DEF AllAgree, Agrees
<1> DEFINE missing == builder.kind = "UpdateOne" /\ Chosen(e) = {}
<1>4. CASE ~valid
  <2>1. SaveFails("invalid", ms)
    BY <1>2, <1>4 DEF SaveChanged
  <2> QED
    BY <1>1, <1>3, <2>1, FailsData
<1>5. CASE valid /\ (~CanExecute \/ missing)
  <2>1. SaveFails("failed", ms)
    BY <1>2, <1>5 DEF SaveChanged
  <2> QED
    BY <1>1, <1>3, <2>1, FailsData
<1>6. CASE valid /\ CanExecute /\ ~missing
  <2>1. PICK r, ids, t, a :
           /\ r = Changed(e, m, rows) /\ ids = Chosen(e) /\ t = Target
           /\ a = (IF r.status = "ok" THEN "ok" ELSE "failed")
    OBVIOUS
  <2>2. Store(r) /\ Saved(a, ms) /\ serial' = serial
    BY <1>2, <1>6, <2>1 DEF SaveChanged
  <2>3. RowsValid(t) /\ RowsSaid(t, e, S, rows) /\ ids \subseteq DOMAIN t[e]
    BY <1>1, <1>6, <2>1, TargetValid, ChosenRows
  <2>4. \A id \in DOMAIN t[e] :
          /\ RowValid(e, rows[id])
          /\ \A c \in ImmutableColumns[e] : rows[id][c] = t[e][id][c]
    BY <2>3 DEF RowsSaid, RowAsSaid
  <2>5. /\ OutcomeOK(r) /\ Keeps(t, r.t)
        /\ r.status = "ok" => RowsChanged(t, r.t, e, m, ids, rows)
    BY <1>1, <2>1, <2>3, <2>4, ChangedEffect
  <2>6. /\ DataOK' /\ SaveKeeps
        /\ r.status = "ok" => After = r.t
        /\ answer' = "ok" => r.status = "ok"
    <3>1. serial' \in [Entities -> Nat]
      BY <2>2 DEF DataOK, SerialOK
    <3> QED
      BY <1>1, <1>3, <1>6, <2>1, <2>2, <2>5, <3>1, RunsData
  <2>7. ASSUME r.status = "ok", ~S.vague
        PROVE  AsSaid(e, ids, S, Target, After)
    <3>1. ids \in SUBSET Nat
      BY <1>1, <2>3 DEF RowsValid
    <3>2. \A id \in ids, c \in Columns[e] : ColumnAsSaid(e, c, S, FALSE, t[e][id], rows[id])
      BY <2>3, <2>7 DEF RowsSaid, RowAsSaid
    <3>3. PICK s : s = S
      OBVIOUS
    <3>4. AsSaid(e, ids, s, t, r.t)
      BY <1>1, <2>3, <2>5, <2>7, <3>1, <3>2, <3>3, ChangedSaid
    <3> QED
      BY <2>1, <2>6, <2>7, <3>3, <3>4
  <2>8. /\ builder.kind = "Update" => ids = Matching(builder.where, Target, e)
        /\ builder.kind = "UpdateOne" => ids = {builder.id}
    BY <1>6, <2>1 DEF Chosen
  <2>9. SaveAsSaid
    BY <1>1, <2>6, <2>7, <2>8 DEF SaveAsSaid
  <2> QED
    BY <2>6, <2>9 DEF Saves
<1> QED
  BY <1>4, <1>5, <1>6

\* A delete leaves rows as they are, but for foreign keys.
LEMMA DeletedEffect ==
  ASSUME NEW t, RowsValid(t), NEW e \in Entities, NEW ids, NEW u, u = DeleteRows(t, e, ids)
  PROVE  RowsValid(u) /\ Keeps(t, u)
<1>1. /\ DOMAIN u = Entities
      /\ \A f \in Entities :
           /\ DOMAIN u[f] \subseteq DOMAIN t[f]
           /\ \A id \in DOMAIN u[f] :
                /\ DOMAIN u[f][id] = Columns[f]
                /\ \A c \in Columns[f] :
                     \/ u[f][id][c] = t[f][id][c]
                     \/ u[f][id][c] = Null /\ \E g \in EdgesOf(e) :
                                                 Edge[g].child = f /\ Edge[g].column = c
  BY DEF DeleteRows
<1>2. Null # Blank
  BY TextAssumption, NullAssumption
<1>3. \A f \in Entities : NotEmptyColumns[f] \subseteq Columns[f] /\ ImmutableColumns[f] \subseteq Columns[f]
  BY DEF Entities, NotEmptyColumns, ImmutableColumns, Columns
<1>4. \A g \in EdgesOf(e) : Edge[g].column \notin ImmutableColumns[Edge[g].child]
  BY EdgesApart, KeyFacts
<1>5. RowsValid(u)
  <2>1. \A f \in Entities : \A id \in DOMAIN t[f] :
          id \in Nat /\ \A c \in NotEmptyColumns[f] : t[f][id][c] # Blank
    BY DEF RowsValid, RowValid
  <2> QED
    BY <1>1, <1>2, <1>3, <2>1 DEF RowsValid, RowValid
<1>6. Keeps(t, u)
  BY <1>1, <1>3, <1>4 DEF Keeps
<1> QED
  BY <1>5, <1>6

\* Delete and DeleteOne.
LEMMA SaveDeleteData ==
  ASSUME DataOK, NEW e, SaveDelete(e)
  PROVE  DataOK' /\ Saves
<1>1. /\ builder # NoBuilder /\ builder.entity = e /\ budget.saves > 0
      /\ builder.kind \in {"Delete", "DeleteOne"}
  BY DEF SaveDelete, Saving
<1>2. PICK ms : ms = builder.mutations
  OBVIOUS
<1>3. e \in Entities /\ ms \in Seq(Mutations(e)) /\ Len(ms) = Top /\ AllAgree(ms)
  BY <1>1, <1>2 DEF DataOK, BuilderAgrees, AllAgree, Top
<1>4. CASE SaveFails("failed", ms)
  BY <1>1, <1>3, <1>4, FailsData
<1>5. CASE CanExecute /\ ~SaveFails("failed", ms)
  <2>1. PICK t, u, r, a :
           /\ t = Target /\ u = DeleteRows(t, e, Chosen(e)) /\ r = Execute(u)
           /\ a = (IF r.status = "ok" THEN "ok" ELSE "failed")
    OBVIOUS
  <2>2. Store(r) /\ Saved(a, ms) /\ serial' = serial
    BY <1>2, <1>5, <2>1 DEF SaveDelete
  <2>3. RowsValid(t)
    BY <1>1, <1>5, <2>1, TargetValid
  <2>4. RowsValid(u) /\ Keeps(t, u)
    BY <1>3, <2>1, <2>3, DeletedEffect
  <2>5. r.t = u /\ OutcomeOK(r)
    BY <2>1, <2>4, ExecuteOK DEF Execute, Outcome
  <2>6. serial' \in [Entities -> Nat]
    BY <2>2 DEF DataOK, SerialOK
  <2>7. DataOK' /\ SaveKeeps
    BY <1>1, <1>3, <1>5, <2>1, <2>2, <2>4, <2>5, <2>6, RunsData
  <2>8. SaveAsSaid
    BY <1>1 DEF SaveAsSaid
  <2> QED
    BY <2>7, <2>8 DEF Saves
<1>6. SaveFails("failed", ms) \/ CanExecute
  BY <1>2 DEF SaveDelete
<1> QED
  BY <1>4, <1>5, <1>6

-----------------------------------------------------------------------------
\* Steps that write no rows.
Frame ==
  tables' = tables /\ tx' = tx /\ serial' = serial /\ BudgetOK' /\ budget'.saves = budget.saves

LEMMA FrameData ==
  ASSUME DataOK, Frame, BuilderAgrees'
  PROVE  DataOK' /\ Saves
BY QuietStep DEF Frame, DataOK, StoredRowsValid, TxValid, SerialOK

LEMMA CallFrame ==
  ASSUME BudgetOK, NEW e, Calling(e), NEW m, NEW s, Call(m, s)
  PROVE  Frame
BY DEF Calling, Call, BudgetOK, Frame

LEMMA FieldData ==
  ASSUME DataOK, NEW e, Calling(e), NEW f \in Columns[e], f # "namespace_plugins",
         NEW values \in SUBSET (Words \cup Times \cup Nat),
         \/ FieldCall(f, values) /\ (f # "user_id" \/ e # "Namespace")
         \/ \E v \in values : SetField(f, v)
  PROVE  DataOK' /\ Saves
<1>1. BuilderAgrees'
  BY FieldAgrees DEF DataOK
<1>2. Frame
  BY CallFrame DEF DataOK, FieldCall, SetField, ResetField
<1> QED
  BY <1>1, <1>2, FrameData

LEMMA OwnerFieldData ==
  ASSUME DataOK, Calling("Namespace"), ClearField("user_id") \/ ResetOptionalField("user_id")
  PROVE  DataOK' /\ Saves
<1>1. BuilderAgrees'
  BY OwnerFieldAgrees DEF DataOK
<1>2. Frame
  BY CallFrame DEF DataOK, ClearField, ResetOptionalField
<1> QED
  BY <1>1, <1>2, FrameData

LEMMA OwnerCallData ==
  ASSUME DataOK, NEW e, Calling(e), NEW f, OwnerColumns[e] = {f}, OwnerCall(f)
  PROVE  DataOK' /\ Saves
<1>1. BuilderAgrees'
  BY OwnerCallAgrees DEF DataOK
<1>2. Frame
  BY CallFrame DEF DataOK, OwnerCall, ClearOwner, ResetOwner
<1> QED
  BY <1>1, <1>2, FrameData

LEMMA SetIDData ==
  ASSUME DataOK, NEW e, Calling(e), \E i \in Ids : SetID(i)
  PROVE  DataOK' /\ Saves
<1>1. BuilderAgrees'
  BY SetIDAgrees DEF DataOK
<1>2. Frame
  BY CallFrame DEF DataOK, SetID
<1> QED
  BY <1>1, <1>2, FrameData

LEMMA ChildrenCallData ==
  ASSUME DataOK, NEW e, Calling(e), NEW g \in EdgesOf(e), ChildrenCall(g)
  PROVE  DataOK' /\ Saves
<1>1. BuilderAgrees'
  BY ChildrenCallAgrees DEF DataOK
<1>2. Frame
  BY CallFrame DEF DataOK, ChildrenCall, AddChild, RemoveChild, ClearChildren, ResetChildren
<1> QED
  BY <1>1, <1>2, FrameData

LEMMA OpenData ==
  ASSUME DataOK, NEW e \in Entities, NEW predicates,
         OpenAny(e, predicates) \/ AnotherBuilder(e)
  PROVE  DataOK' /\ Saves
<1>1. BuilderAgrees'
  BY OpenAnyAgrees, AnotherAgrees DEF DataOK
<1>2. CASE OpenAny(e, predicates)
  <2>1. Frame
    BY <1>2 DEF DataOK, BudgetOK, OpenAny, Open, Frame
  <2> QED
    BY <1>1, <2>1, FrameData
<1>3. CASE AnotherBuilder(e)
  <2>1. Frame
    BY <1>3 DEF DataOK, BudgetOK, AnotherBuilder, Frame
  <2> QED
    BY <1>1, <2>1, FrameData
<1> QED
  BY <1>2, <1>3

\* The mutations of a create, after the defaults.
LEMMA DefaultsAgree ==
  ASSUME BuilderAgrees, builder # NoBuilder, NEW e, e = builder.entity, NEW ms,
         DOMAIN ms = DOMAIN builder.mutations, ms = [i \in DOMAIN ms |-> ms[i]],
         \A i \in DOMAIN ms : Agrees(builder.kind, e, ms[i], builder.said[i])
  PROVE  ms \in Seq(Mutations(e)) /\ Len(ms) = Top /\ AllAgree(ms)
<1>1. Top \in Nat /\ DOMAIN ms = 1 .. Top
  BY DEF BuilderAgrees, Top
<1>2. \A i \in DOMAIN ms : ms[i] \in Mutations(e)
  BY DEF Agrees
<1>3. ms \in [1 .. Top -> Mutations(e)]
  BY <1>1, <1>2
<1>4. ms \in Seq(Mutations(e)) /\ Len(ms) = Top
  BY <1>1, <1>3
<1> QED
  BY <1>4 DEF AllAgree

\* What was said of the columns of a row that is no foreign key of a namespace.
LEMMA SaidSet ==
  ASSUME NEW kind, NEW e, NEW m, NEW s, Agrees(kind, e, m, s), NEW c \in Columns[e],
         s.column[c] # Unset, e # "Namespace" \/ c # "user_id"
  PROVE  m.set[c] = s.column[c]
BY DEF Agrees, ColumnAgrees

\* The one mutation of an update.
LEMMA UpdatedAgrees ==
  ASSUME DataOK, NEW e, NEW kinds \in SUBSET {"Update", "UpdateOne"}, Saving(kinds, e)
  PROVE  builder.kind \notin Creates /\ e \in Entities /\ Agrees(builder.kind, e, M, S)
<1>1. /\ builder # NoBuilder /\ builder.entity = e /\ builder.kind \in {"Update", "UpdateOne"}
  BY DEF Saving
<1>2. e \in Entities /\ Top = 1 /\ builder.mutations \in Seq(Mutations(e))
  BY <1>1 DEF DataOK, BuilderAgrees
<1>3. Top \in DOMAIN builder.mutations
  BY <1>2 DEF Top
<1> QED
  BY <1>1, <1>2, <1>3 DEF DataOK, BuilderAgrees, M, S, Creates

-----------------------------------------------------------------------------
\* The five entities.
LEMMA NamespaceCallData ==
  ASSUME DataOK, NamespaceCall
  PROVE  DataOK' /\ Saves
<1>1. Calling("Namespace")
  BY DEF NamespaceCall
<1>2. CASE \E f \in {"name", "type"} : FieldCall(f, Words)
  <2>1. PICK f \in {"name", "type"} : FieldCall(f, Words)
    BY <1>2
  <2>2. f \in Columns["Namespace"]
    BY DEF Columns
  <2> QED
    BY <1>1, <2>1, <2>2, FieldData
<1>3. CASE \E u \in Ids : SetField("user_id", u)
  <2>1. "user_id" \in Columns["Namespace"]
    BY DEF Columns
  <2> QED
    BY <1>1, <1>3, <2>1, IdAssumption, FieldData
<1>4. CASE ClearField("user_id") \/ ResetOptionalField("user_id")
  BY <1>1, <1>4, OwnerFieldData
<1>5. CASE \E i \in Ids : SetID(i)
  BY <1>1, <1>5, SetIDData
<1>6. CASE ChildrenCall("plugins")
  BY <1>1, <1>6, EdgesFacts, ChildrenCallData
<1>7. CASE OwnerCall("user_id")
  BY <1>1, <1>7, OwnerCallData DEF OwnerColumns
<1> QED
  BY <1>2, <1>3, <1>4, <1>5, <1>6, <1>7 DEF NamespaceCall, NamespaceFieldCall, NamespaceEdgeCall

LEMMA NamespaceRowSaid ==
  ASSUME NEW kind, NEW m, NEW s, Agrees(kind, "Namespace", m, s), NamespaceRequired(m),
         NEW row, row = NamespaceRow(m)
  PROVE  RowSaid("Namespace", s, row)
<1>1. /\ DOMAIN row = {"name", "type", "user_id"} /\ row["name"] = m.set["name"]
      /\ row["type"] = m.set["type"] /\ row["user_id"] = Or(m.set["user_id"], Null)
  BY DEF NamespaceRow
<1>2. Columns["Namespace"] = {"name", "type", "user_id"}
      /\ NotEmptyColumns["Namespace"] = {"name", "type"}
  BY DEF Columns, NotEmptyColumns
<1>3. RowValid("Namespace", row)
  BY <1>1, <1>2 DEF RowValid, NamespaceRequired, NotEmpty
<1>4. ASSUME s.column["user_id"] # Unset
      PROVE  row["user_id"] = s.column["user_id"]
  <2>1. ColumnAgrees(kind, "Namespace", m, s, "user_id")
    BY <1>2 DEF Agrees
  <2> QED
    BY <1>1, <1>4, <2>1 DEF ColumnAgrees, Or
<1> QED
  BY <1>1, <1>2, <1>3, <1>4, SaidSet DEF RowSaid

LEMMA NamespaceNewData ==
  ASSUME DataOK, NEW kinds \in SUBSET Creates, Saving(kinds, "Namespace"), NamespaceNew
  PROVE  DataOK' /\ Saves
<1>1. PICK ms, rows, valid :
         /\ ms = [i \in DOMAIN builder.mutations |-> NamespaceDefaults(builder.mutations[i])]
         /\ rows = [i \in DOMAIN ms |-> NamespaceRow(ms[i])]
         /\ valid = \A i \in DOMAIN ms : NamespaceRequired(ms[i])
  OBVIOUS
<1>2. SaveNew("Namespace", ms, valid, rows)
  BY <1>1 DEF NamespaceNew
<1>3. builder # NoBuilder /\ builder.entity = "Namespace" /\ BuilderAgrees
  BY DEF Saving, DataOK
<1>4. /\ DOMAIN ms = DOMAIN builder.mutations /\ ms = [i \in DOMAIN ms |-> ms[i]]
      /\ \A i \in DOMAIN ms : ms[i] = builder.mutations[i] /\ rows[i] = NamespaceRow(ms[i])
  BY <1>1 DEF NamespaceDefaults
<1>5. \A i \in DOMAIN ms : Agrees(builder.kind, "Namespace", ms[i], builder.said[i])
  BY <1>3, <1>4 DEF BuilderAgrees
<1>6. ms \in Seq(Mutations("Namespace")) /\ Len(ms) = Top /\ AllAgree(ms)
  BY <1>3, <1>4, <1>5, DefaultsAgree
<1>7. valid => \A i \in DOMAIN ms : RowSaid("Namespace", builder.said[i], rows[i])
  BY <1>1, <1>4, <1>5, NamespaceRowSaid
<1> QED
  BY <1>2, <1>6, <1>7, SaveNewData

LEMMA NamespaceRowAsSaid ==
  ASSUME NEW kind, kind \notin Creates, NEW m, NEW s, Agrees(kind, "Namespace", m, s),
         NamespaceCheck(m), NEW old, RowValid("Namespace", old),
         NEW row, row = NamespaceAfter(m, old)
  PROVE  RowAsSaid("Namespace", s, old, row)
<1>1. /\ DOMAIN row = {"name", "type", "user_id"} /\ row["name"] = Or(m.set["name"], old["name"])
      /\ row["type"] = Or(m.set["type"], old["type"])
      /\ row["user_id"] = OwnerAfter(m, "user_id", NamespaceUserCleared(m), old["user_id"])
  BY DEF NamespaceAfter
<1>2. /\ Columns["Namespace"] = {"name", "type", "user_id"}
      /\ NotEmptyColumns["Namespace"] = {"name", "type"} /\ ImmutableColumns["Namespace"] = {}
  BY DEF Columns, NotEmptyColumns, ImmutableColumns
<1>3. RowValid("Namespace", row)
  BY <1>1, <1>2 DEF RowValid, NamespaceCheck, NotEmpty, Or
<1>4. ASSUME ~s.vague, NEW c \in Columns["Namespace"]
      PROVE  ColumnAsSaid("Namespace", c, s, FALSE, old, row)
  <2>1. ColumnAgrees(kind, "Namespace", m, s, c)
    BY DEF Agrees
  <2>2. CASE c = "user_id"
    BY <1>1, <1>2, <1>4, <2>1, <2>2, UnsetAssumption
       DEF ColumnAgrees, ColumnAsSaid, OwnerAfter, IsSet, NamespaceUserCleared, OwnerColumns
  <2>3. CASE c \in {"name", "type"}
    BY <1>1, <1>2, <2>1, <2>3, UnsetAssumption DEF ColumnAgrees, ColumnAsSaid, Or, OwnerColumns
  <2> QED
    BY <1>2, <2>2, <2>3
<1> QED
  BY <1>2, <1>3, <1>4 DEF RowAsSaid

LEMMA NamespaceChangeData ==
  ASSUME DataOK, NEW kinds \in SUBSET {"Update", "UpdateOne"}, Saving(kinds, "Namespace"),
         NamespaceChange
  PROVE  DataOK' /\ Saves
<1>1. PICK m, t, rows, valid :
         /\ m = NamespaceDefaults(M) /\ t = Target["Namespace"]
         /\ rows = [id \in DOMAIN t |-> NamespaceAfter(m, t[id])]
         /\ valid = NamespaceCheck(m)
  OBVIOUS
<1>2. SaveChanged("Namespace", m, valid, rows)
  BY <1>1 DEF NamespaceChange
<1>3. builder.kind \notin Creates /\ Agrees(builder.kind, "Namespace", M, S)
  BY UpdatedAgrees
<1>4. Agrees(builder.kind, "Namespace", m, S)
  BY <1>1, <1>3 DEF NamespaceDefaults
<1>5. \A id \in DOMAIN t : rows[id] = NamespaceAfter(m, t[id])
  BY <1>1
<1>6. valid /\ RowsValid(Target) => RowsSaid(Target, "Namespace", S, rows)
  <2> SUFFICES ASSUME NamespaceCheck(m), RowsValid(Target), NEW id \in DOMAIN t
               PROVE  RowAsSaid("Namespace", S, t[id], rows[id])
    BY <1>1 DEF RowsSaid
  <2>1. RowValid("Namespace", t[id])
    BY <1>1 DEF RowsValid, Entities
  <2> QED
    BY <1>3, <1>4, <1>5, <2>1, NamespaceRowAsSaid
<1> QED
  BY <1>2, <1>4, <1>6, SaveChangedData

LEMMA NamespaceData ==
  ASSUME DataOK, NamespaceWrites
  PROVE  DataOK' /\ Saves
<1>1. CASE NamespaceCall
  BY <1>1, NamespaceCallData
<1>2. CASE NamespaceClient \/ AnotherBuilder("Namespace")
  BY <1>2, OpenData DEF NamespaceClient, Entities
<1>3. CASE NamespaceCreate \/ NamespaceCreateBulk
  BY <1>3, NamespaceNewData DEF NamespaceCreate, NamespaceCreateBulk, Creates
<1>4. CASE NamespaceUpdate \/ NamespaceUpdateOne
  BY <1>4, NamespaceChangeData DEF NamespaceUpdate, NamespaceUpdateOne
<1>5. CASE NamespaceDelete
  BY <1>5, SaveDeleteData DEF NamespaceDelete
<1> QED
  BY <1>1, <1>2, <1>3, <1>4, <1>5 DEF NamespaceWrites

LEMMA PluginCallData ==
  ASSUME DataOK, PluginCall
  PROVE  DataOK' /\ Saves
<1>1. Calling("Plugin")
  BY DEF PluginCall
<1>2. CASE FieldCall("namespace_id", Ids)
  <2>1. "namespace_id" \in Columns["Plugin"]
    BY DEF Columns
  <2>2. Ids \in SUBSET (Words \cup Times \cup Nat)
    BY IdAssumption
  <2> QED
    BY <1>1, <1>2, <2>1, <2>2, FieldData
<1>3. CASE \E f \in {"name", "description"} : FieldCall(f, Words)
  <2>1. PICK f \in {"name", "description"} : FieldCall(f, Words)
    BY <1>3
  <2>2. f \in Columns["Plugin"] /\ f # "user_id" /\ f # "namespace_plugins"
    BY DEF Columns
  <2> QED
    BY <1>1, <2>1, <2>2, FieldData
<1>4. CASE \E i \in Ids : SetID(i)
  BY <1>1, <1>4, SetIDData
<1>5. CASE ChildrenCall("versions")
  BY <1>1, <1>5, EdgesFacts, ChildrenCallData
<1> QED
  BY <1>2, <1>3, <1>4, <1>5 DEF PluginCall, PluginFieldCall, PluginEdgeCall

LEMMA PluginRowSaid ==
  ASSUME NEW kind, NEW m, NEW s, Agrees(kind, "Plugin", m, s), PluginRequired(m),
         NEW row, row = PluginRow(m)
  PROVE  RowSaid("Plugin", s, row)
<1>1. /\ DOMAIN row = {"namespace_id", "name", "description", "namespace_plugins"}
      /\ row["namespace_id"] = m.set["namespace_id"]
      /\ row["name"] = m.set["name"]
      /\ row["description"] = m.set["description"]
      /\ row["namespace_plugins"] = Null
  BY DEF PluginRow
<1>2. /\ Columns["Plugin"] = {"namespace_id", "name", "description", "namespace_plugins"}
      /\ NotEmptyColumns["Plugin"] = {"name"}
  BY DEF Columns, NotEmptyColumns
<1>3. RowValid("Plugin", row)
  BY <1>1, <1>2 DEF RowValid, PluginRequired, NotEmpty
<1>4. s.column["namespace_plugins"] = Unset
  BY <1>2 DEF Agrees, ColumnAgrees
<1> QED
  BY <1>1, <1>2, <1>3, <1>4, SaidSet DEF RowSaid

LEMMA PluginNewData ==
  ASSUME DataOK, NEW kinds \in SUBSET Creates, Saving(kinds, "Plugin"), PluginNew
  PROVE  DataOK' /\ Saves
<1>1. PICK ms, rows, valid :
         /\ ms = [i \in DOMAIN builder.mutations |-> PluginDefaults(builder.mutations[i])]
         /\ rows = [i \in DOMAIN ms |-> PluginRow(ms[i])]
         /\ valid = \A i \in DOMAIN ms : PluginRequired(ms[i])
  OBVIOUS
<1>2. SaveNew("Plugin", ms, valid, rows)
  BY <1>1 DEF PluginNew
<1>3. builder # NoBuilder /\ builder.entity = "Plugin" /\ BuilderAgrees
  BY DEF Saving, DataOK
<1>4. /\ DOMAIN ms = DOMAIN builder.mutations /\ ms = [i \in DOMAIN ms |-> ms[i]]
      /\ \A i \in DOMAIN ms : ms[i] = PluginDefaults(builder.mutations[i]) /\ rows[i] = PluginRow(ms[i])
  BY <1>1
<1>5. ASSUME NEW i \in DOMAIN ms
      PROVE  Agrees(builder.kind, "Plugin", ms[i], builder.said[i])
  <2>1. /\ Agrees(builder.kind, "Plugin", builder.mutations[i], builder.said[i])
        /\ "Plugin" \in Entities /\ builder.kind \in Creates
    BY <1>3, <1>4 DEF BuilderAgrees, Saving
  <2>2. "description" \in Columns["Plugin"] /\ Blank \in Values
    BY TextAssumption DEF Columns, Values
  <2>3. ms[i] = [builder.mutations[i] EXCEPT !.set["description"] = Or(@, Blank)]
    BY <1>4 DEF PluginDefaults
  <2> QED
    BY <2>1, <2>2, <2>3, DefaultAgrees
<1>6. ms \in Seq(Mutations("Plugin")) /\ Len(ms) = Top /\ AllAgree(ms)
  BY <1>3, <1>4, <1>5, DefaultsAgree
<1>7. valid => \A i \in DOMAIN ms : RowSaid("Plugin", builder.said[i], rows[i])
  BY <1>1, <1>4, <1>5, PluginRowSaid
<1> QED
  BY <1>2, <1>6, <1>7, SaveNewData

LEMMA PluginRowAsSaid ==
  ASSUME NEW kind, kind \notin Creates, NEW m, NEW s, Agrees(kind, "Plugin", m, s),
         PluginCheck(m), NEW old, RowValid("Plugin", old), NEW row, row = PluginAfter(m, old)
  PROVE  RowAsSaid("Plugin", s, old, row)
<1>1. /\ DOMAIN row = {"namespace_id", "name", "description", "namespace_plugins"}
      /\ row["namespace_id"] = old["namespace_id"]
      /\ row["name"] = Or(m.set["name"], old["name"])
      /\ row["description"] = Or(m.set["description"], old["description"])
      /\ row["namespace_plugins"] = old["namespace_plugins"]
  BY DEF PluginAfter, RowValid, Columns
<1>2. /\ Columns["Plugin"] = {"namespace_id", "name", "description", "namespace_plugins"}
      /\ NotEmptyColumns["Plugin"] = {"name"} /\ ImmutableColumns["Plugin"] = {"namespace_id"}
  BY DEF Columns, NotEmptyColumns, ImmutableColumns
<1>3. RowValid("Plugin", row)
  BY <1>1, <1>2 DEF RowValid, PluginCheck, NotEmpty, Or
<1>4. ASSUME NEW c \in Columns["Plugin"]
      PROVE  ColumnAsSaid("Plugin", c, s, FALSE, old, row)
  <2>1. ColumnAgrees(kind, "Plugin", m, s, c)
    BY DEF Agrees
  <2>2. CASE c \in {"namespace_id", "name", "description", "namespace_plugins"}
    BY <1>1, <1>2, <2>1, <2>2, UnsetAssumption
       DEF ColumnAgrees, ColumnAsSaid, Or, OwnerColumns
  <2> QED
    BY <1>2, <2>2
<1> QED
  BY <1>1, <1>2, <1>3, <1>4 DEF RowAsSaid

LEMMA PluginChangeData ==
  ASSUME DataOK, NEW kinds \in SUBSET {"Update", "UpdateOne"}, Saving(kinds, "Plugin"),
         PluginChange
  PROVE  DataOK' /\ Saves
<1>1. PICK m, t, rows, valid :
         /\ m = PluginUpdateDefaults(M) /\ t = Target["Plugin"]
         /\ rows = [id \in DOMAIN t |-> PluginAfter(m, t[id])]
         /\ valid = PluginCheck(m)
  OBVIOUS
<1>2. SaveChanged("Plugin", m, valid, rows)
  BY <1>1 DEF PluginChange
<1>3. builder.kind \notin Creates /\ Agrees(builder.kind, "Plugin", M, S)
  BY UpdatedAgrees
<1>4. Agrees(builder.kind, "Plugin", m, S)
  BY <1>1, <1>3 DEF PluginUpdateDefaults
<1>5. \A id \in DOMAIN t : rows[id] = PluginAfter(m, t[id])
  BY <1>1
<1>6. valid /\ RowsValid(Target) => RowsSaid(Target, "Plugin", S, rows)
  <2> SUFFICES ASSUME PluginCheck(m), RowsValid(Target), NEW id \in DOMAIN t
               PROVE  RowAsSaid("Plugin", S, t[id], rows[id])
    BY <1>1 DEF RowsSaid
  <2>1. RowValid("Plugin", t[id])
    BY <1>1 DEF RowsValid, Entities
  <2> QED
    BY <1>3, <1>4, <1>5, <2>1, PluginRowAsSaid
<1> QED
  BY <1>2, <1>4, <1>6, SaveChangedData

LEMMA PluginData ==
  ASSUME DataOK, PluginWrites
  PROVE  DataOK' /\ Saves
<1>1. CASE PluginCall
  BY <1>1, PluginCallData
<1>2. CASE PluginClient \/ AnotherBuilder("Plugin")
  BY <1>2, OpenData DEF PluginClient, Entities
<1>3. CASE PluginCreate \/ PluginCreateBulk
  BY <1>3, PluginNewData DEF PluginCreate, PluginCreateBulk, Creates
<1>4. CASE PluginUpdate \/ PluginUpdateOne
  BY <1>4, PluginChangeData DEF PluginUpdate, PluginUpdateOne
<1>5. CASE PluginDelete
  BY <1>5, SaveDeleteData DEF PluginDelete
<1> QED
  BY <1>1, <1>2, <1>3, <1>4, <1>5 DEF PluginWrites

LEMMA PluginVersionCallData ==
  ASSUME DataOK, PluginVersionCall
  PROVE  DataOK' /\ Saves
<1>1. Calling("PluginVersion")
  BY DEF PluginVersionCall
<1>2. CASE FieldCall("plugin_id", Ids)
  <2>1. "plugin_id" \in Columns["PluginVersion"]
    BY DEF Columns
  <2>2. Ids \in SUBSET (Words \cup Times \cup Nat)
    BY IdAssumption
  <2> QED
    BY <1>1, <1>2, <2>1, <2>2, FieldData
<1>3. CASE \E f \in {"version", "oci_digest", "readme_html"} : FieldCall(f, Words)
  <2>1. PICK f \in {"version", "oci_digest", "readme_html"} : FieldCall(f, Words)
    BY <1>3
  <2>2. f \in Columns["PluginVersion"] /\ f # "user_id" /\ f # "namespace_plugins"
    BY DEF Columns
  <2> QED
    BY <1>1, <2>1, <2>2, FieldData
<1>4. CASE \E i \in Ids : SetID(i)
  BY <1>1, <1>4, SetIDData
<1>5. CASE OwnerCall("plugin_id")
  BY <1>1, <1>5, OwnerCallData DEF OwnerColumns
<1> QED
  BY <1>2, <1>3, <1>4, <1>5 DEF PluginVersionCall, PluginVersionFieldCall, PluginVersionEdgeCall

LEMMA PluginVersionRowSaid ==
  ASSUME NEW kind, NEW m, NEW s, Agrees(kind, "PluginVersion", m, s), PluginVersionRequired(m),
         NEW row, row = PluginVersionRow(m)
  PROVE  RowSaid("PluginVersion", s, row)
<1>1. /\ DOMAIN row = {"plugin_id", "version", "oci_digest", "readme_html"}
      /\ row["plugin_id"] = m.set["plugin_id"]
      /\ row["version"] = m.set["version"]
      /\ row["oci_digest"] = m.set["oci_digest"]
      /\ row["readme_html"] = m.set["readme_html"]
  BY DEF PluginVersionRow
<1>2. /\ Columns["PluginVersion"] = {"plugin_id", "version", "oci_digest", "readme_html"}
      /\ NotEmptyColumns["PluginVersion"] = {"version", "oci_digest"}
  BY DEF Columns, NotEmptyColumns
<1>3. RowValid("PluginVersion", row)
  BY <1>1, <1>2 DEF RowValid, PluginVersionRequired, NotEmpty
<1> QED
  BY <1>1, <1>2, <1>3, SaidSet DEF RowSaid

LEMMA PluginVersionNewData ==
  ASSUME DataOK, NEW kinds \in SUBSET Creates, Saving(kinds, "PluginVersion"), PluginVersionNew
  PROVE  DataOK' /\ Saves
<1>1. PICK ms, rows, valid :
         /\ ms = [i \in DOMAIN builder.mutations |-> PluginVersionDefaults(builder.mutations[i])]
         /\ rows = [i \in DOMAIN ms |-> PluginVersionRow(ms[i])]
         /\ valid = \A i \in DOMAIN ms : PluginVersionRequired(ms[i])
  OBVIOUS
<1>2. SaveNew("PluginVersion", ms, valid, rows)
  BY <1>1 DEF PluginVersionNew
<1>3. builder # NoBuilder /\ builder.entity = "PluginVersion" /\ BuilderAgrees
  BY DEF Saving, DataOK
<1>4. /\ DOMAIN ms = DOMAIN builder.mutations /\ ms = [i \in DOMAIN ms |-> ms[i]]
      /\ \A i \in DOMAIN ms : ms[i] = PluginVersionDefaults(builder.mutations[i]) /\ rows[i] = PluginVersionRow(ms[i])
  BY <1>1
<1>5. ASSUME NEW i \in DOMAIN ms
      PROVE  Agrees(builder.kind, "PluginVersion", ms[i], builder.said[i])
  <2>1. /\ Agrees(builder.kind, "PluginVersion", builder.mutations[i], builder.said[i])
        /\ "PluginVersion" \in Entities /\ builder.kind \in Creates
    BY <1>3, <1>4 DEF BuilderAgrees, Saving
  <2>2. "readme_html" \in Columns["PluginVersion"] /\ Blank \in Values
    BY TextAssumption DEF Columns, Values
  <2>3. ms[i] = [builder.mutations[i] EXCEPT !.set["readme_html"] = Or(@, Blank)]
    BY <1>4 DEF PluginVersionDefaults
  <2> QED
    BY <2>1, <2>2, <2>3, DefaultAgrees
<1>6. ms \in Seq(Mutations("PluginVersion")) /\ Len(ms) = Top /\ AllAgree(ms)
  BY <1>3, <1>4, <1>5, DefaultsAgree
<1>7. valid => \A i \in DOMAIN ms : RowSaid("PluginVersion", builder.said[i], rows[i])
  BY <1>1, <1>4, <1>5, PluginVersionRowSaid
<1> QED
  BY <1>2, <1>6, <1>7, SaveNewData

LEMMA PluginVersionRowAsSaid ==
  ASSUME NEW kind, kind \notin Creates, NEW m, NEW s, Agrees(kind, "PluginVersion", m, s),
         PluginVersionCheck(m), NEW old, RowValid("PluginVersion", old), NEW row, row = PluginVersionAfter(m, old)
  PROVE  RowAsSaid("PluginVersion", s, old, row)
<1>1. /\ DOMAIN row = {"plugin_id", "version", "oci_digest", "readme_html"}
      /\ row["plugin_id"] = OwnerAfter(m, "plugin_id", m.uncoupled, old["plugin_id"])
      /\ row["version"] = Or(m.set["version"], old["version"])
      /\ row["oci_digest"] = Or(m.set["oci_digest"], old["oci_digest"])
      /\ row["readme_html"] = Or(m.set["readme_html"], old["readme_html"])
  BY DEF PluginVersionAfter
<1>2. /\ Columns["PluginVersion"] = {"plugin_id", "version", "oci_digest", "readme_html"}
      /\ NotEmptyColumns["PluginVersion"] = {"version", "oci_digest"} /\ ImmutableColumns["PluginVersion"] = {}
  BY DEF Columns, NotEmptyColumns, ImmutableColumns
<1>3. RowValid("PluginVersion", row)
  BY <1>1, <1>2 DEF RowValid, PluginVersionCheck, NotEmpty, Or
<1>4. ASSUME NEW c \in Columns["PluginVersion"]
      PROVE  ColumnAsSaid("PluginVersion", c, s, FALSE, old, row)
  <2>1. ColumnAgrees(kind, "PluginVersion", m, s, c)
    BY DEF Agrees
  <2>2. CASE c = "plugin_id"
    BY <1>1, <1>2, <2>1, <2>2, UnsetAssumption
       DEF ColumnAgrees, ColumnAsSaid, OwnerAfter, IsSet, OwnerColumns
  <2>3. CASE c \in {"version", "oci_digest", "readme_html"}
    BY <1>1, <1>2, <2>1, <2>3, UnsetAssumption
       DEF ColumnAgrees, ColumnAsSaid, Or, OwnerColumns
  <2> QED
    BY <1>2, <2>2, <2>3
<1> QED
  BY <1>1, <1>2, <1>3, <1>4 DEF RowAsSaid

LEMMA PluginVersionChangeData ==
  ASSUME DataOK, NEW kinds \in SUBSET {"Update", "UpdateOne"}, Saving(kinds, "PluginVersion"),
         PluginVersionChange
  PROVE  DataOK' /\ Saves
<1>1. PICK m, t, rows, valid :
         /\ m = PluginVersionUpdateDefaults(M) /\ t = Target["PluginVersion"]
         /\ rows = [id \in DOMAIN t |-> PluginVersionAfter(m, t[id])]
         /\ valid = PluginVersionCheck(m)
  OBVIOUS
<1>2. SaveChanged("PluginVersion", m, valid, rows)
  BY <1>1 DEF PluginVersionChange
<1>3. builder.kind \notin Creates /\ Agrees(builder.kind, "PluginVersion", M, S)
  BY UpdatedAgrees
<1>4. Agrees(builder.kind, "PluginVersion", m, S)
  BY <1>1, <1>3 DEF PluginVersionUpdateDefaults
<1>5. \A id \in DOMAIN t : rows[id] = PluginVersionAfter(m, t[id])
  BY <1>1
<1>6. valid /\ RowsValid(Target) => RowsSaid(Target, "PluginVersion", S, rows)
  <2> SUFFICES ASSUME PluginVersionCheck(m), RowsValid(Target), NEW id \in DOMAIN t
               PROVE  RowAsSaid("PluginVersion", S, t[id], rows[id])
    BY <1>1 DEF RowsSaid
  <2>1. RowValid("PluginVersion", t[id])
    BY <1>1 DEF RowsValid, Entities
  <2> QED
    BY <1>3, <1>4, <1>5, <2>1, PluginVersionRowAsSaid
<1> QED
  BY <1>2, <1>4, <1>6, SaveChangedData

LEMMA PluginVersionData ==
  ASSUME DataOK, PluginVersionWrites
  PROVE  DataOK' /\ Saves
<1>1. CASE PluginVersionCall
  BY <1>1, PluginVersionCallData
<1>2. CASE PluginVersionClient \/ AnotherBuilder("PluginVersion")
  BY <1>2, OpenData DEF PluginVersionClient, Entities
<1>3. CASE PluginVersionCreate \/ PluginVersionCreateBulk
  BY <1>3, PluginVersionNewData DEF PluginVersionCreate, PluginVersionCreateBulk, Creates
<1>4. CASE PluginVersionUpdate \/ PluginVersionUpdateOne
  BY <1>4, PluginVersionChangeData DEF PluginVersionUpdate, PluginVersionUpdateOne
<1>5. CASE PluginVersionDelete
  BY <1>5, SaveDeleteData DEF PluginVersionDelete
<1> QED
  BY <1>1, <1>2, <1>3, <1>4, <1>5 DEF PluginVersionWrites

LEMMA RefreshTokenCallData ==
  ASSUME DataOK, RefreshTokenCall
  PROVE  DataOK' /\ Saves
<1>1. Calling("RefreshToken")
  BY DEF RefreshTokenCall
<1>2. CASE FieldCall("user_id", Ids)
  <2>1. "user_id" \in Columns["RefreshToken"]
    BY DEF Columns
  <2>2. Ids \in SUBSET (Words \cup Times \cup Nat)
    BY IdAssumption
  <2> QED
    BY <1>1, <1>2, <2>1, <2>2, FieldData
<1>3. CASE FieldCall("token_hash", Words)
  <2>1. "token_hash" \in Columns["RefreshToken"]
    BY DEF Columns
  <2> QED
    BY <1>1, <1>3, <2>1, FieldData
<1>4. CASE \E f \in {"expires_at", "created_at"} : FieldCall(f, Times)
  <2>1. PICK f \in {"expires_at", "created_at"} : FieldCall(f, Times)
    BY <1>4
  <2>2. f \in Columns["RefreshToken"] /\ f # "user_id" /\ f # "namespace_plugins"
    BY DEF Columns
  <2> QED
    BY <1>1, <2>1, <2>2, FieldData
<1>5. CASE \E i \in Ids : SetID(i)
  BY <1>1, <1>5, SetIDData
<1>6. CASE OwnerCall("user_id")
  BY <1>1, <1>6, OwnerCallData DEF OwnerColumns
<1> QED
  BY <1>2, <1>3, <1>4, <1>5, <1>6 DEF RefreshTokenCall, RefreshTokenFieldCall, RefreshTokenEdgeCall

LEMMA RefreshTokenRowSaid ==
  ASSUME NEW kind, NEW m, NEW s, Agrees(kind, "RefreshToken", m, s), RefreshTokenRequired(m),
         NEW row, row = RefreshTokenRow(m)
  PROVE  RowSaid("RefreshToken", s, row)
<1>1. /\ DOMAIN row = {"user_id", "token_hash", "expires_at", "created_at"}
      /\ row["user_id"] = m.set["user_id"]
      /\ row["token_hash"] = m.set["token_hash"]
      /\ row["expires_at"] = m.set["expires_at"]
      /\ row["created_at"] = m.set["created_at"]
  BY DEF RefreshTokenRow
<1>2. /\ Columns["RefreshToken"] = {"user_id", "token_hash", "expires_at", "created_at"}
      /\ NotEmptyColumns["RefreshToken"] = {"token_hash"}
  BY DEF Columns, NotEmptyColumns
<1>3. RowValid("RefreshToken", row)
  BY <1>1, <1>2 DEF RowValid, RefreshTokenRequired, NotEmpty
<1> QED
  BY <1>1, <1>2, <1>3, SaidSet DEF RowSaid

LEMMA RefreshTokenNewData ==
  ASSUME DataOK, NEW kinds \in SUBSET Creates, Saving(kinds, "RefreshToken"), RefreshTokenNew
  PROVE  DataOK' /\ Saves
<1>1. PICK ms, rows, valid :
         /\ ms = [i \in DOMAIN builder.mutations |-> RefreshTokenDefaults(builder.mutations[i])]
         /\ rows = [i \in DOMAIN ms |-> RefreshTokenRow(ms[i])]
         /\ valid = \A i \in DOMAIN ms : RefreshTokenRequired(ms[i])
  OBVIOUS
<1>2. SaveNew("RefreshToken", ms, valid, rows)
  BY <1>1 DEF RefreshTokenNew
<1>3. builder # NoBuilder /\ builder.entity = "RefreshToken" /\ BuilderAgrees
  BY DEF Saving, DataOK
<1>4. /\ DOMAIN ms = DOMAIN builder.mutations /\ ms = [i \in DOMAIN ms |-> ms[i]]
      /\ \A i \in DOMAIN ms : ms[i] = RefreshTokenDefaults(builder.mutations[i]) /\ rows[i] = RefreshTokenRow(ms[i])
  BY <1>1
<1>5. ASSUME NEW i \in DOMAIN ms
      PROVE  Agrees(builder.kind, "RefreshToken", ms[i], builder.said[i])
  <2>1. /\ Agrees(builder.kind, "RefreshToken", builder.mutations[i], builder.said[i])
        /\ "RefreshToken" \in Entities /\ builder.kind \in Creates
    BY <1>3, <1>4 DEF BuilderAgrees, Saving
  <2>2. "created_at" \in Columns["RefreshToken"] /\ Now \in Values
    BY TextAssumption DEF Columns, Values
  <2>3. ms[i] = [builder.mutations[i] EXCEPT !.set["created_at"] = Or(@, Now)]
    BY <1>4 DEF RefreshTokenDefaults
  <2> QED
    BY <2>1, <2>2, <2>3, DefaultAgrees
<1>6. ms \in Seq(Mutations("RefreshToken")) /\ Len(ms) = Top /\ AllAgree(ms)
  BY <1>3, <1>4, <1>5, DefaultsAgree
<1>7. valid => \A i \in DOMAIN ms : RowSaid("RefreshToken", builder.said[i], rows[i])
  BY <1>1, <1>4, <1>5, RefreshTokenRowSaid
<1> QED
  BY <1>2, <1>6, <1>7, SaveNewData

LEMMA RefreshTokenRowAsSaid ==
  ASSUME NEW kind, kind \notin Creates, NEW m, NEW s, Agrees(kind, "RefreshToken", m, s),
         RefreshTokenCheck(m), NEW old, RowValid("RefreshToken", old), NEW row, row = RefreshTokenAfter(m, old)
  PROVE  RowAsSaid("RefreshToken", s, old, row)
<1>1. /\ DOMAIN row = {"user_id", "token_hash", "expires_at", "created_at"}
      /\ row["user_id"] = OwnerAfter(m, "user_id", m.uncoupled, old["user_id"])
      /\ row["token_hash"] = Or(m.set["token_hash"], old["token_hash"])
      /\ row["expires_at"] = Or(m.set["expires_at"], old["expires_at"])
      /\ row["created_at"] = old["created_at"]
  BY DEF RefreshTokenAfter
<1>2. /\ Columns["RefreshToken"] = {"user_id", "token_hash", "expires_at", "created_at"}
      /\ NotEmptyColumns["RefreshToken"] = {"token_hash"} /\ ImmutableColumns["RefreshToken"] = {"created_at"}
  BY DEF Columns, NotEmptyColumns, ImmutableColumns
<1>3. RowValid("RefreshToken", row)
  BY <1>1, <1>2 DEF RowValid, RefreshTokenCheck, NotEmpty, Or
<1>4. ASSUME NEW c \in Columns["RefreshToken"]
      PROVE  ColumnAsSaid("RefreshToken", c, s, FALSE, old, row)
  <2>1. ColumnAgrees(kind, "RefreshToken", m, s, c)
    BY DEF Agrees
  <2>2. CASE c = "user_id"
    BY <1>1, <1>2, <2>1, <2>2, UnsetAssumption
       DEF ColumnAgrees, ColumnAsSaid, OwnerAfter, IsSet, OwnerColumns
  <2>3. CASE c \in {"token_hash", "expires_at", "created_at"}
    BY <1>1, <1>2, <2>1, <2>3, UnsetAssumption
       DEF ColumnAgrees, ColumnAsSaid, Or, OwnerColumns
  <2> QED
    BY <1>2, <2>2, <2>3
<1> QED
  BY <1>1, <1>2, <1>3, <1>4 DEF RowAsSaid

LEMMA RefreshTokenChangeData ==
  ASSUME DataOK, NEW kinds \in SUBSET {"Update", "UpdateOne"}, Saving(kinds, "RefreshToken"),
         RefreshTokenChange
  PROVE  DataOK' /\ Saves
<1>1. PICK m, t, rows, valid :
         /\ m = RefreshTokenUpdateDefaults(M) /\ t = Target["RefreshToken"]
         /\ rows = [id \in DOMAIN t |-> RefreshTokenAfter(m, t[id])]
         /\ valid = RefreshTokenCheck(m)
  OBVIOUS
<1>2. SaveChanged("RefreshToken", m, valid, rows)
  BY <1>1 DEF RefreshTokenChange
<1>3. builder.kind \notin Creates /\ Agrees(builder.kind, "RefreshToken", M, S)
  BY UpdatedAgrees
<1>4. Agrees(builder.kind, "RefreshToken", m, S)
  BY <1>1, <1>3 DEF RefreshTokenUpdateDefaults
<1>5. \A id \in DOMAIN t : rows[id] = RefreshTokenAfter(m, t[id])
  BY <1>1
<1>6. valid /\ RowsValid(Target) => RowsSaid(Target, "RefreshToken", S, rows)
  <2> SUFFICES ASSUME RefreshTokenCheck(m), RowsValid(Target), NEW id \in DOMAIN t
               PROVE  RowAsSaid("RefreshToken", S, t[id], rows[id])
    BY <1>1 DEF RowsSaid
  <2>1. RowValid("RefreshToken", t[id])
    BY <1>1 DEF RowsValid, Entities
  <2> QED
    BY <1>3, <1>4, <1>5, <2>1, RefreshTokenRowAsSaid
<1> QED
  BY <1>2, <1>4, <1>6, SaveChangedData

LEMMA RefreshTokenData ==
  ASSUME DataOK, RefreshTokenWrites
  PROVE  DataOK' /\ Saves
<1>1. CASE RefreshTokenCall
  BY <1>1, RefreshTokenCallData
<1>2. CASE RefreshTokenClient \/ AnotherBuilder("RefreshToken")
  BY <1>2, OpenData DEF RefreshTokenClient, Entities
<1>3. CASE RefreshTokenCreate \/ RefreshTokenCreateBulk
  BY <1>3, RefreshTokenNewData DEF RefreshTokenCreate, RefreshTokenCreateBulk, Creates
<1>4. CASE RefreshTokenUpdate \/ RefreshTokenUpdateOne
  BY <1>4, RefreshTokenChangeData DEF RefreshTokenUpdate, RefreshTokenUpdateOne
<1>5. CASE RefreshTokenDelete
  BY <1>5, SaveDeleteData DEF RefreshTokenDelete
<1> QED
  BY <1>1, <1>2, <1>3, <1>4, <1>5 DEF RefreshTokenWrites

LEMMA UserCallData ==
  ASSUME DataOK, UserCall
  PROVE  DataOK' /\ Saves
<1>1. Calling("User")
  BY DEF UserCall
<1>2. CASE \E f \in {"email", "password_hash"} : FieldCall(f, Words)
  <2>1. PICK f \in {"email", "password_hash"} : FieldCall(f, Words)
    BY <1>2
  <2>2. f \in Columns["User"] /\ f # "user_id" /\ f # "namespace_plugins"
    BY DEF Columns
  <2> QED
    BY <1>1, <2>1, <2>2, FieldData
<1>3. CASE \E f \in {"created_at", "updated_at"} : FieldCall(f, Times)
  <2>1. PICK f \in {"created_at", "updated_at"} : FieldCall(f, Times)
    BY <1>3
  <2>2. f \in Columns["User"] /\ f # "user_id" /\ f # "namespace_plugins"
    BY DEF Columns
  <2> QED
    BY <1>1, <2>1, <2>2, FieldData
<1>4. CASE \E i \in Ids : SetID(i)
  BY <1>1, <1>4, SetIDData
<1>5. CASE ChildrenCall("refresh_tokens") \/ ChildrenCall("namespaces")
  BY <1>1, <1>5, EdgesFacts, ChildrenCallData
<1> QED
  BY <1>2, <1>3, <1>4, <1>5 DEF UserCall, UserFieldCall, UserEdgeCall

LEMMA UserRowSaid ==
  ASSUME NEW kind, NEW m, NEW s, Agrees(kind, "User", m, s), UserRequired(m),
         NEW row, row = UserRow(m)
  PROVE  RowSaid("User", s, row)
<1>1. /\ DOMAIN row = {"email", "password_hash", "created_at", "updated_at"}
      /\ row["email"] = m.set["email"]
      /\ row["password_hash"] = m.set["password_hash"]
      /\ row["created_at"] = m.set["created_at"]
      /\ row["updated_at"] = m.set["updated_at"]
  BY DEF UserRow
<1>2. /\ Columns["User"] = {"email", "password_hash", "created_at", "updated_at"}
      /\ NotEmptyColumns["User"] = {"email", "password_hash"}
  BY DEF Columns, NotEmptyColumns
<1>3. RowValid("User", row)
  BY <1>1, <1>2 DEF RowValid, UserRequired, NotEmpty
<1> QED
  BY <1>1, <1>2, <1>3, SaidSet DEF RowSaid

LEMMA UserDefaultsAgree ==
  ASSUME NEW kind \in Creates, NEW m, NEW s, Agrees(kind, "User", m, s)
  PROVE  Agrees(kind, "User", UserDefaults(m), s)
<1>1. PICK n : n = [m EXCEPT !.set["created_at"] = Or(@, Now)]
  OBVIOUS
<1>2. /\ "User" \in Entities /\ "created_at" \in Columns["User"]
      /\ "updated_at" \in Columns["User"] /\ Now \in Values
  BY TextAssumption DEF Entities, Columns, Values
<1>3. Agrees(kind, "User", n, s)
  BY <1>1, <1>2, DefaultAgrees
<1>4. Agrees(kind, "User", [n EXCEPT !.set["updated_at"] = Or(@, Now)], s)
  BY <1>2, <1>3, DefaultAgrees
<1>5. UserDefaults(m) = [n EXCEPT !.set["updated_at"] = Or(@, Now)]
  BY <1>1 DEF UserDefaults
<1> QED
  BY <1>4, <1>5

LEMMA UserNewData ==
  ASSUME DataOK, NEW kinds \in SUBSET Creates, Saving(kinds, "User"), UserNew
  PROVE  DataOK' /\ Saves
<1>1. PICK ms, rows, valid :
         /\ ms = [i \in DOMAIN builder.mutations |-> UserDefaults(builder.mutations[i])]
         /\ rows = [i \in DOMAIN ms |-> UserRow(ms[i])]
         /\ valid = \A i \in DOMAIN ms : UserRequired(ms[i])
  OBVIOUS
<1>2. SaveNew("User", ms, valid, rows)
  BY <1>1 DEF UserNew
<1>3. builder # NoBuilder /\ builder.entity = "User" /\ BuilderAgrees
  BY DEF Saving, DataOK
<1>4. /\ DOMAIN ms = DOMAIN builder.mutations /\ ms = [i \in DOMAIN ms |-> ms[i]]
      /\ \A i \in DOMAIN ms : ms[i] = UserDefaults(builder.mutations[i]) /\ rows[i] = UserRow(ms[i])
  BY <1>1
<1>5. ASSUME NEW i \in DOMAIN ms
      PROVE  Agrees(builder.kind, "User", ms[i], builder.said[i])
  <2>1. /\ Agrees(builder.kind, "User", builder.mutations[i], builder.said[i])
        /\ "User" \in Entities /\ builder.kind \in Creates
    BY <1>3, <1>4 DEF BuilderAgrees, Saving
  <2> QED
    BY <1>4, <2>1, UserDefaultsAgree
<1>6. ms \in Seq(Mutations("User")) /\ Len(ms) = Top /\ AllAgree(ms)
  BY <1>3, <1>4, <1>5, DefaultsAgree
<1>7. valid => \A i \in DOMAIN ms : RowSaid("User", builder.said[i], rows[i])
  BY <1>1, <1>4, <1>5, UserRowSaid
<1> QED
  BY <1>2, <1>6, <1>7, SaveNewData

LEMMA UserRowAsSaid ==
  ASSUME NEW kind, kind \notin Creates, NEW m, NEW s, Agrees(kind, "User", m, s),
         UserCheck(m), NEW old, RowValid("User", old), NEW row, row = UserAfter(m, old)
  PROVE  RowAsSaid("User", s, old, row)
<1>1. /\ DOMAIN row = {"email", "password_hash", "created_at", "updated_at"}
      /\ row["email"] = Or(m.set["email"], old["email"])
      /\ row["password_hash"] = Or(m.set["password_hash"], old["password_hash"])
      /\ row["created_at"] = old["created_at"]
      /\ row["updated_at"] = Or(m.set["updated_at"], old["updated_at"])
  BY DEF UserAfter
<1>2. /\ Columns["User"] = {"email", "password_hash", "created_at", "updated_at"}
      /\ NotEmptyColumns["User"] = {"email", "password_hash"} /\ ImmutableColumns["User"] = {"created_at"}
  BY DEF Columns, NotEmptyColumns, ImmutableColumns
<1>3. RowValid("User", row)
  BY <1>1, <1>2 DEF RowValid, UserCheck, NotEmpty, Or
<1>4. ASSUME NEW c \in Columns["User"]
      PROVE  ColumnAsSaid("User", c, s, FALSE, old, row)
  <2>1. ColumnAgrees(kind, "User", m, s, c)
    BY DEF Agrees
  <2>2. CASE c \in {"email", "password_hash", "created_at", "updated_at"}
    BY <1>1, <1>2, <2>1, <2>2, UnsetAssumption
       DEF ColumnAgrees, ColumnAsSaid, Or, OwnerColumns
  <2> QED
    BY <1>2, <2>2
<1> QED
  BY <1>1, <1>2, <1>3, <1>4 DEF RowAsSaid

LEMMA UserChangeData ==
  ASSUME DataOK, NEW kinds \in SUBSET {"Update", "UpdateOne"}, Saving(kinds, "User"),
         UserChange
  PROVE  DataOK' /\ Saves
<1>1. PICK m, t, rows, valid :
         /\ m = UserUpdateDefaults(M) /\ t = Target["User"]
         /\ rows = [id \in DOMAIN t |-> UserAfter(m, t[id])]
         /\ valid = UserCheck(m)
  OBVIOUS
<1>2. SaveChanged("User", m, valid, rows)
  BY <1>1 DEF UserChange
<1>3. builder.kind \notin Creates /\ Agrees(builder.kind, "User", M, S)
  BY UpdatedAgrees
<1>4. Agrees(builder.kind, "User", m, S)
  <2>1. "User" \in Entities /\ "updated_at" \in Columns["User"] /\ Now \in Values
    BY TextAssumption DEF Entities, Columns, Values
  <2>2. m = [M EXCEPT !.set["updated_at"] = Or(@, Now)]
    BY <1>1 DEF UserUpdateDefaults
  <2>3. PICK n, s : n = M /\ s = S
    OBVIOUS
  <2>4. Agrees(builder.kind, "User", [n EXCEPT !.set["updated_at"] = Or(@, Now)], s)
    BY <1>3, <2>1, <2>3, DefaultAgrees
  <2> QED
    BY <2>2, <2>3, <2>4
<1>5. \A id \in DOMAIN t : rows[id] = UserAfter(m, t[id])
  BY <1>1
<1>6. valid /\ RowsValid(Target) => RowsSaid(Target, "User", S, rows)
  <2> SUFFICES ASSUME UserCheck(m), RowsValid(Target), NEW id \in DOMAIN t
               PROVE  RowAsSaid("User", S, t[id], rows[id])
    BY <1>1 DEF RowsSaid
  <2>1. RowValid("User", t[id])
    BY <1>1 DEF RowsValid, Entities
  <2> QED
    BY <1>3, <1>4, <1>5, <2>1, UserRowAsSaid
<1> QED
  BY <1>2, <1>4, <1>6, SaveChangedData

LEMMA UserData ==
  ASSUME DataOK, UserWrites
  PROVE  DataOK' /\ Saves
<1>1. CASE UserCall
  BY <1>1, UserCallData
<1>2. CASE UserClient \/ AnotherBuilder("User")
  BY <1>2, OpenData DEF UserClient, Entities
<1>3. CASE UserCreate \/ UserCreateBulk
  BY <1>3, UserNewData DEF UserCreate, UserCreateBulk, Creates
<1>4. CASE UserUpdate \/ UserUpdateOne
  BY <1>4, UserChangeData DEF UserUpdate, UserUpdateOne
<1>5. CASE UserDelete
  BY <1>5, SaveDeleteData DEF UserDelete
<1> QED
  BY <1>1, <1>2, <1>3, <1>4, <1>5 DEF UserWrites

-----------------------------------------------------------------------------
LEMMA TxData ==
  ASSUME DataOK, BeginTx \/ CommitTx \/ RollbackTx
  PROVE  DataOK' /\ Saves
<1>1. /\ builder' = builder /\ serial' = serial /\ BudgetOK' /\ budget'.saves = budget.saves
  BY DEF BeginTx, CommitTx, RollbackTx, DataOK, BudgetOK
<1>2. Saves /\ BuilderAgrees' /\ SerialOK'
  BY <1>1, QuietStep DEF DataOK, BuilderAgrees, Agrees, Top, SerialOK
<1>3. CASE BeginTx
  <2>1. /\ tables' = tables /\ tx' \in [state : {"open", "aborted", "ended"}, work : {tx'.work}, failed : BOOLEAN]
        /\ tx'.work = tables
    BY <1>3 DEF BeginTx
  <2> QED
    BY <1>1, <1>2, <2>1 DEF DataOK, StoredRowsValid, TxValid
<1>4. CASE CommitTx \/ RollbackTx
  <2>1. /\ tx # NoTx /\ tx' = [tx EXCEPT !.state = "ended"]
        /\ tables' = tables \/ (tables' = tx.work /\ tx.state = "open")
    BY <1>4 DEF CommitTx, RollbackTx, InTx, NoTx
  <2>2. tx \in [state : {"open", "aborted", "ended"}, work : {tx.work}, failed : BOOLEAN]
    BY <2>1 DEF DataOK, TxValid
  <2>3. /\ tx' \in [state : {"open", "aborted", "ended"}, work : {tx'.work}, failed : BOOLEAN]
        /\ tx'.state = "ended"
    BY <2>1, <2>2
  <2>4. StoredRowsValid'
    BY <2>1 DEF DataOK, TxValid, StoredRowsValid
  <2> QED
    BY <1>1, <1>2, <2>3, <2>4 DEF DataOK, TxValid
<1> QED
  BY <1>3, <1>4

\* The reader changes no data.
LEMMA ReadData ==
  ASSUME DataOK, UNCHANGED <<tables, serial, tx, builder>>,
         budget' = budget \/ (budget.queries > 0 /\ budget' = [budget EXCEPT !.queries = @ - 1])
  PROVE  DataOK' /\ Saves
<1>1. Frame
  BY DEF Frame, DataOK, BudgetOK
<1>2. BuilderAgrees'
  BY DEF DataOK, BuilderAgrees, Agrees, Top
<1> QED
  BY <1>1, <1>2, FrameData

LEMMA QueryData ==
  ASSUME DataOK,
         \/ \E e, where, fields, with, child : OpenQuery(e, where, fields, with, child)
         \/ RunAgain
         \/ \E next : Reads(next)
  PROVE  DataOK' /\ Saves
<1>1. /\ UNCHANGED <<tables, serial, tx, builder>>
      /\ budget' = budget \/ (budget.queries > 0 /\ budget' = [budget EXCEPT !.queries = @ - 1])
  BY DEF OpenQuery, RunAgain, Reads
<1> QED
  BY <1>1, ReadData

LEMMA ReadsData ==
  ASSUME DataOK,
         NamespaceReads \/ PluginReads \/ PluginVersionReads \/ RefreshTokenReads \/ UserReads
  PROVE  DataOK' /\ Saves
<1>1. CASE NamespaceReads
  BY <1>1, QueryData DEF NamespaceReads, NamespaceQuery, NamespaceAll, NamespaceLoadPlugins, NamespaceLoadUser, QueryNodes, LoadChildren, LoadOwner, Loaded
<1>2. CASE PluginReads
  BY <1>2, QueryData DEF PluginReads, PluginQuery, PluginAll, PluginLoadVersions, QueryNodes, LoadChildren, Loaded
<1>3. CASE PluginVersionReads
  BY <1>3, QueryData DEF PluginVersionReads, PluginVersionQuery, PluginVersionAll, PluginVersionLoadPlugin, QueryNodes, LoadOwner, Loaded
<1>4. CASE RefreshTokenReads
  BY <1>4, QueryData DEF RefreshTokenReads, RefreshTokenQuery, RefreshTokenAll, RefreshTokenLoadUser, QueryNodes, LoadOwner, Loaded
<1>5. CASE UserReads
  BY <1>5, QueryData DEF UserReads, UserQuery, UserAll, UserLoadRefreshTokens, UserLoadNamespaces, QueryNodes, LoadChildren, Loaded
<1> QED
  BY <1>1, <1>2, <1>3, <1>4, <1>5

LEMMA DataInit == Init => DataOK
<1> SUFFICES ASSUME Init PROVE DataOK
  OBVIOUS
<1>1. PICK start \in Starts : tables = start.tables /\ budget = start.budget
  BY DEF Init
<1>2. StoredRowsValid /\ BudgetOK
  BY <1>1, StartAssumption DEF StoredRowsValid, BudgetOK
<1>3. \A e \in Entities : Cardinality(DOMAIN tables[e]) \in Nat
  <2>1. \A e \in Entities : IsFiniteSet(DOMAIN tables[e])
    BY <1>1, StartAssumption
  <2> QED
    BY <2>1, FS_CardinalityType
<1>4. SerialOK
  BY <1>3 DEF Init, SerialOK
<1> QED
  BY <1>2, <1>4 DEF Init, DataOK, TxValid, BuilderAgrees

LEMMA DataNext ==
  ASSUME DataOK, [Next]_vars
  PROVE  DataOK' /\ (Next => Saves)
<1>1. CASE UNCHANGED vars
  <2>1. DataOK'
    BY <1>1, ReadData DEF vars
  <2>2. Saves
    BY <1>1, ReadData DEF vars
  <2> QED
    BY <2>1, <2>2
<1>2. CASE Next
  BY <1>2, TxData, NamespaceData, PluginData, PluginVersionData, RefreshTokenData,
     UserData, ReadsData, QueryData DEF Next
<1> QED
  BY <1>1, <1>2

\* Rows, transactions, sequences and builders are as DataOK says, always.
THEOREM DataAlwaysOK == Spec => []DataOK
<1>1. DataOK /\ [Next]_vars => DataOK'
  BY DataNext
<1> QED
  BY <1>1, DataInit, PTL DEF Spec

\* No mix of calls, saves and transactions stores a row the validators or the
\* constraints refuse (internal/ent/namespace_create.go:136).
THEOREM RowsSafety == Spec => []StoredRowsValid
<1>1. DataOK => StoredRowsValid
  BY DEF DataOK
<1> QED
  BY <1>1, DataAlwaysOK, PTL

\* A save that succeeds writes the last word on every column and every child
\* (internal/ent/mutation.go).
THEOREM SavesAsSaid == Spec => SavedAsSaid
<1>1. DataOK /\ [Next]_vars => [SaveAsSaid]_vars
  BY DataNext DEF Saves
<1> QED
  BY <1>1, DataAlwaysOK, PTL DEF Spec, SavedAsSaid

\* No save changes an immutable column of a row that stays
\* (internal/ent/schema/plugin.go:16).
THEOREM ImmutableSafety == Spec => ImmutableStays
<1>1. DataOK /\ [Next]_vars => [SaveKeeps]_vars
  BY DataNext DEF Saves
<1> QED
  BY <1>1, DataAlwaysOK, PTL DEF Spec, ImmutableStays

-----------------------------------------------------------------------------
\* The reader: nodes have the foreign keys the edges still to load go by.
ReaderFields(r) ==
  [step : {"query", "load", "done", "failed"}, entity : Entities, where : {r.where},
   fields : {r.fields}, with : Seq(EdgesOf(r.entity) \cup OwnerColumns[r.entity]),
   todo : Seq(DOMAIN r.with), childFields : {r.childFields}, narrowed : {r.narrowed},
   nodes : {r.nodes}, stored : {r.stored}, loaded : {r.loaded}]

ReaderOK ==
  reader # Idle =>
    /\ reader \in ReaderFields(reader)
    /\ DOMAIN reader.narrowed = DOMAIN reader.with
    /\ DOMAIN reader.loaded = DOMAIN reader.with
    /\ reader.step = "load" =>
         /\ reader.todo # <<>>
         /\ DOMAIN reader.stored = DOMAIN reader.nodes
         /\ \A i \in DOMAIN reader.with : reader.with[i] \notin EdgeNames =>
              \A id \in DOMAIN reader.nodes :
                reader.nodes[id][reader.with[i]] = reader.stored[id][reader.with[i]]

LEMMA OwnerFacts ==
  ASSUME NEW e \in Entities
  PROVE  /\ EdgesOf(e) \subseteq EdgeNames /\ OwnerColumns[e] \subseteq Columns[e]
         /\ \A f \in OwnerColumns[e] : f \in {"user_id", "plugin_id"} /\ f \notin EdgeNames
BY EdgeFacts DEF EdgesOf, Entities, OwnerColumns, Columns

LEMMA NodeKey ==
  ASSUME NEW e, NEW row, NEW columns, NEW c \in Columns[e], columns = AllColumns \/ c \in columns
  PROVE  Node(e, row, columns)[c] = row[c]
BY DEF Node

LEMMA WithColumnHas ==
  ASSUME NEW columns, NEW c
  PROVE  WithColumn(columns, c) = AllColumns \/ c \in WithColumn(columns, c)
BY DEF WithColumn

\* An edge's statement fills in one edge and leaves the rest.
LEMMA LoadedStep ==
  ASSUME ReaderOK, reader.step = "load", NEW i, i = Head(reader.todo), NEW ids, NEW nodes,
         Loaded(i, ids, nodes)
  PROVE  ReaderOK' /\ reader'.step # "failed" /\ reader'.loaded[i] = nodes
<1>1. reader # Idle
  BY DEF Idle
<1>2. PICK w, n, td, st : /\ w = reader.with /\ td = reader.todo
                          /\ st = (IF Len(td) = 1 THEN "done" ELSE "load")
                          /\ n = IF ids = {} THEN reader.narrowed[i] ELSE Asked(i, ids)
  OBVIOUS
<1>3. /\ w \in Seq(EdgesOf(reader.entity) \cup OwnerColumns[reader.entity])
      /\ td \in Seq(DOMAIN w) /\ td # <<>>
      /\ DOMAIN reader.narrowed = DOMAIN w /\ DOMAIN reader.loaded = DOMAIN w
  BY <1>1, <1>2 DEF ReaderOK, ReaderFields
<1>4. i \in DOMAIN w /\ Tail(td) \in Seq(DOMAIN w) /\ (Len(td) # 1 => Tail(td) # <<>>)
  <2>1. PICK D : D = DOMAIN w
    OBVIOUS
  <2>2. td \in Seq(D) /\ td # <<>>
    BY <1>3, <2>1
  <2>3. Len(td) \in Nat /\ Len(td) # 0 /\ td[1] \in D /\ Head(td) = td[1]
    BY <2>2
  <2>4. Tail(td) \in Seq(D) /\ Len(Tail(td)) = Len(td) - 1
    BY <2>2, <2>3
  <2>5. Len(td) # 1 => Len(Tail(td)) # 0
    BY <2>3, <2>4
  <2>6. Len(td) # 1 => Tail(td) # <<>>
    BY <2>5
  <2> QED
    BY <1>2, <2>1, <2>3, <2>4, <2>6
<1>5. reader' = [reader EXCEPT !.step = st, !.todo = Tail(td), !.loaded[i] = nodes,
                               !.narrowed[i] = n]
  BY <1>2 DEF Loaded, Reads
<1>6. reader \in ReaderFields(reader)
  BY <1>1 DEF ReaderOK
<1>7. /\ reader'.step = st /\ reader'.todo = Tail(td) /\ reader'.with = w
      /\ reader'.loaded = [reader.loaded EXCEPT ![i] = nodes]
      /\ reader'.narrowed = [reader.narrowed EXCEPT ![i] = n]
      /\ reader'.nodes = reader.nodes /\ reader'.stored = reader.stored
      /\ reader'.entity = reader.entity
  BY <1>2, <1>5, <1>6 DEF ReaderFields
<1>8. st \in {"done", "load"}
  BY <1>2
<1>9. reader' \in ReaderFields(reader')
  BY <1>2, <1>3, <1>4, <1>5, <1>6, <1>7, <1>8 DEF ReaderFields
<1>10. /\ DOMAIN reader'.narrowed = DOMAIN w /\ DOMAIN reader'.loaded = DOMAIN w
       /\ reader'.loaded[i] = nodes
  BY <1>3, <1>4, <1>7
<1>11. ReaderOK'
  <2>1. reader'.step = "load" =>
          /\ reader'.todo # <<>> /\ DOMAIN reader'.stored = DOMAIN reader'.nodes
          /\ \A j \in DOMAIN reader'.with : reader'.with[j] \notin EdgeNames =>
               \A id \in DOMAIN reader'.nodes :
                 reader'.nodes[id][reader'.with[j]] = reader'.stored[id][reader'.with[j]]
    BY <1>1, <1>2, <1>4, <1>7 DEF ReaderOK
  <2> QED
    BY <1>7, <1>9, <1>10, <2>1 DEF ReaderOK
<1> QED
  BY <1>7, <1>8, <1>10, <1>11

LEMMA LoadChildrenOK ==
  ASSUME ReaderOK, NEW g \in EdgeNames, NEW columns,
         columns = AllColumns \/ Edge[g].column \in columns, LoadChildren(g, columns)
  PROVE  ReaderOK' /\ LoadIsStored
<1> DEFINE E == Edge[g]
<1>1. PICK i, parents, found :
         /\ i = Head(reader.todo) /\ parents = DOMAIN reader.nodes
         /\ found = UNION {Children(tables, g, p) : p \in Asked(i, parents)}
  OBVIOUS
<1>2. reader.step = "load" /\ reader.with[i] = g
  BY <1>1 DEF LoadChildren, Loading
<1>3. \A k : Node(E.child, tables[E.child][k], columns)[E.column] = Key(tables, g, k)
  BY KeyFacts, NodeKey DEF Key
<1>4. /\ Asked(i, parents) \subseteq parents
      /\ reader.narrowed[i] = Unset => Asked(i, parents) = parents
  BY DEF Asked
<1>5. \A p : Children(tables, g, p) = {k \in DOMAIN tables[E.child] : Key(tables, g, k) = p}
  BY DEF Children, Key
<1>6. \A k \in found : k \in DOMAIN tables[E.child] /\ Key(tables, g, k) \in parents
  BY <1>1, <1>4, <1>5
<1>7. PICK nodes : nodes = [p \in parents |-> {k \in found : Key(tables, g, k) = p}]
  OBVIOUS
<1>8. Loaded(i, parents, nodes)
  <2>1. nodes = [p \in parents |->
           {k \in found : Node(E.child, tables[E.child][k], columns)[E.column] = p}]
    BY <1>3, <1>7
  <2>2. ~ \E k \in found : Node(E.child, tables[E.child][k], columns)[E.column] \notin parents
    BY <1>3, <1>6
  <2> QED
    BY <1>1, <2>1, <2>2 DEF LoadChildren
<1>9. ReaderOK' /\ reader'.step # "failed" /\ reader'.loaded[i] = nodes
  BY <1>1, <1>2, <1>8, LoadedStep
<1>10. ASSUME NEW id \in parents
       PROVE  /\ nodes[id] \subseteq Children(tables, g, id)
              /\ reader.narrowed[i] = Unset => nodes[id] = Children(tables, g, id)
  <2>1. nodes[id] = {k \in found : Key(tables, g, k) = id}
    BY <1>7
  <2> QED
    BY <1>1, <1>4, <1>5, <1>6, <2>1
<1> QED
  BY <1>1, <1>2, <1>9, <1>10 DEF LoadIsStored

LEMMA LoadOwnerOK ==
  ASSUME ReaderOK, StoredRowsValid, NEW e, NEW f \in {"user_id", "plugin_id"}, NEW owner,
         owner = IF f = "plugin_id" THEN "Plugin" ELSE "User", LoadOwner(e, f, owner)
  PROVE  ReaderOK' /\ LoadIsStored
<1>1. PICK i, nodes, wanted, found :
         /\ i = Head(reader.todo) /\ nodes = reader.nodes
         /\ wanted = {nodes[id][f] : id \in DOMAIN nodes} \ {Null}
         /\ found = Asked(i, wanted) \cap DOMAIN tables[owner]
  OBVIOUS
<1>2. reader.step = "load" /\ reader.with[i] = f
  BY <1>1 DEF LoadOwner, Loading
<1>3. PICK owners : owners = [id \in DOMAIN nodes |-> {nodes[id][f]} \cap found]
  OBVIOUS
<1>4. Loaded(i, wanted, owners)
  BY <1>1, <1>3 DEF LoadOwner
<1>5. ReaderOK' /\ reader'.step # "failed" /\ reader'.loaded[i] = owners
  BY <1>1, <1>2, <1>4, LoadedStep
<1>6. f \notin EdgeNames
  BY EdgeFacts
<1>7. i \in DOMAIN reader.with /\ reader # Idle
  <2>1. reader # Idle
    BY <1>2 DEF Idle
  <2>2. reader.todo \in Seq(DOMAIN reader.with) /\ reader.todo # <<>>
    BY <1>2, <2>1 DEF ReaderOK, ReaderFields
  <2> QED
    BY <1>1, <2>1, <2>2
<1>8. \A id \in DOMAIN nodes : nodes[id][f] = reader.stored[id][f]
  BY <1>1, <1>2, <1>6, <1>7 DEF ReaderOK
<1>9. Null \notin DOMAIN tables[owner]
  BY NullAssumption DEF StoredRowsValid, RowsValid, Entities
<1>10. ASSUME NEW id \in DOMAIN nodes
       PROVE  LET true == {reader.stored[id][f]} \cap DOMAIN tables[owner] IN
              /\ owners[id] \subseteq true
              /\ reader.narrowed[i] = Unset => owners[id] = true
  <2>1. owners[id] = {nodes[id][f]} \cap found
    BY <1>3
  <2>2. reader.narrowed[i] = Unset => Asked(i, wanted) = wanted
    BY DEF Asked
  <2>3. nodes[id][f] \in wanted \/ nodes[id][f] = Null
    BY <1>1
  <2> QED
    BY <1>1, <1>8, <1>9, <2>1, <2>2, <2>3
<1> QED
  BY <1>1, <1>2, <1>5, <1>6, <1>10 DEF LoadIsStored

\* The statement for the nodes reads the foreign keys of their owners.
LEMMA QueryNodesOK ==
  ASSUME ReaderOK, NEW e \in Entities, NEW columns, QueryNodes(e, columns),
         \A i \in DOMAIN reader.with : reader.with[i] \in OwnerColumns[e] =>
           columns = AllColumns \/ reader.with[i] \in columns
  PROVE  ReaderOK' /\ LoadIsStored
<1>1. PICK ids, todo, st, nodes, stored, loaded, w :
         /\ ids = Matching(reader.where, tables, e)
         /\ w = reader.with
         /\ todo = (IF ids = {} THEN <<>> ELSE [i \in DOMAIN reader.with |-> i])
         /\ st = (IF todo = <<>> THEN "done" ELSE "load")
         /\ nodes = [id \in ids |-> Node(e, tables[e][id], columns)]
         /\ stored = [id \in ids |-> tables[e][id]]
         /\ loaded = [i \in DOMAIN reader.with |-> <<>>]
  OBVIOUS
<1>2. /\ reader.step = "query" /\ reader.entity = e
      /\ reader' = [reader EXCEPT !.step = st, !.todo = todo, !.nodes = nodes,
                                  !.stored = stored, !.loaded = loaded]
  BY <1>1 DEF QueryNodes, Reads
<1>3. reader # Idle
  BY <1>2 DEF Idle
<1>4. /\ reader \in ReaderFields(reader) /\ DOMAIN reader.narrowed = DOMAIN w
      /\ w \in Seq(EdgesOf(e) \cup OwnerColumns[e])
  BY <1>1, <1>2, <1>3 DEF ReaderOK, ReaderFields
<1>5. todo \in Seq(DOMAIN w) /\ DOMAIN loaded = DOMAIN w /\ st \in {"done", "load"}
  <2>1. DOMAIN w = 1 .. Len(w) /\ Len(w) \in Nat
    BY <1>4
  <2>2. [i \in 1 .. Len(w) |-> i] \in Seq(1 .. Len(w))
    BY <2>1
  <2>3. <<>> \in Seq(DOMAIN w)
    OBVIOUS
  <2> QED
    BY <1>1, <2>1, <2>2, <2>3
<1>6. /\ reader'.step = st /\ reader'.todo = todo /\ reader'.nodes = nodes
      /\ reader'.stored = stored /\ reader'.loaded = loaded /\ reader'.with = w
      /\ reader'.narrowed = reader.narrowed /\ reader'.entity = e
  BY <1>1, <1>2, <1>4 DEF ReaderFields
<1>7. reader' \in ReaderFields(reader')
  <2>1. PICK W, T : W = Seq(EdgesOf(e) \cup OwnerColumns[e]) /\ T = Seq(DOMAIN w)
    OBVIOUS
  <2>2. reader.entity = e /\ reader.with = w /\ w \in W /\ todo \in T
    BY <1>1, <1>2, <1>4, <1>5, <2>1
  <2>3. reader \in [step : {"query", "load", "done", "failed"}, entity : Entities,
                    where : {reader.where}, fields : {reader.fields}, with : W, todo : T,
                    childFields : {reader.childFields}, narrowed : {reader.narrowed},
                    nodes : {reader.nodes}, stored : {reader.stored}, loaded : {reader.loaded}]
    BY <1>4, <2>1, <2>2 DEF ReaderFields
  <2>4. reader' \in [step : {"query", "load", "done", "failed"}, entity : Entities,
                     where : {reader'.where}, fields : {reader'.fields}, with : W, todo : T,
                     childFields : {reader'.childFields}, narrowed : {reader'.narrowed},
                     nodes : {reader'.nodes}, stored : {reader'.stored}, loaded : {reader'.loaded}]
    BY <1>2, <1>5, <2>2, <2>3
  <2> QED
    BY <1>6, <2>1, <2>4 DEF ReaderFields
<1>8. ASSUME NEW i \in DOMAIN w, w[i] \notin EdgeNames, NEW id \in ids
      PROVE  nodes[id][w[i]] = stored[id][w[i]]
  <2>1. w[i] \in EdgesOf(e) \cup OwnerColumns[e]
    BY <1>4
  <2>2. w[i] \in OwnerColumns[e] /\ w[i] \in Columns[e]
    BY <1>8, <2>1, OwnerFacts
  <2>3. columns = AllColumns \/ w[i] \in columns
    BY <1>1, <2>2
  <2> QED
    BY <1>1, <1>8, <2>2, <2>3, NodeKey
<1>9. DOMAIN stored = ids /\ DOMAIN nodes = ids /\ (st = "load" => todo # <<>>)
  BY <1>1
<1>10. ReaderOK'
  BY <1>4, <1>5, <1>6, <1>7, <1>8, <1>9 DEF ReaderOK
<1>11. LoadIsStored
  BY <1>2 DEF LoadIsStored
<1> QED
  BY <1>10, <1>11

LEMMA OpenQueryOK ==
  ASSUME NEW e \in Entities, NEW where, NEW fields, NEW with, NEW childFields,
         OpenQuery(e, where, fields, with, childFields),
         with \in Seq(EdgesOf(e) \cup OwnerColumns[e])
  PROVE  ReaderOK' /\ LoadIsStored
<1>1. PICK n, l : n = [i \in DOMAIN with |-> Unset] /\ l = [i \in DOMAIN with |-> <<>>]
  OBVIOUS
<1>2. reader' = [step |-> "query", entity |-> e, where |-> where, fields |-> fields,
                 with |-> with, todo |-> <<>>, childFields |-> childFields,
                 narrowed |-> n, nodes |-> <<>>, stored |-> <<>>, loaded |-> l]
  BY <1>1 DEF OpenQuery
<1>3. <<>> \in Seq(DOMAIN with)
  OBVIOUS
<1>4. /\ reader' \in ReaderFields(reader') /\ reader'.step = "query" /\ reader'.with = with
      /\ reader'.narrowed = n /\ reader'.loaded = l
  BY <1>2, <1>3 DEF ReaderFields
<1>5. ReaderOK'
  BY <1>1, <1>4 DEF ReaderOK
<1>6. LoadIsStored
  BY DEF OpenQuery, Idle, LoadIsStored
<1> QED
  BY <1>5, <1>6

LEMMA RunAgainOK ==
  ASSUME ReaderOK, RunAgain
  PROVE  ReaderOK' /\ LoadIsStored
<1>1. reader.step = "done" /\ reader' = [reader EXCEPT !.step = "query"]
  BY DEF RunAgain
<1>2. reader \in ReaderFields(reader) /\ reader # Idle
  BY <1>1 DEF Idle, ReaderOK
<1>3. reader' \in ReaderFields(reader') /\ reader'.step = "query"
      /\ reader'.with = reader.with /\ reader'.narrowed = reader.narrowed
      /\ reader'.loaded = reader.loaded
  BY <1>1, <1>2 DEF ReaderFields
<1>4. ReaderOK'
  BY <1>2, <1>3 DEF ReaderOK
<1> QED
  BY <1>1, <1>4 DEF LoadIsStored

LEMMA IdleReader ==
  ASSUME ReaderOK, reader' = reader
  PROVE  ReaderOK' /\ LoadIsStored
BY DEF ReaderOK, ReaderFields, LoadIsStored

\* The writer leaves the query alone.
LEMMA WritesKeepReader ==
  ASSUME \/ BeginTx \/ CommitTx \/ RollbackTx
         \/ NamespaceWrites \/ PluginWrites \/ PluginVersionWrites
         \/ RefreshTokenWrites \/ UserWrites
  PROVE  reader' = reader
<1>1. ASSUME NEW m, NEW s, Call(m, s)
      PROVE  reader' = reader
  BY <1>1 DEF Call
<1>2. ASSUME NEW f, \/ \E values : FieldCall(f, values)
                    \/ \E v : SetField(f, v)
                    \/ ClearField(f) \/ ResetOptionalField(f) \/ OwnerCall(f)
                    \/ \E i \in Ids : SetID(i)
      PROVE  reader' = reader
  BY <1>1, <1>2 DEF FieldCall, SetField, ResetField, ClearField, ResetOptionalField,
     OwnerCall, ClearOwner, ResetOwner, SetID
<1>3. ASSUME NEW g, ChildrenCall(g)
      PROVE  reader' = reader
  BY <1>1, <1>3 DEF ChildrenCall, AddChild, RemoveChild, ClearChildren, ResetChildren
<1>4. ASSUME NEW e, NEW predicates, OpenAny(e, predicates) \/ AnotherBuilder(e)
      PROVE  reader' = reader
  BY <1>4 DEF OpenAny, Open, AnotherBuilder
<1>5. ASSUME NEW e, NEW ms, NEW valid, NEW rows, SaveNew(e, ms, valid, rows)
      PROVE  reader' = reader
  BY <1>5 DEF SaveNew, SaveFails, Saved
<1>6. ASSUME NEW e, NEW m, NEW valid, NEW rows, SaveChanged(e, m, valid, rows)
      PROVE  reader' = reader
  BY <1>6 DEF SaveChanged, SaveFails, Saved
<1>7. ASSUME NEW e, SaveDelete(e)
      PROVE  reader' = reader
  BY <1>7 DEF SaveDelete, SaveFails, Saved
<1>8. CASE BeginTx \/ CommitTx \/ RollbackTx
  BY <1>8 DEF BeginTx, CommitTx, RollbackTx
<1>9. CASE NamespaceWrites
  BY <1>2, <1>3, <1>4, <1>5, <1>6, <1>7, <1>9 DEF NamespaceWrites, NamespaceClient,
     NamespaceCall, NamespaceFieldCall, NamespaceEdgeCall, NamespaceCreate, NamespaceCreateBulk,
     NamespaceNew, NamespaceUpdate, NamespaceUpdateOne, NamespaceChange, NamespaceDelete
<1>10. CASE PluginWrites
  BY <1>2, <1>3, <1>4, <1>5, <1>6, <1>7, <1>10 DEF PluginWrites, PluginClient,
     PluginCall, PluginFieldCall, PluginEdgeCall, PluginCreate, PluginCreateBulk,
     PluginNew, PluginUpdate, PluginUpdateOne, PluginChange, PluginDelete
<1>11. CASE PluginVersionWrites
  BY <1>2, <1>3, <1>4, <1>5, <1>6, <1>7, <1>11 DEF PluginVersionWrites, PluginVersionClient,
     PluginVersionCall, PluginVersionFieldCall, PluginVersionEdgeCall, PluginVersionCreate,
     PluginVersionCreateBulk, PluginVersionNew, PluginVersionUpdate, PluginVersionUpdateOne,
     PluginVersionChange, PluginVersionDelete
<1>12. CASE RefreshTokenWrites
  BY <1>2, <1>3, <1>4, <1>5, <1>6, <1>7, <1>12 DEF RefreshTokenWrites, RefreshTokenClient,
     RefreshTokenCall, RefreshTokenFieldCall, RefreshTokenEdgeCall, RefreshTokenCreate,
     RefreshTokenCreateBulk, RefreshTokenNew, RefreshTokenUpdate, RefreshTokenUpdateOne,
     RefreshTokenChange, RefreshTokenDelete
<1>13. CASE UserWrites
  BY <1>2, <1>3, <1>4, <1>5, <1>6, <1>7, <1>13 DEF UserWrites, UserClient,
     UserCall, UserFieldCall, UserEdgeCall, UserCreate, UserCreateBulk,
     UserNew, UserUpdate, UserUpdateOne, UserChange, UserDelete
<1> QED
  BY <1>8, <1>9, <1>10, <1>11, <1>12, <1>13

LEMMA ShortLists ==
  ASSUME NEW V, NEW a \in V, NEW b \in V
  PROVE  <<>> \in Seq(V) /\ <<a>> \in Seq(V) /\ <<b>> \in Seq(V) /\ <<a, b>> \in Seq(V)
OBVIOUS

\* Each entity's queries, and the keys their statements read.
LEMMA NamespaceReadsOK ==
  ASSUME ReaderOK, StoredRowsValid, NamespaceReads
  PROVE  ReaderOK' /\ LoadIsStored
<1>1. "Namespace" \in Entities /\ OwnerColumns["Namespace"] = {"user_id"}
  BY DEF Entities, OwnerColumns
<1>2. CASE NamespaceQuery
  <2>1. PICK with \in {<<"plugins">>, <<"user_id">>, <<"plugins", "user_id">>} :
          \E where, fields, childFields : OpenQuery("Namespace", where, fields, with, childFields)
    BY <1>2 DEF NamespaceQuery
  <2>2. PICK V : V = EdgesOf("Namespace") \cup OwnerColumns["Namespace"]
    OBVIOUS
  <2>3. "plugins" \in V /\ "user_id" \in V
    BY <1>1, <2>2, EdgesFacts
  <2>4. with \in Seq(EdgesOf("Namespace") \cup OwnerColumns["Namespace"])
    BY <2>1, <2>2, <2>3, ShortLists
  <2> QED
    BY <1>1, <2>1, <2>4, OpenQueryOK
<1>3. CASE NamespaceAll
  <2>1. \A i \in DOMAIN reader.with : reader.with[i] = "user_id" =>
          NamespaceColumnsRead = WithColumn(reader.fields, "user_id")
    BY DEF NamespaceColumnsRead
  <2>2. \A i \in DOMAIN reader.with : reader.with[i] \in OwnerColumns["Namespace"] =>
          NamespaceColumnsRead = AllColumns \/ reader.with[i] \in NamespaceColumnsRead
    BY <1>1, <2>1, WithColumnHas
  <2> QED
    BY <1>1, <1>3, <2>2, QueryNodesOK DEF NamespaceAll
<1>4. CASE NamespaceLoadPlugins
  BY <1>4, EdgeFacts, WithColumnHas, LoadChildrenOK DEF NamespaceLoadPlugins
<1>5. CASE NamespaceLoadUser
  BY <1>5, LoadOwnerOK DEF NamespaceLoadUser
<1> QED
  BY <1>2, <1>3, <1>4, <1>5 DEF NamespaceReads

LEMMA PluginReadsOK ==
  ASSUME ReaderOK, StoredRowsValid, PluginReads
  PROVE  ReaderOK' /\ LoadIsStored
<1>1. "Plugin" \in Entities /\ OwnerColumns["Plugin"] = {}
  BY DEF Entities, OwnerColumns
<1>2. CASE PluginQuery
  <2>1. PICK with \in {<<>>, <<"versions">>} :
          \E where, fields, childFields : OpenQuery("Plugin", where, fields, with, childFields)
    BY <1>2 DEF PluginQuery
  <2>2. PICK V : V = EdgesOf("Plugin") \cup OwnerColumns["Plugin"]
    OBVIOUS
  <2>3. "versions" \in V
    BY <1>1, <2>2, EdgesFacts
  <2>4. with \in Seq(EdgesOf("Plugin") \cup OwnerColumns["Plugin"])
    BY <2>1, <2>2, <2>3, ShortLists
  <2> QED
    BY <1>1, <2>1, <2>4, OpenQueryOK
<1>3. CASE PluginAll
  BY <1>1, <1>3, QueryNodesOK DEF PluginAll
<1>4. CASE PluginLoadVersions
  BY <1>4, EdgeFacts, WithColumnHas, LoadChildrenOK DEF PluginLoadVersions, VersionColumnsRead
<1> QED
  BY <1>2, <1>3, <1>4 DEF PluginReads

LEMMA PluginVersionReadsOK ==
  ASSUME ReaderOK, StoredRowsValid, PluginVersionReads
  PROVE  ReaderOK' /\ LoadIsStored
<1>1. "PluginVersion" \in Entities /\ OwnerColumns["PluginVersion"] = {"plugin_id"}
  BY DEF Entities, OwnerColumns
<1>2. CASE PluginVersionQuery
  <2>1. PICK with \in {<<>>, <<"plugin_id">>} :
          \E fields : OpenQuery("PluginVersion", Everything, fields, with, AllColumns)
    BY <1>2 DEF PluginVersionQuery
  <2>2. PICK V : V = EdgesOf("PluginVersion") \cup OwnerColumns["PluginVersion"]
    OBVIOUS
  <2>3. "plugin_id" \in V
    BY <1>1, <2>2, EdgesFacts
  <2>4. with \in Seq(EdgesOf("PluginVersion") \cup OwnerColumns["PluginVersion"])
    BY <2>1, <2>2, <2>3, ShortLists
  <2> QED
    BY <1>1, <2>1, <2>4, OpenQueryOK
<1>3. CASE PluginVersionAll
  <2>1. \A i \in DOMAIN reader.with : PluginVersionColumnsRead = WithColumn(reader.fields, "plugin_id")
    BY DEF PluginVersionColumnsRead
  <2>2. \A i \in DOMAIN reader.with : reader.with[i] \in OwnerColumns["PluginVersion"] =>
          PluginVersionColumnsRead = AllColumns \/ reader.with[i] \in PluginVersionColumnsRead
    BY <1>1, <2>1, WithColumnHas
  <2> QED
    BY <1>1, <1>3, <2>2, QueryNodesOK DEF PluginVersionAll
<1>4. CASE PluginVersionLoadPlugin
  BY <1>4, LoadOwnerOK DEF PluginVersionLoadPlugin
<1> QED
  BY <1>2, <1>3, <1>4 DEF PluginVersionReads

LEMMA RefreshTokenReadsOK ==
  ASSUME ReaderOK, StoredRowsValid, RefreshTokenReads
  PROVE  ReaderOK' /\ LoadIsStored
<1>1. "RefreshToken" \in Entities /\ OwnerColumns["RefreshToken"] = {"user_id"}
  BY DEF Entities, OwnerColumns
<1>2. CASE RefreshTokenQuery
  <2>1. PICK with \in {<<>>, <<"user_id">>} :
          \E fields : OpenQuery("RefreshToken", Everything, fields, with, AllColumns)
    BY <1>2 DEF RefreshTokenQuery
  <2>2. PICK V : V = EdgesOf("RefreshToken") \cup OwnerColumns["RefreshToken"]
    OBVIOUS
  <2>3. "user_id" \in V
    BY <1>1, <2>2, EdgesFacts
  <2>4. with \in Seq(EdgesOf("RefreshToken") \cup OwnerColumns["RefreshToken"])
    BY <2>1, <2>2, <2>3, ShortLists
  <2> QED
    BY <1>1, <2>1, <2>4, OpenQueryOK
<1>3. CASE RefreshTokenAll
  <2>1. \A i \in DOMAIN reader.with : RefreshTokenColumnsRead = WithColumn(reader.fields, "user_id")
    BY DEF RefreshTokenColumnsRead
  <2>2. \A i \in DOMAIN reader.with : reader.with[i] \in OwnerColumns["RefreshToken"] =>
          RefreshTokenColumnsRead = AllColumns \/ reader.with[i] \in RefreshTokenColumnsRead
    BY <1>1, <2>1, WithColumnHas
  <2> QED
    BY <1>1, <1>3, <2>2, QueryNodesOK DEF RefreshTokenAll
<1>4. CASE RefreshTokenLoadUser
  BY <1>4, LoadOwnerOK DEF RefreshTokenLoadUser
<1> QED
  BY <1>2, <1>3, <1>4 DEF RefreshTokenReads

LEMMA UserReadsOK ==
  ASSUME ReaderOK, StoredRowsValid, UserReads
  PROVE  ReaderOK' /\ LoadIsStored
<1>1. "User" \in Entities /\ OwnerColumns["User"] = {}
  BY DEF Entities, OwnerColumns
<1>2. CASE UserQuery
  <2>1. PICK with \in {<<"refresh_tokens">>, <<"namespaces">>, <<"refresh_tokens", "namespaces">>} :
          \E where, fields, childFields : OpenQuery("User", where, fields, with, childFields)
    BY <1>2 DEF UserQuery
  <2>2. PICK V : V = EdgesOf("User") \cup OwnerColumns["User"]
    OBVIOUS
  <2>3. "refresh_tokens" \in V /\ "namespaces" \in V
    BY <1>1, <2>2, EdgesFacts
  <2>4. with \in Seq(EdgesOf("User") \cup OwnerColumns["User"])
    BY <2>1, <2>2, <2>3, ShortLists
  <2> QED
    BY <1>1, <2>1, <2>4, OpenQueryOK
<1>3. CASE UserAll
  BY <1>1, <1>3, QueryNodesOK DEF UserAll
<1>4. CASE UserLoadRefreshTokens
  BY <1>4, EdgeFacts, WithColumnHas, LoadChildrenOK DEF UserLoadRefreshTokens
<1>5. CASE UserLoadNamespaces
  BY <1>5, EdgeFacts, WithColumnHas, LoadChildrenOK DEF UserLoadNamespaces
<1> QED
  BY <1>2, <1>3, <1>4, <1>5 DEF UserReads

LEMMA ReaderNext ==
  ASSUME ReaderOK, StoredRowsValid, [Next]_vars
  PROVE  ReaderOK' /\ (Next => LoadIsStored)
<1>1. CASE UNCHANGED vars
  BY <1>1, IdleReader DEF vars
<1>2. CASE \/ BeginTx \/ CommitTx \/ RollbackTx
           \/ NamespaceWrites \/ PluginWrites \/ PluginVersionWrites
           \/ RefreshTokenWrites \/ UserWrites
  BY <1>2, WritesKeepReader, IdleReader
<1>3. CASE \/ NamespaceReads \/ PluginReads \/ PluginVersionReads
           \/ RefreshTokenReads \/ UserReads \/ RunAgain
  BY <1>3, NamespaceReadsOK, PluginReadsOK, PluginVersionReadsOK, RefreshTokenReadsOK,
     UserReadsOK, RunAgainOK
<1> QED
  BY <1>1, <1>2, <1>3 DEF Next

\* However the writer gets in between the statements of an eager-loading query,
\* every node gets the children and the owner it has when they are read
\* (internal/ent/namespace_query.go:381).
THEOREM LoadsAsStored == Spec => LoadedIsStored
<1>1. Init => ReaderOK
  BY DEF Init, ReaderOK
<1>2. ReaderOK /\ StoredRowsValid /\ [Next]_vars => ReaderOK' /\ [LoadIsStored]_vars
  BY ReaderNext
<1> QED
  BY <1>1, <1>2, RowsSafety, PTL DEF Spec, LoadedIsStored
=============================================================================
