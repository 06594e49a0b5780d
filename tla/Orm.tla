-------------------------------- MODULE Orm --------------------------------
(***************************************************************************)
(* The ORM client as a whole: one goroutine builds and saves, in and       *)
(* outside of transactions, one runs eager-loading queries.                *)
(***************************************************************************)
EXTENDS EntNamespace, EntPlugin, EntPluginVersion, EntRefreshToken, EntUser

Next ==
  \/ BeginTx \/ CommitTx \/ RollbackTx
  \/ NamespaceWrites \/ PluginWrites \/ PluginVersionWrites
  \/ RefreshTokenWrites \/ UserWrites
  \/ NamespaceReads \/ PluginReads \/ PluginVersionReads
  \/ RefreshTokenReads \/ UserReads
  \/ RunAgain

Spec == Init /\ [][Next]_vars

-----------------------------------------------------------------------------
\* The tables a save has worked on.
After == IF builder.inTx THEN tx'.work ELSE tables'

\* A column of a row after the save: the last word on it; what was stored, or
\* nothing if the edge was emptied.  An immutable column of a row that was
\* there stays, and so does updated_at only until an update.
ColumnAsSaid(e, c, said, new, old, now) ==
  IF new THEN said.column[c] # Unset => now[c] = said.column[c]
  ELSE IF c \in ImmutableColumns[e] THEN now[c] = old[c]
  ELSE IF said.column[c] # Unset THEN now[c] = said.column[c]
  ELSE IF c \in said.emptied THEN now[c] = Null
  ELSE c # "updated_at" => now[c] = old[c]

\* The children of the rows ids after the save.
ChildrenAsSaid(g, ids, said, before, after) ==
  \A i \in Ids :
    LET was == \E p \in ids : i \in Children(before, g, p)
        is == \E p \in ids : i \in Children(after, g, p)
    IN CASE said.child[g][i] = "in" -> ids # {} => is
         [] said.child[g][i] = "out" -> ~is
         [] OTHER -> is = (was /\ g \notin said.emptied)

AsSaid(e, ids, said, before, after) ==
  /\ \A id \in ids, c \in Columns[e] :
       LET new == id \notin DOMAIN before[e] IN
       ColumnAsSaid(e, c, said, new, IF new THEN <<>> ELSE before[e][id], after[e][id])
  /\ \A g \in EdgesOf(e) : ChildrenAsSaid(g, ids, said, before, after)

\* A save that succeeds writes what was said.
SaveAsSaid ==
  /\ budget'.saves < budget.saves /\ answer' = "ok"
  /\ builder.kind \in {"Create", "CreateBulk", "Update", "UpdateOne"}
  /\ \A i \in DOMAIN builder.said : ~builder.said[i].vague
  => LET e == builder.entity IN
     CASE builder.kind = "Update" ->
            AsSaid(e, Matching(builder.where, Target, e), S, Target, After)
       [] builder.kind = "UpdateOne" -> AsSaid(e, {builder.id}, S, Target, After)
       [] OTHER -> \A i \in DOMAIN builder.said :
            LET id == builder'.mutations[i].id IN
            /\ builder.said[i].id \in {id, Unset}
            /\ AsSaid(e, {id}, builder.said[i], Target, After)

\* mutation.go keeps a builder's calls in several places (pointers, cleared
\* fields, added, removed and cleared edges) that a save reads one by one: a
\* save that succeeds writes the last word on every column and every child,
\* whatever the order of the calls and however often it was tried before.  A
\* clear of an edge empties what is stored and not what this builder adds.
SavedAsSaid == [][SaveAsSaid]_vars

\* The NotEmpty validators live in the builders only, the database would take
\* the rows: no create, bulk create or update of any mix of calls stores an
\* empty name, version, digest, hash or address, or a broken reference.
StoredRowsValid ==
  Consistent(tables) /\ RowsValid(tables)

\* A save keeps the immutable columns of the rows that stay.
SaveKeeps ==
  budget'.saves < budget.saves =>
    \A e \in Entities : \A id \in DOMAIN Target[e] \cap DOMAIN After[e] :
      \A c \in ImmutableColumns[e] : After[e][id][c] = Target[e][id][c]

\* schema/plugin.go:16, schema/user.go:25, schema/refreshtoken.go:22
\* Immutable(): the setters are missing from the update builders but not from
\* the mutations under them; all the same no save, of any entity, in or outside
\* of a transaction, whole or refused half-way, changes such a column of a row
\* that stays.  (A row can be deleted and made anew under its id; that takes
\* two saves.)
ImmutableStays == [][SaveKeeps]_vars

\* tx.go: every save commits a transaction of its own, which inside an open
\* one must do nothing: the tables change with the commit of that one only,
\* and never by a rollback, or by a save that failed.
OnlyCommitsShow ==
  [][tables' # tables =>
       \/ tx.state = "open" /\ tx'.state = "ended" /\ tables' = tx.work /\ ~tx.failed
       \/ ~InTx /\ answer' = "ok" /\ budget'.saves < budget.saves]_vars

\* The children, or the owner, that the statement of an edge finds.
LoadIsStored ==
  reader.step = "load" /\ reader' # reader =>
    LET i == Head(reader.todo)
        edge == reader.with[i]
        true(id) ==
          IF edge \in EdgeNames THEN Children(tables, edge, id)
          ELSE {reader.stored[id][edge]} \cap
               DOMAIN tables[IF edge = "plugin_id" THEN "Plugin" ELSE "User"]
    IN /\ reader'.step # "failed"
       /\ \A id \in DOMAIN reader.nodes :
            IF reader.narrowed[i] = Unset THEN reader'.loaded[i][id] = true(id)
            ELSE reader'.loaded[i][id] \subseteq true(id)

\* loadPlugins, loadUser, ...: however the writer gets in between the
\* statements of an eager-loading query, and whatever columns are selected,
\* the query does not fail, and a node gets exactly the children and the owner
\* it has when they are read.  A query object that is run again may miss some,
\* its earlier predicates are still there.
LoadedIsStored == [][LoadIsStored]_vars
=============================================================================
