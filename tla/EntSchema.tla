----------------------------- MODULE EntSchema -----------------------------
(***************************************************************************)
(* The tables behind the generated ORM client (internal/ent): columns,     *)
(* constraints and edges as internal/ent/migrate/schema.go creates them,   *)
(* and what PostgreSQL does with a statement on them.                      *)
(*                                                                         *)
(* Columns with the same rules are represented by one of them: description *)
(* stands for display_name and logo_url too, readme_html for oci_image_ref *)
(* and manifest_json.                                                      *)
(***************************************************************************)
EXTENDS Integers, FiniteSets

CONSTANTS
  Words,   \* texts, Blank among them
  Blank,   \* ""
  Times,   \* timestamps, Now among them
  Now,     \* what time.Now returns
  Null     \* SQL NULL

ASSUME TextAssumption == Blank \in Words /\ Now \in Times
ASSUME NullAssumption == Null \notin Words \cup Times \cup Nat

Entities == {"Namespace", "Plugin", "PluginVersion", "RefreshToken", "User"}

Columns ==
  [Namespace    |-> {"name", "type", "user_id"},
   Plugin       |-> {"namespace_id", "name", "description", "namespace_plugins"},
   PluginVersion |-> {"plugin_id", "version", "oci_digest", "readme_html"},
   RefreshToken |-> {"user_id", "token_hash", "expires_at", "created_at"},
   User         |-> {"email", "password_hash", "created_at", "updated_at"}]

\* Optional columns of the tables: foreign keys both.
Nullable == {<<"Namespace", "user_id">>, <<"Plugin", "namespace_plugins">>}

UniqueKeys ==
  [Namespace    |-> {"name"},
   Plugin       |-> {"namespace_id", "name"},
   PluginVersion |-> {"plugin_id", "version"},
   RefreshToken |-> {"token_hash"},
   User         |-> {"email"}]

\* An edge with many children: their table, and their column that names the
\* parent.  A plugin's namespace_id is not the column behind the plugins edge
\* of its namespace and has no foreign key.
Edge ==
  [plugins        |-> [parent |-> "Namespace", child |-> "Plugin",
                       column |-> "namespace_plugins", onDelete |-> "SET NULL"],
   versions       |-> [parent |-> "Plugin", child |-> "PluginVersion",
                       column |-> "plugin_id", onDelete |-> "NO ACTION"],
   refresh_tokens |-> [parent |-> "User", child |-> "RefreshToken",
                       column |-> "user_id", onDelete |-> "NO ACTION"],
   namespaces     |-> [parent |-> "User", child |-> "Namespace",
                       column |-> "user_id", onDelete |-> "SET NULL"]]

EdgeNames == DOMAIN Edge
EdgesOf(e) == {g \in EdgeNames : Edge[g].parent = e}

\* validate.NotEmpty and Immutable() of the fields.  The database knows
\* neither: a row that breaks them could be stored.
NotEmptyColumns ==
  [Namespace |-> {"name", "type"}, Plugin |-> {"name"},
   PluginVersion |-> {"version", "oci_digest"},
   RefreshToken |-> {"token_hash"}, User |-> {"email", "password_hash"}]

ImmutableColumns ==
  [Namespace |-> {}, Plugin |-> {"namespace_id"}, PluginVersion |-> {},
   RefreshToken |-> {"created_at"}, User |-> {"created_at"}]

-----------------------------------------------------------------------------
\* Tables: entity -> id -> column -> value.

\* Rows as the builders write them: the columns of their table, none of them
\* empty that must not be.
RowValid(e, row) ==
  DOMAIN row = Columns[e] /\ \A c \in NotEmptyColumns[e] : row[c] # Blank

RowsValid(t) ==
  /\ DOMAIN t = Entities
  /\ \A e \in Entities : \A id \in DOMAIN t[e] : id \in Nat /\ RowValid(e, t[e][id])

NotNull(t) ==
  \A e \in Entities : \A id \in DOMAIN t[e], c \in Columns[e] :
    t[e][id][c] = Null => <<e, c>> \in Nullable

Unique(t) ==
  \A e \in Entities : \A i, j \in DOMAIN t[e] :
    (\A c \in UniqueKeys[e] : t[e][i][c] = t[e][j][c]) => i = j

References(t) ==
  \A g \in EdgeNames : LET E == Edge[g] IN
    \A id \in DOMAIN t[E.child] :
      t[E.child][id][E.column] \in DOMAIN t[E.parent] \cup {Null}

\* What a statement must leave behind, or it fails.
Consistent(t) == NotNull(t) /\ Unique(t) /\ References(t)

Children(t, g, id) ==
  {k \in DOMAIN t[Edge[g].child] : t[Edge[g].child][k][Edge[g].column] = id}

\* UPDATE of one column in the rows ids of table e.
PutColumn(t, e, ids, column, value) ==
  [t EXCEPT ![e] = [id \in DOMAIN t[e] |->
     IF id \in ids THEN [t[e][id] EXCEPT ![column] = value] ELSE t[e][id]]]

\* DELETE of the rows ids of table e; foreign keys that say so are set to NULL.
DeleteRows(t, e, ids) ==
  [f \in Entities |->
     [id \in (IF f = e THEN DOMAIN t[f] \ ids ELSE DOMAIN t[f]) |->
        [c \in Columns[f] |->
           IF /\ \E g \in EdgesOf(e) : /\ Edge[g].child = f /\ Edge[g].column = c
                                       /\ Edge[g].onDelete = "SET NULL"
              /\ t[f][id][c] \in ids
           THEN Null ELSE t[f][id][c]]]]
=============================================================================
