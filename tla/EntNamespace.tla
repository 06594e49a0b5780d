---------------------------- MODULE EntNamespace ----------------------------
(* The Namespace entity of the ORM client: internal/ent/namespace*.go and    *)
(* its parts of mutation.go and client.go.                                   *)
EXTENDS Ent

\* NamespaceMutation: SetName, ResetName, SetType, ResetType, SetUserID,
\* ClearUserID, ResetUserID.
NamespaceFieldCall ==
  \/ \E f \in {"name", "type"} : FieldCall(f, Words)
  \/ \E u \in Ids : SetField("user_id", u)
  \/ ClearField("user_id") \/ ResetOptionalField("user_id")
  \/ \E i \in Ids : SetID(i)

\* AddPluginIDs, RemovePluginIDs, ClearPlugins, ResetPlugins, ClearUser,
\* ResetUser.
NamespaceEdgeCall == ChildrenCall("plugins") \/ OwnerCall("user_id")

\* The methods that take the name of a field or an edge end in these.
NamespaceCall == Calling("Namespace") /\ (NamespaceFieldCall \/ NamespaceEdgeCall)

NamespaceDefaults(m) == m

NamespaceRequired(m) ==
  Given(m, {"name", "type"}) /\ NotEmpty(m, {"name", "type"})

NamespaceRow(m) ==
  [name |-> m.set["name"], type |-> m.set["type"],
   user_id |-> Or(m.set["user_id"], Null)]

NamespaceNew ==
  LET ms == [i \in DOMAIN builder.mutations |-> NamespaceDefaults(builder.mutations[i])]
  IN SaveNew("Namespace", ms, \A i \in DOMAIN ms : NamespaceRequired(ms[i]),
             [i \in DOMAIN ms |-> NamespaceRow(ms[i])])

NamespaceCreate == Saving({"Create"}, "Namespace") /\ NamespaceNew

NamespaceCreateBulk == Saving({"CreateBulk"}, "Namespace") /\ NamespaceNew

\* Bug for the checks: the update has no check.
NamespaceUnchecked(m) == TRUE

NamespaceCheck(m) == NotEmpty(m, {"name", "type"})

\* UserCleared
NamespaceUserCleared(m) == m.uncoupled \/ "user_id" \in m.cleared

NamespaceAfter(m, row) ==
  [name |-> Or(m.set["name"], row.name), type |-> Or(m.set["type"], row.type),
   user_id |-> OwnerAfter(m, "user_id", NamespaceUserCleared(m), row.user_id)]

NamespaceChange ==
  LET m == NamespaceDefaults(M) IN
  SaveChanged("Namespace", m, NamespaceCheck(m),
    [id \in DOMAIN Target["Namespace"] |-> NamespaceAfter(m, Target["Namespace"][id])])

NamespaceUpdate == Saving({"Update"}, "Namespace") /\ NamespaceChange

NamespaceUpdateOne == Saving({"UpdateOne"}, "Namespace") /\ NamespaceChange

NamespaceDelete == SaveDelete("Namespace")

-----------------------------------------------------------------------------
NamespacePredicates ==
  {Everything} \cup Compared({"name", "type"}, WordSets) \cup Compared({"user_id"}, IdSets)

NamespaceEdgePredicates ==
  Has({"plugins"}, Compared({"name"}, WordSets) \cup {Everything})
    \cup HasOwner("user_id")

NamespaceClient ==
  OpenAny("Namespace", NamespacePredicates \cup NamespaceEdgePredicates)

\* WithPlugins, WithUser and Select.
NamespaceQuery ==
  \E where \in NamespaceEdgePredicates \cup {Everything},
    selected \in {<<AllColumns, AllColumns>>, <<{"name"}, {"name"}>>},
    with \in {<<"plugins">>, <<"user_id">>, <<"plugins", "user_id">>} :
      OpenQuery("Namespace", where, selected[1], with, selected[2])

\* querySpec: the foreign key is read too when WithUser needs it.
NamespaceColumnsRead ==
  IF \E i \in DOMAIN reader.with : reader.with[i] = "user_id"
  THEN WithColumn(reader.fields, "user_id") ELSE reader.fields

NamespaceAll == QueryNodes("Namespace", NamespaceColumnsRead)

\* The plugins are queried with withFKs.
NamespaceLoadPlugins ==
  LoadChildren("plugins", WithColumn(reader.childFields, "namespace_plugins"))

NamespaceLoadUser == LoadOwner("Namespace", "user_id", "User")

NamespaceWrites ==
  \/ NamespaceClient \/ NamespaceCall \/ AnotherBuilder("Namespace")
  \/ NamespaceCreate \/ NamespaceCreateBulk
  \/ NamespaceUpdate \/ NamespaceUpdateOne \/ NamespaceDelete

NamespaceReads ==
  \/ NamespaceQuery \/ NamespaceAll
  \/ NamespaceLoadPlugins \/ NamespaceLoadUser
=============================================================================
