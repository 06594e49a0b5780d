----------------------------- MODULE EntPlugin -----------------------------
(* The Plugin entity of the ORM client: internal/ent/plugin*.go and its      *)
(* parts of mutation.go and client.go.                                       *)
EXTENDS Ent

\* PluginMutation: SetNamespaceID, SetName, SetDescription and their Resets.
PluginFieldCall ==
  \/ FieldCall("namespace_id", Ids)
  \/ \E f \in {"name", "description"} : FieldCall(f, Words)
  \/ \E i \in Ids : SetID(i)

\* AddVersionIDs, RemoveVersionIDs, ClearVersions, ResetVersions.
PluginEdgeCall == ChildrenCall("versions")

\* The methods that take the name of a field or an edge end in these.
PluginCall == Calling("Plugin") /\ (PluginFieldCall \/ PluginEdgeCall)

PluginDefaults(m) == [m EXCEPT !.set["description"] = Or(@, Blank)]

PluginUpdateDefaults(m) == m

PluginRequired(m) ==
  Given(m, {"namespace_id", "name", "description"}) /\ NotEmpty(m, {"name"})

\* createSpec knows no namespace_plugins: only AddPluginIDs of a namespace
\* writes that column.
PluginRow(m) ==
  [namespace_id |-> m.set["namespace_id"], name |-> m.set["name"],
   description |-> m.set["description"], namespace_plugins |-> Null]

PluginNew ==
  LET ms == [i \in DOMAIN builder.mutations |-> PluginDefaults(builder.mutations[i])]
  IN SaveNew("Plugin", ms, \A i \in DOMAIN ms : PluginRequired(ms[i]),
             [i \in DOMAIN ms |-> PluginRow(ms[i])])

PluginCreate == Saving({"Create"}, "Plugin") /\ PluginNew

PluginCreateBulk == Saving({"CreateBulk"}, "Plugin") /\ PluginNew

PluginCheck(m) == NotEmpty(m, {"name"})

\* Bug for the checks: sqlSave writes every field of the mutation.
PluginAfterAll(m, row) ==
  [row EXCEPT !.namespace_id = Or(m.set["namespace_id"], @),
              !.name = Or(m.set["name"], @),
              !.description = Or(m.set["description"], @)]

\* sqlSave leaves namespace_id alone, whatever the mutation says of it.
PluginAfter(m, row) ==
  [row EXCEPT !.name = Or(m.set["name"], @),
              !.description = Or(m.set["description"], @)]

PluginChange ==
  LET m == PluginUpdateDefaults(M) IN
  SaveChanged("Plugin", m, PluginCheck(m),
    [id \in DOMAIN Target["Plugin"] |-> PluginAfter(m, Target["Plugin"][id])])

PluginUpdate == Saving({"Update"}, "Plugin") /\ PluginChange

PluginUpdateOne == Saving({"UpdateOne"}, "Plugin") /\ PluginChange

PluginDelete == SaveDelete("Plugin")

-----------------------------------------------------------------------------
PluginPredicates ==
  {Everything} \cup Compared({"namespace_id"}, IdSets)
    \cup Compared({"name", "description"}, WordSets)

PluginEdgePredicates ==
  Has({"versions"}, Compared({"version"}, WordSets) \cup {Everything})

PluginClient == OpenAny("Plugin", PluginPredicates \cup PluginEdgePredicates)

\* WithVersions and Select.
PluginQuery ==
  \E where \in PluginEdgePredicates \cup {Everything},
    selected \in {<<AllColumns, AllColumns>>, <<{"name"}, {"version"}>>},
    with \in {<<>>, <<"versions">>} :
      OpenQuery("Plugin", where, selected[1], with, selected[2])

PluginAll == QueryNodes("Plugin", reader.fields)

\* Bug for the checks: the foreign key is not added to the selected columns.
VersionColumnsSelected == reader.childFields

VersionColumnsRead == WithColumn(reader.childFields, "plugin_id")

PluginLoadVersions == LoadChildren("versions", VersionColumnsRead)

PluginWrites ==
  \/ PluginClient \/ PluginCall \/ AnotherBuilder("Plugin")
  \/ PluginCreate \/ PluginCreateBulk
  \/ PluginUpdate \/ PluginUpdateOne \/ PluginDelete

PluginReads == PluginQuery \/ PluginAll \/ PluginLoadVersions
=============================================================================
