-------------------------- MODULE EntPluginVersion --------------------------
(* The PluginVersion entity of the ORM client: internal/ent/pluginversion*.go *)
(* and its parts of mutation.go and client.go.                               *)
EXTENDS Ent

\* PluginVersionMutation: SetPluginID, SetVersion, SetOciDigest, SetReadmeHTML
\* and their Resets.
PluginVersionFieldCall ==
  \/ FieldCall("plugin_id", Ids)
  \/ \E f \in {"version", "oci_digest", "readme_html"} : FieldCall(f, Words)
  \/ \E i \in Ids : SetID(i)

\* ClearPlugin, ResetPlugin.
PluginVersionEdgeCall == OwnerCall("plugin_id")

\* The methods that take the name of a field or an edge end in these.
PluginVersionCall ==
  Calling("PluginVersion") /\ (PluginVersionFieldCall \/ PluginVersionEdgeCall)

PluginVersionDefaults(m) == [m EXCEPT !.set["readme_html"] = Or(@, Blank)]

PluginVersionUpdateDefaults(m) == m

PluginVersionRequired(m) ==
  /\ Given(m, {"plugin_id", "version", "oci_digest", "readme_html"})
  /\ NotEmpty(m, {"version", "oci_digest"})

PluginVersionRow(m) ==
  [plugin_id |-> m.set["plugin_id"], version |-> m.set["version"],
   oci_digest |-> m.set["oci_digest"], readme_html |-> m.set["readme_html"]]

PluginVersionNew ==
  LET ms == [i \in DOMAIN builder.mutations |-> PluginVersionDefaults(builder.mutations[i])]
  IN SaveNew("PluginVersion", ms, \A i \in DOMAIN ms : PluginVersionRequired(ms[i]),
             [i \in DOMAIN ms |-> PluginVersionRow(ms[i])])

PluginVersionCreate == Saving({"Create"}, "PluginVersion") /\ PluginVersionNew

PluginVersionCreateBulk == Saving({"CreateBulk"}, "PluginVersion") /\ PluginVersionNew

\* A version cannot be told to leave its plugin and to have one.
PluginVersionCheck(m) ==
  NotEmpty(m, {"version", "oci_digest"}) /\ ~ClearsAndSets(m, "plugin_id")

PluginVersionAfter(m, row) ==
  [plugin_id |-> OwnerAfter(m, "plugin_id", m.uncoupled, row.plugin_id),
   version |-> Or(m.set["version"], row.version),
   oci_digest |-> Or(m.set["oci_digest"], row.oci_digest),
   readme_html |-> Or(m.set["readme_html"], row.readme_html)]

PluginVersionChange ==
  LET m == PluginVersionUpdateDefaults(M) IN
  SaveChanged("PluginVersion", m, PluginVersionCheck(m),
    [id \in DOMAIN Target["PluginVersion"] |-> PluginVersionAfter(m, Target["PluginVersion"][id])])

PluginVersionUpdate == Saving({"Update"}, "PluginVersion") /\ PluginVersionChange

PluginVersionUpdateOne == Saving({"UpdateOne"}, "PluginVersion") /\ PluginVersionChange

PluginVersionDelete == SaveDelete("PluginVersion")

-----------------------------------------------------------------------------
PluginVersionPredicates ==
  {Everything} \cup Compared({"plugin_id"}, IdSets)
    \cup Compared({"version", "oci_digest", "readme_html"}, WordSets)

PluginVersionEdgePredicates == HasOwner("plugin_id")

PluginVersionClient ==
  OpenAny("PluginVersion", PluginVersionPredicates \cup PluginVersionEdgePredicates)

\* WithPlugin and Select.
PluginVersionQuery ==
  \E fields \in {AllColumns, {"version"}}, with \in {<<>>, <<"plugin_id">>} :
    OpenQuery("PluginVersion", Everything, fields, with, AllColumns)

\* querySpec: the foreign key is read too when WithPlugin needs it.
PluginVersionColumnsRead ==
  IF reader.with # <<>> THEN WithColumn(reader.fields, "plugin_id") ELSE reader.fields

PluginVersionAll == QueryNodes("PluginVersion", PluginVersionColumnsRead)

PluginVersionLoadPlugin == LoadOwner("PluginVersion", "plugin_id", "Plugin")

PluginVersionWrites ==
  \/ PluginVersionClient \/ PluginVersionCall \/ AnotherBuilder("PluginVersion")
  \/ PluginVersionCreate \/ PluginVersionCreateBulk
  \/ PluginVersionUpdate \/ PluginVersionUpdateOne \/ PluginVersionDelete

PluginVersionReads ==
  PluginVersionQuery \/ PluginVersionAll \/ PluginVersionLoadPlugin
=============================================================================
