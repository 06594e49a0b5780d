------------------------------ MODULE Catalog ------------------------------
(***************************************************************************)
(* What publishing promises to the readers of the catalogue: a publication *)
(* is one indivisible change.  The version row appears, or is replaced,    *)
(* whole; the plugin row is there with it; and the description of the      *)
(* plugin is that of this publication or stays what it was.                *)
(***************************************************************************)
CONSTANTS
  Namespaces, Names, Versions,
  Content,   \* digest -> what the image with this digest holds
  Broken,    \* an image that cannot be published
  Absent,    \* no namespace row
  Unowned,   \* a namespace row without owner
  NoRow,     \* no plugin or version row
  Blank      \* no README

VARIABLES namespaces, plugins, versions

catalog == <<namespaces, plugins, versions>>

Init ==
  /\ plugins = [k \in Namespaces \X Names |-> NoRow]
  /\ versions = [k \in Namespaces \X Names \X Versions |-> NoRow]

Images == {digest \in DOMAIN Content : Content[digest] # Broken}

Publish(ns, name, version, digest, readme) ==
  LET k   == <<ns, name>>
      new == Content[digest].description
  IN
  /\ Content[digest].name = name
  /\ Content[digest].version = version
  /\ namespaces' = [namespaces EXCEPT ![ns] = IF @ = Absent THEN Unowned ELSE @]
  /\ \/ plugins' = [plugins EXCEPT ![k] = new]
     \/ plugins[k] # NoRow /\ plugins' = plugins
  /\ versions' = [versions EXCEPT ![<<ns, name, version>>] =
                    [digest |-> digest, readme |-> readme, description |-> new]]

Next ==
  \E ns \in Namespaces, name \in Names, version \in Versions, digest \in Images :
    \E readme \in {Content[digest].readme, Blank} :
      Publish(ns, name, version, digest, readme)

Spec == Init /\ [][Next]_catalog
=============================================================================
