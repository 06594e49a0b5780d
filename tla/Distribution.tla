---------------------------- MODULE Distribution ----------------------------
(***************************************************************************)
(* One plugin version on its way from working directories through the OCI  *)
(* registry and the catalogue to an installation: the commands publish,    *)
(* register and install of cmd/cli, over pkg/oci.                          *)
(*                                                                         *)
(* A run is one execution of a command.  PushArtifact stamps every image   *)
(* with the time, so every build has a digest of its own: an image is      *)
(* named after the run that built it.  The server's part of a publication  *)
(* is one step (module Catalog); it goes on when the client is gone.       *)
(***************************************************************************)
CONSTANTS
  Runs,           \* executions of a command
  Files,          \* what an image holds
  PluginYaml,     \* the file that every image has
  NoImage,        \* no image
  NoRow           \* no plugin_versions row

ASSUME FileAssumption == PluginYaml \in Files
ASSUME SentinelAssumption == NoImage \notin Runs /\ NoRow \notin Runs \cup {NoImage}

VARIABLES
  images,   \* manifests in the OCI registry
  tag,      \* the image namespace/name:version names
  sig,      \* the image that the signature under the tag .sig is of
  row,      \* oci_digest of the version in the catalogue
  pc,       \* the step of a run
  kind,     \* its command
  signs,    \* unless --no-sign
  digest,   \* existingDigest; pv.OciDigest of an installation
  pulled,   \* the image an installation has fetched
  todo,     \* the files it has extracted and not written
  server,   \* what became of its POST at the server
  dest,     \* the installation directory: the image each file is from
  alone,    \* history: the latest run to start, if no other was under way,
            \* and whether the server had nothing left to do for others
  calm      \* history: no two publishers have overlapped, and HEAD has not
            \* failed

registry == <<images, tag, sig, row>>
options == <<kind, signs>>
history == <<alone, calm>>
vars == <<images, tag, sig, row, pc, kind, signs, digest, pulled, todo, server,
          dest, alone, calm>>

Kinds == {"none", "publish", "register", "install"}
Steps == {"idle", "head", "build", "push", "sign", "pushSignature", "headForRegister",
          "post", "await", "lookup", "pull", "write", "ok", "failed"}

NobodyAlone == [run |-> NoImage, clean |-> FALSE]

Init ==
  /\ images = {} /\ tag = NoImage /\ sig = NoImage /\ row = NoRow
  /\ pc = [r \in Runs |-> "idle"]
  /\ kind = [r \in Runs |-> "none"]
  /\ signs = [r \in Runs |-> FALSE]
  /\ digest = [r \in Runs |-> NoImage]
  /\ pulled = [r \in Runs |-> NoImage]
  /\ todo = [r \in Runs |-> {}]
  /\ server = [r \in Runs |-> "none"]
  /\ dest = [f \in Files |-> NoImage]
  /\ alone = NobodyAlone /\ calm = TRUE

-----------------------------------------------------------------------------
Active(r) == pc[r] \notin {"idle", "ok", "failed"}
Publishing == {r \in Runs : kind[r] \in {"publish", "register"} /\ Active(r)}

\* The run goes from one step to the next.
Goto(r, from, to) ==
  /\ pc[r] = from
  /\ pc' = [pc EXCEPT ![r] = to]

\* A remote call has its effect, or its caller sees it succeed, or both.
Outcomes == {"ok", "failed", "lost"}
TakesEffect(o) == o \in {"ok", "lost"}
Succeeds(o) == o = "ok"

Start(r, command, first, signing) ==
  /\ Goto(r, "idle", first)
  /\ kind' = [kind EXCEPT ![r] = command]
  /\ signs' = [signs EXCEPT ![r] = signing]
  /\ UNCHANGED <<registry, digest, pulled, todo, server, dest>>

StartPublisher(r, command, first, signing) ==
  /\ Start(r, command, first, signing)
  /\ alone' = IF Publishing = {}
              THEN [run |-> r, clean |-> \A q \in Runs : server[q] # "working"]
              ELSE NobodyAlone
  /\ calm' = (calm /\ Publishing = {})

-----------------------------------------------------------------------------
\* publish

StartPublish(r) ==
  \E signing \in BOOLEAN : StartPublisher(r, "publish", "head", signing)

\* Bug for the checks: the tag is not looked up.
TagFoundNever == FALSE

TagFound == tag # NoImage

\* Bug for the checks: an image that is there counts as published.
AfterImageDone(r) == "ok"

AfterImage(r) == IF signs[r] THEN "sign" ELSE "post"

\* HeadManifest; any error means that there is no image yet.
Head(r) ==
  /\ \/ /\ TagFound
        /\ Goto(r, "head", AfterImage(r))
        /\ digest' = [digest EXCEPT ![r] = tag]
        /\ UNCHANGED calm
     \/ /\ ~TagFound
        /\ Goto(r, "head", "build")
        /\ UNCHANGED <<digest, calm>>
     \/ /\ Goto(r, "head", "build")
        /\ calm' = FALSE
        /\ UNCHANGED digest
  /\ UNCHANGED <<registry, options, pulled, todo, server, dest, alone>>

Build(r) ==
  /\ Goto(r, "build", "push")
  /\ UNCHANGED <<registry, options, digest, pulled, todo, server, dest, history>>

\* remote.Write: the layers, then the manifest under the tag.
Push(r) ==
  /\ pc[r] = "push"
  /\ \E o \in Outcomes :
       /\ IF TakesEffect(o) THEN images' = images \cup {r} /\ tag' = r
                            ELSE UNCHANGED <<images, tag>>
       /\ IF Succeeds(o) THEN /\ Goto(r, "push", IF signs[r] THEN "sign" ELSE "post")
                              /\ digest' = [digest EXCEPT ![r] = r]
                         ELSE /\ Goto(r, "push", "failed")
                              /\ UNCHANGED digest
  /\ UNCHANGED <<sig, row, options, pulled, todo, server, dest, history>>

\* The key, the signature, and the look at the source image.
Sign(r) ==
  /\ Goto(r, "sign", IF tag # NoImage THEN "pushSignature" ELSE "failed")
  /\ UNCHANGED <<registry, options, digest, pulled, todo, server, dest, history>>

\* The tag of the signature is that of the image with .sig: one signature per
\* version, whatever digest it is of.
PushSignature(r) ==
  /\ pc[r] = "pushSignature"
  /\ \E o \in Outcomes :
       /\ sig' = IF TakesEffect(o) THEN digest[r] ELSE sig
       /\ Goto(r, "pushSignature", IF Succeeds(o) THEN "post" ELSE "failed")
  /\ UNCHANGED <<images, tag, row, options, digest, pulled, todo, server, dest, history>>

-----------------------------------------------------------------------------
\* register, and the end that it shares with publish

StartRegister(r) == StartPublisher(r, "register", "headForRegister", FALSE)

HeadForRegister(r) ==
  /\ IF TagFound THEN /\ Goto(r, "headForRegister", "post")
                      /\ digest' = [digest EXCEPT ![r] = tag]
                 ELSE /\ Goto(r, "headForRegister", "failed")
                      /\ UNCHANGED digest
  /\ UNCHANGED <<registry, options, pulled, todo, server, dest, history>>

\* registerPublishMetadata
Post(r) ==
  /\ Goto(r, "post", "await")
  /\ server' = [server EXCEPT ![r] = "working"]
  /\ UNCHANGED <<registry, options, digest, pulled, todo, dest, history>>

\* Bug for the checks: the server stores another local variable.
PublishedImagePulled(r) == pulled[r]

PublishedImage(r) == digest[r]

\* PluginService.Publish, with or without a client that waits for it; it
\* fetches the image by its digest.
Serve(r) ==
  /\ server[r] = "working"
  /\ \/ /\ digest[r] \in images
        /\ row' = PublishedImage(r)
        /\ server' = [server EXCEPT ![r] = "created"]
     \/ /\ server' = [server EXCEPT ![r] = "error"]
        /\ UNCHANGED row
  /\ UNCHANGED <<images, tag, sig, pc, options, digest, pulled, todo, dest, history>>

Await(r) ==
  /\ \/ server[r] = "created" /\ Goto(r, "await", "ok")
     \/ server[r] = "error" /\ Goto(r, "await", "failed")
  /\ UNCHANGED <<registry, options, digest, pulled, todo, server, dest, history>>

-----------------------------------------------------------------------------
\* install

StartInstall(r) == Start(r, "install", "lookup", FALSE) /\ UNCHANGED history

\* fetchPluginVersionFromStore
Lookup(r) ==
  /\ IF row # NoRow THEN /\ Goto(r, "lookup", "pull")
                         /\ digest' = [digest EXCEPT ![r] = row]
                    ELSE /\ Goto(r, "lookup", "failed")
                         /\ UNCHANGED digest
  /\ UNCHANGED <<registry, options, pulled, todo, server, dest, history>>

\* FetchManifest by the tag, then ExtractAllLayers: a layer that cannot be
\* read is left out.
Pull(r) ==
  /\ Goto(r, "pull", IF tag # NoImage THEN "write" ELSE "failed")
  /\ pulled' = [pulled EXCEPT ![r] = tag]
  /\ \E readable \in SUBSET Files : todo' = [todo EXCEPT ![r] = readable]
  /\ UNCHANGED <<registry, options, digest, server, dest, history>>

\* The files are written in the order of a Go map, that is in any order. One
\* that a kill cuts short counts as written: what there is of it is of pulled.
WriteFile(r) ==
  /\ pc[r] = "write"
  /\ \E f \in todo[r] :
       /\ dest' = [dest EXCEPT ![f] = pulled[r]]
       /\ todo' = [todo EXCEPT ![r] = @ \ {f}]
  /\ UNCHANGED <<registry, pc, options, digest, pulled, server, history>>

\* plugin.yaml is read back; it may have been there before.
FinishInstall(r) ==
  /\ todo[r] = {}
  /\ Goto(r, "write", IF dest[PluginYaml] # NoImage THEN "ok" ELSE "failed")
  /\ UNCHANGED <<registry, options, digest, pulled, todo, server, dest, history>>

-----------------------------------------------------------------------------
\* A call fails without effect, or the run is killed: it stops where it is.
Fail(r) ==
  /\ Active(r)
  /\ pc' = [pc EXCEPT ![r] = "failed"]
  /\ UNCHANGED <<registry, options, digest, pulled, todo, server, dest, history>>

\* The registry collects images that no tag names.
Collect ==
  \E d \in images \ {tag} :
    /\ images' = images \ {d}
    /\ UNCHANGED <<tag, sig, row, pc, options, digest, pulled, todo, server, dest, history>>

PublishCommand(r) ==
  \/ StartPublish(r) \/ Head(r) \/ Build(r) \/ Push(r)
  \/ Sign(r) \/ PushSignature(r)

RegisterCommand(r) == StartRegister(r) \/ HeadForRegister(r)

InstallCommand(r) ==
  \/ StartInstall(r) \/ Lookup(r) \/ Pull(r)
  \/ WriteFile(r) \/ FinishInstall(r)

Next ==
  \/ \E r \in Runs : \/ PublishCommand(r) \/ RegisterCommand(r) \/ InstallCommand(r)
                     \/ Post(r) \/ Serve(r) \/ Await(r) \/ Fail(r)
  \/ Collect

Spec == Init /\ [][Next]_vars

-----------------------------------------------------------------------------
TypeOK ==
  /\ images \subseteq Runs
  /\ {tag, sig} \subseteq Runs \cup {NoImage}
  /\ row \in Runs \cup {NoRow}
  /\ pc \in [Runs -> Steps]
  /\ kind \in [Runs -> Kinds]
  /\ signs \in [Runs -> BOOLEAN]
  /\ digest \in [Runs -> Runs \cup {NoImage}]
  /\ pulled \in [Runs -> Runs \cup {NoImage}]
  /\ todo \in [Runs -> SUBSET Files]
  /\ server \in [Runs -> {"none", "working", "created", "error"}]
  /\ dest \in [Files -> Runs \cup {NoImage}]
  /\ alone \in [run : Runs \cup {NoImage}, clean : BOOLEAN]
  /\ calm \in BOOLEAN

\* Tag, catalogue and, if run r has signed, signature name the image of r.
Agreed(r) ==
  /\ row = digest[r] /\ tag = digest[r] /\ tag \in images
  /\ signs[r] => sig = digest[r]

LatestAloneSucceeded == alone.run # NoImage /\ pc[alone.run] = "ok"

\* cmd/cli/publish.go:140, cmd/cli/register.go:39: whatever earlier runs have
\* left behind, by racing, failing or being killed at any step: a run that
\* starts when nothing is under way, here or at the server, and succeeds
\* brings tag, signature and catalogue together.
RunAloneRepairs == LatestAloneSucceeded /\ alone.clean => Agreed(alone.run)

\* docs/superpowers/specs/2026-06-06-publisher-cli-design.md:148 "`publish` is
\* safe to re-run after partial failures": the same of a run that starts when
\* the earlier commands have ended, whatever the server is still doing.
SafeToRerun == LatestAloneSucceeded => Agreed(alone.run)

\* cmd/cli/publish.go:142: without overlapping publishers and failing HEADs
\* the tag of a version is set once, whatever else fails and is retried.
TagNeverMoves == [][calm' /\ tag # NoImage => tag' = tag]_vars

\* Then the catalogue names what the tag names, although the server may
\* finish a request long after its client has given up and others have been
\* made.
RowIsTag == calm /\ row # NoRow => row = tag /\ row \in images

\* cmd/cli/install.go:129 pulls by tag what was looked up by digest; then still
\* every file in the installation directory, after any number of aborted and
\* overlapping installations, is from the image in the catalogue.
InstalledIsCatalogued ==
  calm => \A f \in Files : dest[f] # NoImage => dest[f] = row

\* pkg/oci/client.go:121 "ExtractAllLayers extracts all files from all layers
\* of an OCI image": a successful installation has every file.
InstallIsComplete ==
  \A r \in Runs : kind[r] = "install" /\ pc[r] = "ok" =>
    \A f \in Files : dest[f] # NoImage
=============================================================================
