--------------------------- MODULE CacheTransfer ---------------------------
(***************************************************************************)
(* The build cache kept in a registry, pkg/registry/cache.go: exporters    *)
(* upload a config blob and then a manifest that names it; importers fetch *)
(* a manifest, its config and its layers, while others write the same tag. *)
(*                                                                         *)
(* A request of the registry client is one step here, which may fail; what *)
(* the client does for it (Registry.tla) is left out.  A repository stands *)
(* for registry, namespace and repository name; a config blob is told by   *)
(* the exporter that made it, and it carries the exporter's cache version. *)
(* The registry stores any manifest: it does not look for the blobs.       *)
(***************************************************************************)
EXTENDS Naturals, FiniteSets, Sequences

CONSTANTS
  Exporters, Importers,   \* calls of Export and of Import
  Repositories, Tags,
  Repository,             \* [Exporters \union Importers -> the configured repository]
  Place,                  \* [Exporters \union Importers -> destination or source]
  Version,                \* [Exporters \union Importers -> CacheVersion]
  Others                  \* manifests other tools may put, each with the layers it has

Callers == Exporters \union Importers
NoBlob == "no blob"

\* A destination: nothing, a tag, a full reference, or one that has no tag.
Places == [kind : {"empty", "tag", "reference", "untagged"}, repo : Repositories, tag : Tags]

ASSUME CacheAssumption ==
  /\ Exporters \intersect Importers = {}
  /\ {"latest", "invalid"} \subseteq Tags
  /\ Repository \in [Callers -> Repositories]
  /\ Place \in [Callers -> Places]
  /\ DOMAIN Version = Callers
  /\ NoBlob \notin Exporters
  /\ \A m \in Others : m.config \notin Exporters

VARIABLES
  blobs,      \* [Repositories -> config blobs there]
  layers,     \* [Repositories -> layers there]
  manifests,  \* [Repositories \X Tags -> the manifest the tag names]
  pc,         \* [Callers -> where the call is]
  fetched,    \* [Importers -> the manifest it works on]
  todo,       \* [Importers -> layers still to fetch]
  imported,   \* [Importers -> layers counted as imported]
  reason,     \* [Importers -> why the import failed]
  (* history *)
  excused     \* importers whose source held something else than their cache meanwhile

registryVars == <<blobs, layers, manifests>>
importVars == <<fetched, todo, imported, reason, excused>>
vars == <<registryVars, pc, importVars>>

NoManifest == [cache |-> FALSE, config |-> NoBlob, layers |-> {}]
CacheOf(e) == [cache |-> TRUE, config |-> e, layers |-> {}]

(***************************************************************************)
(* getRepositoryRef: a destination with a colon is taken as a reference of *)
(* its own; anything else is a tag of the configured repository.           *)
(***************************************************************************)
RepositoryRef(c, place) ==
  CASE place.kind = "empty"     -> <<Repository[c], "latest">>
    [] place.kind = "tag"       -> <<Repository[c], place.tag>>
    [] place.kind = "reference" -> <<place.repo, place.tag>>
    [] place.kind = "untagged"  -> <<Repository[c], "invalid">>

NoPlace == [kind |-> "empty", repo |-> CHOOSE r \in Repositories : TRUE, tag |-> "latest"]

Init ==
  /\ blobs = [r \in Repositories |-> {}]
  /\ layers \in [Repositories -> SUBSET UNION {m.layers : m \in Others}]
  /\ manifests = [r \in Repositories \X Tags |-> NoManifest]
  /\ pc = [c \in Callers |-> "start"]
  /\ fetched = [i \in Importers |-> NoManifest]
  /\ todo = [i \in Importers |-> {}]
  /\ imported = [i \in Importers |-> {}]
  /\ reason = [i \in Importers |-> "none"]
  /\ excused = {}

Goto(c, at) == pc' = [pc EXCEPT ![c] = at]

\* A manifest the importer is there to read: a cache of its own version, from
\* an exporter configured for the repository it is in.
Own(i, m) == /\ m.cache /\ m.config \in Exporters
             /\ Version[m.config] = Version[i]
             /\ Repository[m.config] = RepositoryRef(i, Place[i])[1]

PutManifestAt(ref, m) ==
  /\ manifests' = [manifests EXCEPT ![ref] = m]
  /\ excused' = excused \union
       {i \in Importers : pc[i] # "start" /\ RepositoryRef(i, Place[i]) = ref /\ ~Own(i, m)}

-----------------------------------------------------------------------------
(***************************************************************************)
(* Export: the config blob goes to the configured repository, the manifest *)
(* to the destination.                                                     *)
(***************************************************************************)
(* Mutant: the manifest is put before the config. *)
PutManifestFirst(e) ==
  /\ pc[e] = "start"
  /\ PutManifestAt(RepositoryRef(e, Place[e]), CacheOf(e))
  /\ Goto(e, "config")
  /\ UNCHANGED <<blobs, layers, fetched, todo, imported, reason>>

StartExport(e) ==
  /\ pc[e] = "start"
  /\ Goto(e, "config")
  /\ UNCHANGED <<registryVars, importVars>>

UploadConfig(e) ==
  /\ pc[e] = "config"
  /\ blobs' = [blobs EXCEPT ![RepositoryRef(e, NoPlace)[1]] = @ \union {e}]
  /\ Goto(e, "manifest")
  /\ UNCHANGED <<layers, manifests, importVars>>

UploadManifest(e) ==
  /\ pc[e] = "manifest"
  /\ Place[e].kind # "untagged"
  /\ PutManifestAt(RepositoryRef(e, Place[e]), CacheOf(e))
  /\ Goto(e, "done")
  /\ UNCHANGED <<blobs, layers, fetched, todo, imported, reason>>

(* Mutant: the upload of the config may fail unnoticed. *)
ExportGoesOn(e) ==
  /\ pc[e] \in {"config", "manifest"}
  /\ Goto(e, IF pc[e] = "config" THEN "manifest" ELSE "failed")
  /\ UNCHANGED <<registryVars, importVars>>

\* A request fails; a name the registry does not take always does.
ExportFails(e) ==
  /\ pc[e] \in {"config", "manifest"}
  /\ Goto(e, "failed")
  /\ UNCHANGED <<registryVars, importVars>>

-----------------------------------------------------------------------------
(***************************************************************************)
(* Import: the manifest, its media type, its config and version, and then  *)
(* the layers, of which the missing ones are skipped.                      *)
(***************************************************************************)
StartImport(i) ==
  /\ pc[i] = "start"
  /\ Goto(i, "fetch")
  /\ excused' = IF Own(i, manifests[RepositoryRef(i, Place[i])]) THEN excused
                ELSE excused \union {i}
  /\ UNCHANGED <<registryVars, fetched, todo, imported, reason>>

FailImport(i, why) ==
  /\ Goto(i, "failed")
  /\ reason' = [reason EXCEPT ![i] = why]
  /\ UNCHANGED <<registryVars, todo, imported, excused>>

GetManifest(i) ==
  /\ pc[i] = "fetch"
  /\ LET m == manifests[RepositoryRef(i, Place[i])]
     IN IF m = NoManifest THEN FailImport(i, "no manifest") /\ UNCHANGED fetched
        ELSE IF ~m.cache THEN FailImport(i, "media type") /\ UNCHANGED fetched
        ELSE /\ fetched' = [fetched EXCEPT ![i] = m]
             /\ Goto(i, IF m.config = NoBlob THEN "layers" ELSE "config")
             /\ todo' = [todo EXCEPT ![i] = m.layers]
             /\ UNCHANGED <<registryVars, imported, reason, excused>>

(* Mutant: the version is not looked at. *)
GetConfigOfAnyVersion(i) ==
  /\ pc[i] = "config"
  /\ IF fetched[i].config \notin blobs[RepositoryRef(i, Place[i])[1]]
     THEN FailImport(i, "no config") /\ UNCHANGED fetched
     ELSE Goto(i, "layers") /\ UNCHANGED <<registryVars, importVars>>

GetConfig(i) ==
  /\ pc[i] = "config"
  /\ IF fetched[i].config \notin blobs[RepositoryRef(i, Place[i])[1]]
     THEN FailImport(i, "no config") /\ UNCHANGED fetched
     ELSE IF Version[fetched[i].config] # Version[i]
     THEN FailImport(i, "version") /\ UNCHANGED fetched
     ELSE Goto(i, "layers") /\ UNCHANGED <<registryVars, importVars>>

\* A layer that cannot be fetched is skipped, whether missing or for an error.
GetLayer(i) ==
  /\ pc[i] = "layers"
  /\ \E l \in todo[i] :
       /\ todo' = [todo EXCEPT ![i] = @ \ {l}]
       /\ \/ l \in layers[RepositoryRef(i, Place[i])[1]]
             /\ imported' = [imported EXCEPT ![i] = @ \union {l}]
          \/ UNCHANGED imported
  /\ UNCHANGED <<registryVars, pc, fetched, reason, excused>>

FinishImport(i) ==
  /\ pc[i] = "layers" /\ todo[i] = {}
  /\ Goto(i, "done")
  /\ UNCHANGED <<registryVars, importVars>>

\* A request for the manifest or the config fails.
ImportFails(i) ==
  /\ pc[i] \in {"fetch", "config"}
  /\ FailImport(i, "request")
  /\ UNCHANGED fetched

\* Another tool puts a manifest, an image's or one with layers, under a tag.
OtherPuts ==
  /\ \E m \in Others, ref \in Repositories \X (Tags \ {"invalid"}) :
       manifests[ref] # m /\ PutManifestAt(ref, m)
  /\ UNCHANGED <<blobs, layers, pc, fetched, todo, imported, reason>>

Next ==
  \/ \E e \in Exporters :
       StartExport(e) \/ UploadConfig(e) \/ UploadManifest(e) \/ ExportFails(e)
  \/ \E i \in Importers :
       StartImport(i) \/ GetManifest(i) \/ GetConfig(i) \/ GetLayer(i) \/ FinishImport(i)
       \/ ImportFails(i)
  \/ OtherPuts

Spec == Init /\ [][Next]_vars

-----------------------------------------------------------------------------
Manifests == {NoManifest} \union {CacheOf(e) : e \in Exporters} \union Others
Layers == UNION {m.layers : m \in Manifests}

TypeOK ==
  /\ blobs \in [Repositories -> SUBSET Exporters]
  /\ manifests \in [Repositories \X Tags -> Manifests]
  /\ pc \in [Callers -> {"start", "config", "manifest", "fetch", "layers", "done", "failed"}]
  /\ fetched \in [Importers -> Manifests]
  /\ todo \in [Importers -> SUBSET Layers] /\ imported \in [Importers -> SUBSET Layers]
  /\ \A i \in Importers : todo[i] \union imported[i] \subseteq fetched[i].layers
  /\ reason \in [Importers -> {"none", "no manifest", "media type", "no config", "version",
                               "request"}]
  /\ excused \subseteq Importers

(* An import that finds a cache of its version at its source, and nothing   *)
(* else written there meanwhile, fails only when a request fails: it does   *)
(* not matter how far concurrent exports to the same tag have come.         *)
ImportSucceeds ==
  \A i \in Importers :
    pc[i] = "failed" /\ i \notin excused => reason[i] = "request"

(* What Import returns without error is a cache of its own version, whole   *)
(* as one exporter wrote it, also when the tag moved while it was read.     *)
ImportedIsOwnVersion ==
  \A i \in Importers :
    pc[i] = "done" =>
      /\ fetched[i].cache
      /\ fetched[i].config # NoBlob => Version[fetched[i].config] = Version[i]

(* "Export exports cache data to a registry" (cache.go): once an export to  *)
(* its configured repository has succeeded and the tag names its manifest,  *)
(* the config that an import from there asks for is where the import looks  *)
(* for it.  The config never goes to another repository (uploadBlob).       *)
ExportedIsThere ==
  \A e \in Exporters :
    LET ref == RepositoryRef(e, Place[e])
    IN /\ pc[e] = "done" /\ manifests[ref] = CacheOf(e)
       => (ref[1] = Repository[e] <=> e \in blobs[ref[1]])

(* What one call exports another imports, whole and of its version.         *)
TransfersAreRight == ImportSucceeds /\ ImportedIsOwnVersion /\ ExportedIsThere
=============================================================================
