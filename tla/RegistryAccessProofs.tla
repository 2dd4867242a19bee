------------------------- MODULE RegistryAccessProofs -------------------------
(***************************************************************************)
(* Proofs about what goes on with a registry, three components that share  *)
(* no state: about CacheTransfer, for any number of exporters, importers,  *)
(* repositories and tags, and any manifests of other tools; about          *)
(* AuthProvider, for any registries, endpoints and lifetimes; and about    *)
(* the retry loop, for every retry configuration, and the HTTP requests    *)
(* HTTPRetry sends under it.                                               *)
(***************************************************************************)
EXTENDS CacheTransfer, AuthProvider, HTTPRetry, WellFoundedInduction, TLAPS

SourceOf(i) == RepositoryRef(i, Place[i])

(* A config blob is in the repository its exporter was configured for, from *)
(* before its manifest is put on, and nowhere else.                         *)
ConfigComesFirst ==
  /\ \A e \in Exporters : pc[e] \in {"manifest", "done"} => e \in blobs[Repository[e]]
  /\ \A r \in Repositories : \A e \in blobs[r] : Repository[e] = r
  /\ \A ref \in Repositories \X Tags :
       manifests[ref].config \in Exporters =>
         manifests[ref].config \in blobs[Repository[manifests[ref].config]]

(* An importer's source holds a cache of its own, unless it is excused.     *)
SourceIsOwn ==
  \A i \in Importers : pc[i] # "start" /\ i \notin excused => Own(i, manifests[SourceOf(i)])

(* What an importer works on. *)
FetchedIsRight ==
  \A i \in Importers :
    /\ pc[i] \in {"start", "fetch"} => imported[i] = {} /\ todo[i] = {}
    /\ pc[i] \in {"config", "layers", "done"} => fetched[i].cache
    /\ pc[i] = "config" => /\ fetched[i].config # NoBlob
                           /\ i \notin excused => Own(i, fetched[i])
    /\ pc[i] \in {"layers", "done"} =>
         (fetched[i].config # NoBlob => Version[fetched[i].config] = Version[i])
    /\ fetched[i].config \in Exporters =>
         fetched[i].config \in blobs[Repository[fetched[i].config]]

IInv == TypeOK /\ ConfigComesFirst /\ SourceIsOwn /\ FetchedIsRight /\ ImportSucceeds

-----------------------------------------------------------------------------
LEMMA PlacesAreReferences ==
  ASSUME NEW c \in Callers
  PROVE  /\ RepositoryRef(c, Place[c]) \in Repositories \X Tags
         /\ RepositoryRef(c, NoPlace) = <<Repository[c], "latest">>
         /\ Repository[c] \in Repositories
<1>1. Place[c] \in Places /\ Repository[c] \in Repositories
  BY CacheAssumption
<1>2. RepositoryRef(c, Place[c]) \in Repositories \X Tags
  BY <1>1, CacheAssumption DEF Places, RepositoryRef
<1>3. RepositoryRef(c, NoPlace) = <<Repository[c], "latest">>
  BY DEF RepositoryRef, NoPlace
<1> QED BY <1>1, <1>2, <1>3

LEMMA CallersAreOneKind ==
  /\ Exporters \subseteq Callers /\ Importers \subseteq Callers
  /\ \A e \in Exporters, i \in Importers : e # i
BY CacheAssumption DEF Callers

(* The manifest an exporter or another tool puts names a config that is there. *)
LEMMA PutKeepsInvariant ==
  ASSUME IInv, NEW ref \in Repositories \X Tags, NEW m \in Manifests,
         PutManifestAt(ref, m), UNCHANGED <<blobs, layers, fetched, todo, imported, reason>>,
         m.config \in Exporters => m.config \in blobs[Repository[m.config]],
         pc' = pc \/ \E e \in Exporters : /\ pc[e] = "manifest"
                                          /\ pc' = [pc EXCEPT ![e] = "done"]
  PROVE  IInv'
<1>1. \A i \in Importers : pc'[i] = pc[i]
  BY CallersAreOneKind DEF IInv, TypeOK
<1>2. \A e \in Exporters : pc'[e] \in {"manifest", "done"} => pc[e] \in {"manifest", "done"}
  BY CallersAreOneKind DEF IInv, TypeOK
<1>3. \A x \in Repositories \X Tags :
        manifests'[x] = IF x = ref THEN m ELSE manifests[x]
  BY DEF PutManifestAt, IInv, TypeOK
<1>4. TypeOK'
  <2>1. pc' \in [Callers -> {"start", "config", "manifest", "fetch", "layers", "done", "failed"}]
    BY DEF IInv, TypeOK
  <2>2. manifests' \in [Repositories \X Tags -> Manifests] /\ excused' \subseteq Importers
    BY DEF PutManifestAt, IInv, TypeOK
  <2> QED BY <2>1, <2>2 DEF IInv, TypeOK
<1>5. ConfigComesFirst'
  BY <1>2, <1>3 DEF IInv, ConfigComesFirst
<1>6. excused \subseteq excused'
  BY DEF PutManifestAt
<1>7. SourceIsOwn'
  <2> SUFFICES ASSUME NEW i \in Importers, pc'[i] # "start", i \notin excused'
               PROVE  Own(i, manifests'[SourceOf(i)])
    BY DEF SourceIsOwn, Own, SourceOf
  <2>1. SourceOf(i) \in Repositories \X Tags
    BY PlacesAreReferences, CallersAreOneKind DEF SourceOf
  <2>2. CASE SourceOf(i) = ref
    BY <2>2, <2>1, <1>1, <1>3 DEF PutManifestAt, SourceOf
  <2>3. CASE SourceOf(i) # ref
    BY <2>3, <2>1, <1>1, <1>3, <1>6 DEF IInv, SourceIsOwn
  <2> QED BY <2>2, <2>3
<1>8. FetchedIsRight'
  BY <1>1, <1>6 DEF IInv, FetchedIsRight, Own
<1>9. ImportSucceeds'
  BY <1>1, <1>6 DEF IInv, ImportSucceeds
<1> QED BY <1>4, <1>5, <1>7, <1>8, <1>9 DEF IInv

-----------------------------------------------------------------------------
LEMMA InitHolds == Init => IInv
<1> SUFFICES ASSUME Init PROVE IInv
  OBVIOUS
<1>1. TypeOK
  BY DEF Init, TypeOK, Manifests, NoManifest
<1>2. /\ \A c \in Callers : pc[c] = "start"
      /\ \A ref \in Repositories \X Tags : manifests[ref].config = NoBlob
      /\ \A i \in Importers : fetched[i].config = NoBlob /\ imported[i] = {} /\ todo[i] = {}
  BY DEF Init, NoManifest
<1>3. ConfigComesFirst
  BY <1>2, CacheAssumption, CallersAreOneKind DEF Init, ConfigComesFirst
<1>4. SourceIsOwn /\ FetchedIsRight /\ ImportSucceeds
  BY <1>2, CacheAssumption, CallersAreOneKind DEF SourceIsOwn, FetchedIsRight, ImportSucceeds
<1> QED BY <1>1, <1>3, <1>4 DEF IInv

(* Steps of an exporter that put nothing under a tag. *)
LEMMA ExporterSteps ==
  ASSUME IInv, NEW e \in Exporters,
         StartExport(e) \/ UploadConfig(e) \/ ExportFails(e)
  PROVE  IInv'
<1>1. \A i \in Importers : pc'[i] = pc[i]
  BY CallersAreOneKind
     DEF IInv, TypeOK, StartExport, UploadConfig, ExportFails, Goto
<1>2. UNCHANGED <<manifests, importVars>>
  BY DEF StartExport, UploadConfig, ExportFails, registryVars, importVars
<1>3. /\ blobs' \in [Repositories -> SUBSET Exporters]
      /\ \A r \in Repositories : \/ blobs'[r] = blobs[r]
                                 \/ r = Repository[e] /\ blobs'[r] = blobs[r] \union {e}
      /\ UploadConfig(e) => e \in blobs'[Repository[e]]
  <2>1. CASE UploadConfig(e)
    <3>1. RepositoryRef(e, NoPlace)[1] = Repository[e] /\ Repository[e] \in Repositories
      BY PlacesAreReferences, CallersAreOneKind
    <3>2. blobs' = [blobs EXCEPT ![Repository[e]] = @ \union {e}]
      BY <2>1, <3>1 DEF UploadConfig
    <3> QED BY <3>1, <3>2 DEF IInv, TypeOK
  <2>2. CASE StartExport(e) \/ ExportFails(e)
    <3>1. blobs' = blobs /\ ~(pc[e] = "config" /\ pc'[e] = "manifest")
      BY <2>2, CallersAreOneKind DEF StartExport, ExportFails, registryVars, Goto, IInv, TypeOK
    <3>2. UploadConfig(e) => pc[e] = "config" /\ pc'[e] = "manifest"
      BY CallersAreOneKind DEF UploadConfig, Goto, IInv, TypeOK
    <3> QED BY <3>1, <3>2 DEF IInv, TypeOK
  <2> QED BY <2>1, <2>2
<1>4. \A f \in Exporters : pc'[f] \in {"manifest", "done"} =>
        pc[f] \in {"manifest", "done"} \/ (UploadConfig(e) /\ f = e)
  BY CallersAreOneKind DEF IInv, TypeOK, StartExport, UploadConfig, ExportFails, Goto
<1>5. TypeOK'
  <2>1. pc' \in [Callers -> {"start", "config", "manifest", "fetch", "layers", "done", "failed"}]
    BY CallersAreOneKind DEF IInv, TypeOK, StartExport, UploadConfig, ExportFails, Goto
  <2> QED BY <2>1, <1>3, <1>2 DEF IInv, TypeOK, importVars
<1>6. \A r \in Repositories : blobs[r] \subseteq blobs'[r]
  BY <1>3
<1>7. \A f \in Exporters : Repository[f] \in Repositories
  BY PlacesAreReferences, CallersAreOneKind
<1>8. ConfigComesFirst'
  <2>1. \A f \in Exporters : pc'[f] \in {"manifest", "done"} => f \in blobs'[Repository[f]]
    BY <1>3, <1>4, <1>6, <1>7 DEF IInv, ConfigComesFirst
  <2>2. \A r \in Repositories : \A f \in blobs'[r] : Repository[f] = r
    BY <1>3 DEF IInv, ConfigComesFirst
  <2>3. \A ref \in Repositories \X Tags :
          manifests'[ref].config \in Exporters =>
            manifests'[ref].config \in blobs'[Repository[manifests'[ref].config]]
    BY <1>2, <1>6, <1>7 DEF IInv, ConfigComesFirst
  <2> QED BY <2>1, <2>2, <2>3 DEF ConfigComesFirst
<1>9. SourceIsOwn' /\ ImportSucceeds'
  BY <1>1, <1>2 DEF IInv, SourceIsOwn, ImportSucceeds, SourceOf, Own, importVars
<1>10. FetchedIsRight'
  BY <1>1, <1>2, <1>6, <1>7 DEF IInv, FetchedIsRight, Own, importVars
<1> QED BY <1>5, <1>8, <1>9, <1>10 DEF IInv

-----------------------------------------------------------------------------
(* A step of an importer that leaves the registry and the others alone. *)
LEMMA ImporterStep ==
  ASSUME IInv, NEW i \in Importers, UNCHANGED <<blobs, manifests>>, TypeOK',
         \A c \in Callers : c # i => pc'[c] = pc[c],
         \A j \in Importers : j # i =>
           /\ fetched'[j] = fetched[j] /\ todo'[j] = todo[j] /\ imported'[j] = imported[j]
           /\ reason'[j] = reason[j],
         excused \subseteq excused', excused' \subseteq excused \union {i},
         pc'[i] # "start" /\ i \notin excused' => Own(i, manifests[SourceOf(i)]),
         pc'[i] \in {"start", "fetch"} => imported'[i] = {} /\ todo'[i] = {},
         pc'[i] \in {"config", "layers", "done"} => fetched'[i].cache,
         pc'[i] = "config" => /\ fetched'[i].config # NoBlob
                              /\ i \notin excused' => Own(i, fetched'[i]),
         pc'[i] \in {"layers", "done"} =>
           (fetched'[i].config # NoBlob => Version[fetched'[i].config] = Version[i]),
         fetched'[i].config \in Exporters =>
           fetched'[i].config \in blobs[Repository[fetched'[i].config]],
         pc'[i] = "failed" /\ i \notin excused' => reason'[i] = "request"
  PROVE  IInv'
<1>1. \A e \in Exporters : pc'[e] = pc[e]
  BY CallersAreOneKind
<1>2. \A j \in Importers : j # i => pc'[j] = pc[j] /\ (j \in excused' <=> j \in excused)
  BY CallersAreOneKind
<1>3. ConfigComesFirst'
  BY <1>1 DEF IInv, ConfigComesFirst
<1>4. SourceIsOwn'
  BY <1>2 DEF IInv, SourceIsOwn, Own, SourceOf
<1>5. FetchedIsRight'
  <2> SUFFICES ASSUME NEW j \in Importers
               PROVE  /\ pc'[j] \in {"start", "fetch"} => imported'[j] = {} /\ todo'[j] = {}
                      /\ pc'[j] \in {"config", "layers", "done"} => fetched'[j].cache
                      /\ pc'[j] = "config" => /\ fetched'[j].config # NoBlob
                                              /\ j \notin excused' => Own(j, fetched'[j])
                      /\ pc'[j] \in {"layers", "done"} =>
                           (fetched'[j].config # NoBlob =>
                              Version[fetched'[j].config] = Version[j])
                      /\ fetched'[j].config \in Exporters =>
                           fetched'[j].config \in blobs[Repository[fetched'[j].config]]
    BY DEF FetchedIsRight, Own
  <2>1. CASE j = i
    BY <2>1
  <2>2. CASE j # i
    BY <2>2, <1>2 DEF IInv, FetchedIsRight
  <2> QED BY <2>1, <2>2
<1>6. ImportSucceeds'
  BY <1>2 DEF IInv, ImportSucceeds
<1> QED BY <1>3, <1>4, <1>5, <1>6 DEF IInv

(* An importer that fails for a reason it is allowed to. *)
LEMMA FailStep ==
  ASSUME IInv, NEW i \in Importers, pc[i] \in {"fetch", "config"},
         NEW why \in {"no manifest", "media type", "no config", "version", "request"},
         FailImport(i, why), UNCHANGED fetched, i \notin excused => why = "request"
  PROVE  IInv'
<1>1. pc' = [pc EXCEPT ![i] = "failed"] /\ reason' = [reason EXCEPT ![i] = why]
      /\ UNCHANGED <<blobs, layers, manifests, todo, imported, excused>>
  BY DEF FailImport, Goto, registryVars
<1>2. pc'[i] = "failed" /\ reason'[i] = why
  BY <1>1, CallersAreOneKind DEF IInv, TypeOK
<1>3. TypeOK'
  BY <1>1, CallersAreOneKind DEF IInv, TypeOK
<1>4. i \notin excused => Own(i, manifests[SourceOf(i)])
  BY DEF IInv, SourceIsOwn
<1>5. fetched[i].config \in Exporters =>
        fetched[i].config \in blobs[Repository[fetched[i].config]]
  BY DEF IInv, FetchedIsRight
<1> QED BY <1>1, <1>2, <1>3, <1>4, <1>5, ImporterStep DEF IInv, TypeOK

(* StartImport: an importer whose source holds something else is excused.   *)
LEMMA StartImportStep ==
  ASSUME IInv, NEW i \in Importers, StartImport(i)
  PROVE  IInv'
<1>1. /\ pc[i] = "start" /\ pc' = [pc EXCEPT ![i] = "fetch"]
      /\ excused' = IF Own(i, manifests[SourceOf(i)]) THEN excused ELSE excused \union {i}
      /\ UNCHANGED <<blobs, layers, manifests, fetched, todo, imported, reason>>
  BY DEF StartImport, Goto, registryVars, SourceOf
<1>2. pc'[i] = "fetch"
  BY <1>1, CallersAreOneKind DEF IInv, TypeOK
<1>3. TypeOK'
  BY <1>1, CallersAreOneKind DEF IInv, TypeOK
<1>4. i \notin excused' => Own(i, manifests[SourceOf(i)])
  BY <1>1
<1>5. /\ imported[i] = {} /\ todo[i] = {}
      /\ fetched[i].config \in Exporters =>
           fetched[i].config \in blobs[Repository[fetched[i].config]]
  BY <1>1 DEF IInv, FetchedIsRight
<1> QED BY <1>1, <1>2, <1>3, <1>4, <1>5, ImporterStep DEF IInv, TypeOK

LEMMA GetManifestStep ==
  ASSUME IInv, NEW i \in Importers, GetManifest(i)
  PROVE  IInv'
<1> DEFINE m == manifests[SourceOf(i)]
<1>1. pc[i] = "fetch" /\ (i \notin excused => Own(i, m))
  BY DEF GetManifest, IInv, SourceIsOwn
<1>2. SourceOf(i) \in Repositories \X Tags /\ m \in Manifests
  BY PlacesAreReferences, CallersAreOneKind DEF SourceOf, IInv, TypeOK
<1>3. CASE m = NoManifest
  <2>1. FailImport(i, "no manifest") /\ UNCHANGED fetched
    BY <1>3 DEF GetManifest, SourceOf
  <2>2. i \in excused
    BY <1>1, <1>3 DEF Own, NoManifest
  <2> QED BY <1>1, <2>1, <2>2, FailStep
<1>4. CASE m # NoManifest /\ ~m.cache
  BY <1>1, <1>4, FailStep DEF GetManifest, SourceOf, Own
<1>5. CASE m # NoManifest /\ m.cache
  <2> DEFINE at == IF m.config = NoBlob THEN "layers" ELSE "config"
  <2>1. /\ fetched' = [fetched EXCEPT ![i] = m] /\ pc' = [pc EXCEPT ![i] = at]
        /\ todo' = [todo EXCEPT ![i] = m.layers]
        /\ UNCHANGED <<blobs, layers, manifests, imported, reason, excused>>
    BY <1>5 DEF GetManifest, SourceOf, Goto, registryVars
  <2> HIDE DEF m
  <2>2. /\ fetched'[i] = m /\ pc'[i] = at /\ imported[i] = {}
        /\ \A c \in Callers : c # i => pc'[c] = pc[c]
        /\ \A j \in Importers : j # i => fetched'[j] = fetched[j] /\ todo'[j] = todo[j]
    <3>1. imported[i] = {}
      BY <1>1 DEF IInv, FetchedIsRight
    <3>2. pc'[i] = at /\ \A c \in Callers : c # i => pc'[c] = pc[c]
      BY <2>1, CallersAreOneKind DEF IInv, TypeOK
    <3>3. /\ fetched'[i] = m
          /\ \A j \in Importers : j # i => fetched'[j] = fetched[j] /\ todo'[j] = todo[j]
      BY <2>1 DEF IInv, TypeOK
    <3> QED BY <3>1, <3>2, <3>3
  <2>3. m.layers \in SUBSET Layers
    BY <1>2 DEF Layers
  <2>4. TypeOK'
    BY <2>1, <2>2, <2>3, <1>2, CallersAreOneKind DEF IInv, TypeOK
  <2>5. m.config \in Exporters => m.config \in blobs[Repository[m.config]]
    BY <1>2 DEF IInv, ConfigComesFirst, m
  <2>6. i \notin excused' => Own(i, manifests[SourceOf(i)]) /\ Own(i, m)
    BY <2>1, <1>1 DEF m
  <2>7. at \in {"config", "layers"} /\ (at = "config" <=> m.config # NoBlob)
    OBVIOUS
  <2> HIDE DEF at
  <2> QED BY <2>1, <2>2, <2>4, <2>5, <2>6, <2>7, <1>5, ImporterStep
<1> QED BY <1>3, <1>4, <1>5

(* The config of an importer's own cache is there, of its version.          *)
LEMMA GetConfigStep ==
  ASSUME IInv, NEW i \in Importers, GetConfig(i)
  PROVE  IInv'
<1> DEFINE repo == RepositoryRef(i, Place[i])[1]
           config == fetched[i].config
<1>1. /\ pc[i] = "config" /\ fetched[i].cache
      /\ config \in Exporters => config \in blobs[Repository[config]]
  BY DEF GetConfig, IInv, FetchedIsRight
<1>2. i \notin excused => /\ Own(i, manifests[SourceOf(i)])
                          /\ config \in blobs[repo] /\ Version[config] = Version[i]
  BY <1>1 DEF IInv, SourceIsOwn, FetchedIsRight, Own
<1>3. CASE config \notin blobs[repo]
  BY <1>1, <1>2, <1>3, FailStep DEF GetConfig
<1>4. CASE config \in blobs[repo] /\ Version[config] # Version[i]
  BY <1>1, <1>2, <1>4, FailStep DEF GetConfig
<1>5. CASE config \in blobs[repo] /\ Version[config] = Version[i]
  <2>1. /\ pc' = [pc EXCEPT ![i] = "layers"]
        /\ UNCHANGED <<blobs, layers, manifests, fetched, todo, imported, reason, excused>>
    BY <1>5 DEF GetConfig, Goto, registryVars, importVars
  <2>2. pc'[i] = "layers"
    BY <2>1, CallersAreOneKind DEF IInv, TypeOK
  <2>3. TypeOK'
    BY <2>1, CallersAreOneKind DEF IInv, TypeOK
  <2> QED BY <2>1, <2>2, <2>3, <1>1, <1>2, <1>5, ImporterStep DEF IInv, TypeOK
<1> QED BY <1>3, <1>4, <1>5

LEMMA GetLayerStep ==
  ASSUME IInv, NEW i \in Importers, GetLayer(i)
  PROVE  IInv'
<1>1. PICK l \in todo[i] :
        /\ todo' = [todo EXCEPT ![i] = todo[i] \ {l}]
        /\ \/ imported' = [imported EXCEPT ![i] = imported[i] \union {l}]
           \/ imported' = imported
  BY DEF GetLayer
<1>2. /\ pc[i] = "layers"
      /\ UNCHANGED <<blobs, layers, manifests, pc, fetched, reason, excused>>
  BY DEF GetLayer, registryVars
<1>3. l \in Layers /\ l \in fetched[i].layers
  BY DEF IInv, TypeOK
<1>4. /\ todo'[i] \subseteq todo[i] /\ imported'[i] \subseteq imported[i] \union {l}
      /\ \A j \in Importers : j # i => todo'[j] = todo[j] /\ imported'[j] = imported[j]
      /\ todo' \in [Importers -> SUBSET Layers] /\ imported' \in [Importers -> SUBSET Layers]
  <2>1. /\ todo'[i] = todo[i] \ {l} /\ \A j \in Importers : j # i => todo'[j] = todo[j]
        /\ todo' \in [Importers -> SUBSET Layers]
    BY <1>1 DEF IInv, TypeOK
  <2>2. /\ imported'[i] \subseteq imported[i] \union {l}
        /\ \A j \in Importers : j # i => imported'[j] = imported[j]
        /\ imported' \in [Importers -> SUBSET Layers]
    <3>1. CASE imported' = imported
      BY <3>1 DEF IInv, TypeOK
    <3>2. CASE imported' = [imported EXCEPT ![i] = imported[i] \union {l}]
      BY <3>2, <1>3 DEF IInv, TypeOK
    <3> QED BY <3>1, <3>2, <1>1
  <2> QED BY <2>1, <2>2
<1>5. TypeOK'
  <2>1. \A j \in Importers : todo'[j] \union imported'[j] \subseteq fetched[j].layers
    BY <1>3, <1>4 DEF IInv, TypeOK
  <2> QED BY <2>1, <1>2, <1>4 DEF IInv, TypeOK
<1>6. /\ fetched[i].cache
      /\ fetched[i].config # NoBlob => Version[fetched[i].config] = Version[i]
      /\ fetched[i].config \in Exporters =>
           fetched[i].config \in blobs[Repository[fetched[i].config]]
      /\ i \notin excused => Own(i, manifests[SourceOf(i)])
  BY <1>2 DEF IInv, FetchedIsRight, SourceIsOwn
<1> QED BY <1>2, <1>4, <1>5, <1>6, ImporterStep

LEMMA FinishImportStep ==
  ASSUME IInv, NEW i \in Importers, FinishImport(i)
  PROVE  IInv'
<1>1. /\ pc[i] = "layers" /\ pc' = [pc EXCEPT ![i] = "done"]
      /\ UNCHANGED <<blobs, layers, manifests, fetched, todo, imported, reason, excused>>
  BY DEF FinishImport, Goto, registryVars, importVars
<1>2. pc'[i] = "done"
  BY <1>1, CallersAreOneKind DEF IInv, TypeOK
<1>3. TypeOK'
  BY <1>1, CallersAreOneKind DEF IInv, TypeOK
<1>4. /\ fetched[i].cache
      /\ fetched[i].config # NoBlob => Version[fetched[i].config] = Version[i]
      /\ fetched[i].config \in Exporters =>
           fetched[i].config \in blobs[Repository[fetched[i].config]]
      /\ i \notin excused => Own(i, manifests[SourceOf(i)])
  BY <1>1 DEF IInv, FetchedIsRight, SourceIsOwn
<1> QED BY <1>1, <1>2, <1>3, <1>4, ImporterStep DEF IInv, TypeOK

-----------------------------------------------------------------------------
(* Every action keeps the invariant. *)
LEMMA NextHolds == IInv /\ [Next]_vars => IInv'
<1> SUFFICES ASSUME IInv, [Next]_vars PROVE IInv'
  OBVIOUS
<1>1. CASE UNCHANGED vars
  BY <1>1 DEF vars, registryVars, importVars, IInv, TypeOK, ConfigComesFirst, SourceIsOwn,
              SourceOf, Own, FetchedIsRight, ImportSucceeds
<1>2. ASSUME NEW e \in Exporters, UploadManifest(e)
      PROVE  IInv'
  <2>1. /\ RepositoryRef(e, Place[e]) \in Repositories \X Tags
        /\ CacheOf(e) \in Manifests /\ CacheOf(e).config = e
    BY PlacesAreReferences, CallersAreOneKind DEF Manifests, CacheOf
  <2>2. e \in blobs[Repository[e]]
    BY <1>2 DEF UploadManifest, IInv, ConfigComesFirst
  <2> QED BY <1>2, <2>1, <2>2, PutKeepsInvariant DEF UploadManifest, Goto
<1>3. ASSUME OtherPuts
      PROVE  IInv'
  <2>1. PICK m \in Others, ref \in Repositories \X (Tags \ {"invalid"}) : PutManifestAt(ref, m)
    BY <1>3 DEF OtherPuts
  <2>2. m \in Manifests /\ m.config \notin Exporters /\ ref \in Repositories \X Tags
    BY CacheAssumption DEF Manifests
  <2> QED BY <1>3, <2>1, <2>2, PutKeepsInvariant DEF OtherPuts
<1>4. ASSUME NEW i \in Importers, ImportFails(i)
      PROVE  IInv'
  BY <1>4, FailStep DEF ImportFails
<1> QED BY <1>1, <1>2, <1>3, <1>4, ExporterSteps, StartImportStep, GetManifestStep,
           GetConfigStep, GetLayerStep, FinishImportStep DEF Next

(* The config of every cache manifest is in its exporter's repository, and  *)
(* nothing an importer reads there contradicts what it read before.         *)
THEOREM Invariance == Spec => []IInv
<1>1. Init => IInv
  BY InitHolds
<1>2. IInv /\ [Next]_vars => IInv'
  BY NextHolds
<1> QED BY <1>1, <1>2, PTL DEF Spec

(* What one call exports another imports, whole and of its version, however *)
(* many exports and imports of one tag overlap: TransfersAreRight.          *)
THEOREM TransfersAreAlwaysRight == Spec => []TransfersAreRight
<1>1. ASSUME IInv PROVE ImportedIsOwnVersion
  BY <1>1 DEF IInv, FetchedIsRight, ImportedIsOwnVersion
<1>2. ASSUME IInv PROVE ExportedIsThere
  <2> SUFFICES ASSUME NEW e \in Exporters, pc[e] = "done"
               PROVE  LET ref == RepositoryRef(e, Place[e])
                      IN ref[1] = Repository[e] <=> e \in blobs[ref[1]]
    BY DEF ExportedIsThere
  <2>1. RepositoryRef(e, Place[e])[1] \in Repositories
    BY PlacesAreReferences, CallersAreOneKind
  <2>2. e \in blobs[Repository[e]] /\ \A r \in Repositories : e \in blobs[r] => Repository[e] = r
    BY <1>2 DEF IInv, ConfigComesFirst
  <2> QED BY <2>1, <2>2
<1>3. IInv => TransfersAreRight
  BY <1>1, <1>2 DEF TransfersAreRight, IInv
<1> QED BY <1>3, Invariance, PTL

------------------------------------------------------------------------------
(* A request is for a host with an endpoint: what an answer without a       *)
(* lifetime needs for TokensExpire to be kept.                              *)
CredentialSet == [kind : {"none", "password", "token"}, left : 0..Never]
Calls == [asks : {"grant", "refresh"}, updates : BOOLEAN, host : Endpoints]

AuthInv ==
  /\ AuthTypeOK
  /\ call = NoCall \/ call \in Calls
  /\ TokensExpire

LEMMA CredentialFacts ==
  /\ Never \in Nat
  /\ \A k \in {"none", "password"} :
       /\ Of(k) \in CredentialSet
       /\ Of(k).left = Never /\ Of(k).kind = k
  /\ \A h \in Hosts : Stored(h) \in {"none", "password"} /\ FromEnv(h) \in {"none", "password"}
  /\ NoCall.asks = "nothing"
  /\ \A h \in Endpoints : \A l \in Lifetimes[h] : l \in Nat /\ l < Never
BY AuthAssumption DEF CredentialSet, Of, Credential, Stored, FromEnv, NoCall

LEMMA AuthStart == AuthInit => AuthInv
<1> SUFFICES ASSUME AuthInit PROVE AuthInv
  OBVIOUS
<1>1. credentials \in [Hosts -> CredentialSet]
  BY CredentialFacts DEF AuthInit
<1>2. \A h \in Hosts : credentials[h].left = Never
  BY CredentialFacts DEF AuthInit
<1>3. \A h \in Hosts : credentials[h].kind # "token"
  BY CredentialFacts DEF AuthInit
<1>4. TokensExpire
  BY <1>3 DEF TokensExpire, Of, Credential
<1> QED BY <1>1, <1>2, <1>4, CredentialFacts DEF AuthInit, AuthInv, AuthTypeOK, CredentialSet

(* Only the credential of one host changes, to one that is well formed. *)
LEMMA OneCredential ==
  ASSUME AuthInv, NEW h \in Hosts, NEW c \in CredentialSet,
         c.kind # "token" => c.left = Never,
         c = Of("token") => h \in Endpoints /\ 0 \in Lifetimes[h],
         credentials' = [credentials EXCEPT ![h] = c]
  PROVE  /\ credentials' \in [Hosts -> CredentialSet]
         /\ \A g \in Hosts : credentials'[g].kind # "token" => credentials'[g].left = Never
         /\ TokensExpire'
<1>1. credentials \in [Hosts -> CredentialSet]
  BY DEF AuthInv, AuthTypeOK, CredentialSet
<1>2. \A g \in Hosts : credentials'[g] = IF g = h THEN c ELSE credentials[g]
  BY <1>1
<1>3. credentials' \in [Hosts -> CredentialSet]
  BY <1>1
<1> QED BY <1>2, <1>3 DEF AuthInv, AuthTypeOK, CredentialSet, TokensExpire, Of, Credential

LEMMA AskStep ==
  ASSUME AuthInv, NEW h \in Endpoints, NEW what \in {"grant", "refresh"}, NEW updates \in BOOLEAN,
         what = "refresh" => tokens[h] # "none", Ask(h, what, updates)
  PROVE  AuthInv'
<1>1. call' \in Calls
  BY DEF Ask, Calls
<1>2. call'.asks = "refresh" => tokens[call'.host] # "none"
  BY DEF Ask
<1> QED BY <1>1, <1>2 DEF Ask, AuthInv, AuthTypeOK, CredentialSet, TokensExpire

LEMMA AnsweredStep ==
  ASSUME AuthInv, NEW h \in Hosts, Answered(h)
  PROVE  AuthInv'
<1>1. call \in Calls /\ h \in Endpoints /\ call' = NoCall /\ endpoint' = endpoint
  BY DEF AuthInv, Answered, Calls
<1>2. tokens' \in [Hosts -> {"none", "accepted", "revoked"}]
  BY DEF AuthInv, AuthTypeOK, Answered
<1>3. PICK lifetime \in Lifetimes[h] :
        credentials' = IF call.updates
                       THEN [credentials EXCEPT ![h] = Renewed(credentials[h], lifetime)]
                       ELSE credentials
  BY DEF Answered
<1>4. lifetime \in Nat /\ lifetime < Never /\ Never \in Nat
  BY <1>1, CredentialFacts
<1> DEFINE c == Renewed(credentials[h], lifetime)
<1>5. credentials[h] \in CredentialSet
  BY DEF AuthInv, AuthTypeOK, CredentialSet
<1>6. /\ c \in CredentialSet
      /\ c.kind # "token" => c.left = Never
      /\ c = Of("token") => 0 \in Lifetimes[h]
  <2>1. CASE lifetime > 0
    BY <1>4, <2>1 DEF Renewed, Of, Credential, CredentialSet
  <2>2. CASE ~(lifetime > 0)
    <3>1. lifetime = 0
      BY <1>4, <2>2
    <3> QED BY <1>4, <1>5, <2>2, <3>1 DEF Renewed, Of, Credential, AuthInv, AuthTypeOK, CredentialSet
  <2> QED BY <2>1, <2>2
<1> HIDE DEF c
<1>7. /\ credentials' \in [Hosts -> CredentialSet]
      /\ \A g \in Hosts : credentials'[g].kind # "token" => credentials'[g].left = Never
      /\ TokensExpire'
  <2>1. CASE call.updates
    <3>1. credentials' = [credentials EXCEPT ![h] = c]
      BY <1>3, <2>1 DEF c
    <3> QED BY <1>1, <1>6, <3>1, OneCredential
  <2>2. CASE ~call.updates
    BY <1>3, <2>2 DEF AuthInv, AuthTypeOK, CredentialSet, TokensExpire
  <2> QED BY <2>1, <2>2
<1> QED BY <1>1, <1>2, <1>7, CredentialFacts DEF AuthInv, AuthTypeOK, CredentialSet

LEMMA GiveUpStep ==
  ASSUME AuthInv, NEW h \in Hosts, GiveUp(h),
         tokens' \in [Hosts -> {"none", "accepted", "revoked"}]
  PROVE  AuthInv'
<1>1. call' = NoCall /\ endpoint' = endpoint
  BY DEF GiveUp
<1>2. /\ credentials' \in [Hosts -> CredentialSet]
      /\ \A g \in Hosts : credentials'[g].kind # "token" => credentials'[g].left = Never
      /\ TokensExpire'
  <2>1. CASE call.updates /\ credentials[h].kind = "none"
    <3>1. credentials' = [credentials EXCEPT ![h] = Of(FromEnv(h))]
      BY <2>1 DEF GiveUp
    <3>2. FromEnv(h) \in {"none", "password"}
      BY CredentialFacts
    <3>3. Of(FromEnv(h)) \in CredentialSet /\ Of(FromEnv(h)).left = Never
          /\ Of(FromEnv(h)) # Of("token")
      BY <3>2, CredentialFacts DEF Of, Credential
    <3> QED BY <3>1, <3>3, OneCredential
  <2>2. CASE ~(call.updates /\ credentials[h].kind = "none")
    BY <1>1, <2>2 DEF GiveUp, AuthInv, AuthTypeOK, CredentialSet, TokensExpire
  <2> QED BY <2>1, <2>2
<1> QED BY <1>1, <1>2, CredentialFacts DEF AuthInv, AuthTypeOK, CredentialSet

LEMMA TickStep == ASSUME AuthInv, Tick PROVE AuthInv'
<1>1. \A h \in Hosts : /\ Aged(credentials[h]) \in CredentialSet
                       /\ Aged(credentials[h]).kind = credentials[h].kind
                       /\ credentials[h].left = Never => Aged(credentials[h]).left = Never
  <2> SUFFICES ASSUME NEW h \in Hosts
               PROVE  /\ Aged(credentials[h]) \in CredentialSet
                      /\ Aged(credentials[h]).kind = credentials[h].kind
                      /\ credentials[h].left = Never => Aged(credentials[h]).left = Never
    OBVIOUS
  <2>1. credentials[h] \in CredentialSet
    BY DEF AuthInv, AuthTypeOK, CredentialSet
  <2>2. CASE credentials[h].left \in {0, Never}
    BY <2>1, <2>2 DEF Aged, CredentialSet
  <2>3. CASE credentials[h].left \notin {0, Never}
    <3> DEFINE l == credentials[h].left
    <3>1. l \in 0..Never /\ l # 0 /\ l # Never /\ Never \in Nat
      BY <2>1, <2>3, CredentialFacts DEF CredentialSet
    <3>2. l - 1 \in 0..Never
      BY <3>1
    <3>3. Aged(credentials[h]) = [credentials[h] EXCEPT !.left = l - 1]
      BY <2>3 DEF Aged
    <3> QED BY <2>1, <2>3, <3>2, <3>3 DEF CredentialSet
  <2> QED BY <2>2, <2>3
<1>2. credentials' = [h \in Hosts |-> Aged(credentials[h])]
      /\ UNCHANGED <<tokens, call, endpoint>>
  BY DEF Tick
<1>3. TokensExpire'
  <2> SUFFICES ASSUME NEW h \in Hosts, credentials'[h] = Of("token")
               PROVE  h \in Endpoints /\ 0 \in Lifetimes[h]
    BY DEF TokensExpire
  <2>1. credentials[h] \in CredentialSet
    BY DEF AuthInv, AuthTypeOK, CredentialSet
  <2>2. Aged(credentials[h]) = Of("token")
    BY <1>2
  <2>3. CASE credentials[h].left \in {0, Never}
    BY <2>2, <2>3 DEF Aged, AuthInv, TokensExpire
  <2>4. CASE credentials[h].left \notin {0, Never}
    <3>1. credentials[h].left - 1 = Never
      BY <2>1, <2>2, <2>4 DEF Aged, Of, Credential, CredentialSet
    <3> QED BY <2>1, <3>1, CredentialFacts DEF CredentialSet
  <2> QED BY <2>3, <2>4
<1> QED BY <1>1, <1>2, <1>3 DEF AuthInv, AuthTypeOK, CredentialSet

LEMMA AuthStep == AuthInv /\ [AuthNext]_authVars => AuthInv'
<1> SUFFICES ASSUME AuthInv, [AuthNext]_authVars PROVE AuthInv'
  OBVIOUS
<1>1. ASSUME NEW h \in Hosts, StartRefresh(h) \/ StartGrant(h) \/ RefreshToken(h)
      PROVE  AuthInv'
  BY <1>1, AskStep DEF StartRefresh, StartGrant, RefreshToken, RefreshRequest
<1>2. ASSUME NEW h \in Hosts, TakeFromEnvironment(h)
      PROVE  AuthInv'
  <2>1. FromEnv(h) \in {"none", "password"}
    BY CredentialFacts
  <2>2. Of(FromEnv(h)) \in CredentialSet /\ Of(FromEnv(h)).left = Never
        /\ Of(FromEnv(h)) # Of("token")
    BY <2>1, CredentialFacts DEF Of, Credential
  <2>3. credentials' = [credentials EXCEPT ![h] = Of(FromEnv(h))]
        /\ UNCHANGED <<tokens, call, endpoint>>
    BY <1>2 DEF TakeFromEnvironment
  <2>4. /\ credentials' \in [Hosts -> CredentialSet]
        /\ \A g \in Hosts : credentials'[g].kind # "token" => credentials'[g].left = Never
        /\ TokensExpire'
    BY <2>2, <2>3, OneCredential
  <2> QED BY <2>3, <2>4 DEF AuthInv, AuthTypeOK, CredentialSet
<1>3. ASSUME NEW h \in Hosts, Answered(h)
      PROVE  AuthInv'
  BY <1>3, AnsweredStep
<1>4. ASSUME NEW h \in Hosts, Refused(h)
      PROVE  AuthInv'
  BY <1>4, GiveUpStep DEF Refused, AuthInv, AuthTypeOK, CredentialSet
<1>5. ASSUME NEW h \in Hosts, AnswerLost(h)
      PROVE  AuthInv'
  <2>1. tokens' \in [Hosts -> {"none", "accepted", "revoked"}]
    BY <1>5 DEF AnswerLost, AuthInv, AuthTypeOK, CredentialSet
  <2> QED BY <1>5, <2>1, GiveUpStep DEF AnswerLost
<1>6. ASSUME NEW h \in Hosts, ClearCredentials(h)
      PROVE  AuthInv'
  <2>1. Of("none") \in CredentialSet /\ Of("none").left = Never /\ Of("none") # Of("token")
    BY CredentialFacts DEF Of, Credential, CredentialSet
  <2>2. credentials' = [credentials EXCEPT ![h] = Of("none")] /\ call = NoCall
        /\ tokens' = [tokens EXCEPT ![h] = "none"] /\ UNCHANGED <<call, endpoint>>
    BY <1>6 DEF ClearCredentials
  <2>3. /\ credentials' \in [Hosts -> CredentialSet]
        /\ \A g \in Hosts : credentials'[g].kind # "token" => credentials'[g].left = Never
        /\ TokensExpire'
    BY <2>1, <2>2, OneCredential
  <2> QED BY <2>1, <2>2, <2>3, CredentialFacts DEF AuthInv, AuthTypeOK, CredentialSet
<1>7. ASSUME NEW h \in Hosts, SetCredentials(h)
      PROVE  AuthInv'
  <2>1. PICK c \in {Of("password")} \union {Credential("token", l) : l \in GivenLifetimes} :
          credentials' = [credentials EXCEPT ![h] = c]
    BY <1>7 DEF SetCredentials
  <2>2. \A l \in GivenLifetimes : l \in Nat /\ l < Never
    <3> SUFFICES ASSUME NEW g \in Endpoints, NEW l \in Lifetimes[g] PROVE l \in Nat /\ l < Never
      BY AuthAssumption DEF GivenLifetimes, Range
    <3> QED BY CredentialFacts
  <2>3. /\ c \in CredentialSet
        /\ c.kind # "token" => c.left = Never
        /\ c # Of("token")
    <3>1. CASE c = Of("password")
      BY <3>1, CredentialFacts DEF Of, Credential
    <3>2. ASSUME NEW l \in GivenLifetimes, c = Credential("token", l)
          PROVE  c \in CredentialSet /\ c.kind = "token" /\ c # Of("token")
      BY <2>2, <3>2, CredentialFacts DEF Of, Credential, CredentialSet
    <3> QED BY <2>1, <3>1, <3>2
  <2>4. /\ credentials' \in [Hosts -> CredentialSet]
        /\ \A g \in Hosts : credentials'[g].kind # "token" => credentials'[g].left = Never
        /\ TokensExpire'
    BY <2>1, <2>3, OneCredential
  <2> QED BY <1>7, <2>4 DEF SetCredentials, AuthInv, AuthTypeOK, CredentialSet
<1>8. ASSUME NEW h \in Hosts, EndpointChanges(h)
      PROVE  AuthInv'
  BY <1>8 DEF EndpointChanges, AuthInv, AuthTypeOK, CredentialSet, TokensExpire
<1>9. CASE Tick
  BY <1>9, TickStep
<1>10. CASE UNCHANGED authVars
  BY <1>10 DEF authVars, AuthInv, AuthTypeOK, CredentialSet, TokensExpire
<1> QED BY <1>1, <1>2, <1>3, <1>4, <1>5, <1>6, <1>7, <1>8, <1>9, <1>10 DEF AuthNext

(* Credentials, tokens and the request under way keep their types, and a    *)
(* request with a refresh token is made only where one is held.             *)
THEOREM AuthTypesAreCorrect == AuthSpec => []AuthTypeOK
<1>1. AuthInv => AuthTypeOK
  BY DEF AuthInv
<1> QED BY <1>1, AuthStart, AuthStep, PTL DEF AuthSpec

(* A cached token has an expiry unless its endpoint is one that may not     *)
(* tell lifetimes, whatever grants, refreshes, failures and fallbacks to    *)
(* the environment went before, for any registries and lifetimes:           *)
(* TokensExpire.                                                            *)
THEOREM TokensAlwaysExpire == AuthSpec => []TokensExpire
<1>1. AuthInv => TokensExpire
  BY DEF AuthInv
<1> QED BY <1>1, AuthStart, AuthStep, PTL DEF AuthSpec

-----------------------------------------------------------------------------
(* Multiplying a delay, converted back to an integer, stays a duration. *)
LEMMA ScaledIsDuration ==
  ASSUME NEW d \in Duration
  PROVE  Scaled(d) \subseteq Duration
<1> DEFINE product == Truncated(d * Multiplier)
<1>1. Scaled(d) = IF product \in Duration THEN {product} ELSE {-(IntMax + 1), IntMax}
  BY DEF Scaled
<1>2. -(IntMax + 1) \in Duration /\ IntMax \in Duration
  BY RetryAssumption DEF Duration
<1> HIDE DEF product
<1> QED BY <1>1, <1>2

(* The sum of a delay and its jitter is wrapped into a duration. *)
LEMMA WrapIsDuration ==
  ASSUME NEW n \in Int
  PROVE  Wrap(n) \in Duration
<1> DEFINE size == 2 * (IntMax + 1)
<1>1. size \in Int /\ size > 0
  BY RetryAssumption
<1>2. (n + IntMax + 1) % size \in 0 .. size - 1
  <2> HIDE DEF size
  <2> QED BY <1>1, RetryAssumption
<1> QED
  BY <1>2, RetryAssumption DEF Wrap, Duration

(* Whatever the delay has become, the timer is set to a duration that does *)
(* not exceed MaxDelay.                                                     *)
LEMMA WaitIsBounded ==
  ASSUME NEW d \in Duration, NEW w \in Waits(d)
  PROVE  w \in Duration /\ w <= MaxDelay
<1>1. PICK v \in Jittered(d) : w = AtMostMaxDelay(v)
  BY DEF Waits
<1>2. v \in Duration
  <2>1. CASE Jitter
    <3> DEFINE quarter == IF d < 0 THEN (-d) \div 4 ELSE d \div 4
    <3>1. quarter \in Int
      BY RetryAssumption DEF Duration
    <3>2. PICK j \in -quarter .. quarter : v = Wrap(d + j)
      BY <2>1 DEF Jittered
    <3> QED BY <3>1, <3>2, WrapIsDuration, RetryAssumption DEF Duration
  <2>2. CASE ~Jitter
    BY <2>2 DEF Jittered
  <2> QED BY <2>1, <2>2
<1> QED
  BY <1>1, <1>2, RetryAssumption DEF AtMostMaxDelay, Duration

------------------------------------------------------------------------------
(* The inductive invariant: how many times the operation has returned is    *)
(* what the loop variable and the position in the loop say, the caller has  *)
(* been told something exactly when the loop is left, the loop only reaches *)
(* the timer with attempts left, and after a late call the loop is on its   *)
(* way out.                                                                  *)
Counted ==
  /\ stage \in {"call", "running"} => returned = attempt
  /\ stage \in {"check", "sleep"} => returned = attempt + 1 /\ attempt < MaxRetries

ToldAtTheEnd == stage = "done" <=> result # "pending"

LateCallIsLast ==
  /\ lateCalls <= 1
  /\ lateCalls = 1 => cancelled /\ stage \in {"running", "check", "done"}

RetryInv ==
  /\ RetryTypeOK
  /\ Counted
  /\ ToldAtTheEnd
  /\ NeverWaitsTooLong
  /\ LateCallIsLast

(* The initial state satisfies the invariant. *)
LEMMA InitInv == RetryInit => RetryInv
<1> SUFFICES ASSUME RetryInit PROVE RetryInv
  OBVIOUS
<1> USE DEF RetryInit
<1>1. RetryTypeOK
  <2>1. delay \in Duration /\ wait \in Duration
    BY RetryAssumption DEF Duration
  <2>2. cancelled \in BOOLEAN
    OBVIOUS
  <2>3. attempt \in 0 .. MaxRetries /\ returned \in 0 .. MaxRetries + 1 /\ lateCalls \in Nat
    BY RetryAssumption
  <2> QED BY <2>1, <2>2, <2>3 DEF RetryTypeOK
<1>2. Counted
  BY DEF Counted
<1>3. ToldAtTheEnd
  BY DEF ToldAtTheEnd
<1>4. NeverWaitsTooLong
  BY DEF NeverWaitsTooLong
<1>5. LateCallIsLast
  BY DEF LateCallIsLast
<1> QED BY <1>1, <1>2, <1>3, <1>4, <1>5 DEF RetryInv

(* Every step of the loop, and a cancellation, preserves the invariant. *)
LEMMA StepInv == RetryInv /\ [RetryNext]_retryVars => RetryInv'
<1> SUFFICES ASSUME RetryInv, [RetryNext]_retryVars PROVE RetryInv'
  OBVIOUS
<1> USE RetryAssumption
    DEF RetryInv, RetryTypeOK, Counted, ToldAtTheEnd, NeverWaitsTooLong, LateCallIsLast
<1>1. CASE Call
  BY <1>1 DEF Call
<1>2. CASE ReturnSuccess
  BY <1>2 DEF ReturnSuccess, Returns, Finish
<1>3. ASSUME NEW e \in Errors, ReturnError(e) PROVE RetryInv'
  <2>1. CASE IsRetryable(e) /\ attempt < MaxRetries
    BY <1>3, <2>1 DEF ReturnError, Returns, TryAgain
  <2>2. CASE ~(IsRetryable(e) /\ attempt < MaxRetries)
    BY <1>3, <2>2 DEF ReturnError, Returns, Finish
  <2> QED BY <2>1, <2>2
<1>4. CASE SeeCancelled
  BY <1>4 DEF SeeCancelled, Finish
<1>5. CASE StartTimer
  <2>1. wait' \in Duration /\ wait' <= MaxDelay
    BY <1>5, WaitIsBounded DEF StartTimer
  <2> QED BY <1>5, <2>1 DEF StartTimer
<1>6. CASE TimerFires
  <2>1. delay' \in Duration
    BY <1>6, ScaledIsDuration DEF TimerFires
  <2> QED BY <1>6, <2>1 DEF TimerFires
<1>7. CASE Cancel
  BY <1>7 DEF Cancel
<1>8. CASE UNCHANGED retryVars
  BY <1>8 DEF retryVars
<1> QED
  BY <1>1, <1>2, <1>3, <1>4, <1>5, <1>6, <1>7, <1>8 DEF RetryNext, Loop

(* The invariant holds in every reachable state. *)
THEOREM RetryInvariance == RetrySpec => []RetryInv
BY InitInv, StepInv, PTL DEF RetrySpec

(* Type correctness; in particular the loop variable never passes MaxRetries *)
(* and the operation never returns more than MaxRetries + 1 times.           *)
THEOREM TypeCorrect == RetrySpec => []RetryTypeOK
<1>1. RetryInv => RetryTypeOK
  BY DEF RetryInv
<1> QED BY <1>1, RetryInvariance, PTL

(* No timer is ever set beyond MaxDelay, overflow and jitter included. *)
THEOREM WaitsAreBounded == RetrySpec => []NeverWaitsTooLong
<1>1. RetryInv => NeverWaitsTooLong
  BY DEF RetryInv
<1> QED BY <1>1, RetryInvariance, PTL

(* At most one operation begins after the caller's context is cancelled. *)
THEOREM CancellationIsPrompt == RetrySpec => []OneCallAfterCancellation
<1>1. RetryInv => OneCallAfterCancellation
  BY DEF RetryInv, LateCallIsLast, OneCallAfterCancellation
<1> QED BY <1>1, RetryInvariance, PTL

------------------------------------------------------------------------------
(* The loop implements the contract: an attempt of the contract is the      *)
(* return of the operation with the outcome IsRetryable sees in it, an      *)
(* abandoned call is the loop seeing the cancellation, and every other step *)
(* of the loop is a stutter.  So nothing is tried again after a success or  *)
(* a final error, and a transient error is not the end while there are      *)
(* attempts left.                                                           *)
THEOREM LoopImplementsContract == RetrySpec => ImplementsContract
<1> USE RetryAssumption
<1>1. RetryInit => Contract!Init
  BY DEF RetryInit, Contract!Init, LastOutcome
<1>2. RetryInv /\ [RetryNext]_retryVars
        => [Contract!Next]_<<returned, cancelled, LastOutcome, result>>
  <2> SUFFICES ASSUME RetryInv, [RetryNext]_retryVars
               PROVE  [Contract!Next]_<<returned, cancelled, LastOutcome, result>>
    OBVIOUS
  <2>0. /\ returned \in Nat /\ stage # "done" => result = "pending"
        /\ stage = "running" => returned = attempt /\ attempt \in 0 .. MaxRetries
        /\ stage \in {"check", "sleep"} => result = "pending"
    BY DEF RetryInv, RetryTypeOK, Counted, ToldAtTheEnd
  <2>1. CASE ReturnSuccess
    <3>1. LastOutcome' = "success"
      BY <2>0, <2>1 DEF ReturnSuccess, Returns, LastOutcome
    <3>2. Contract!Attempt("success")
      BY <2>0, <2>1, <3>1 DEF ReturnSuccess, Returns, Finish, Contract!Attempt, Contract!Verdict
    <3> QED BY <3>2 DEF Contract!Next, Contract!Outcomes
  <2>2. ASSUME NEW e \in Errors, ReturnError(e)
        PROVE  Contract!Next
    <3> DEFINE o == IF IsRetryable(e) THEN "transient" ELSE "final"
    <3>1. LastOutcome' = o
      BY <2>0, <2>2 DEF ReturnError, Returns, LastOutcome
    <3>2. result' = Contract!Verdict(returned + 1, o)
      <4>1. CASE IsRetryable(e) /\ attempt < MaxRetries
        BY <2>0, <2>2, <4>1 DEF ReturnError, Returns, TryAgain, Contract!Verdict
      <4>2. CASE ~(IsRetryable(e) /\ attempt < MaxRetries)
        BY <2>0, <2>2, <4>2 DEF ReturnError, Returns, Finish, Contract!Verdict
      <4> QED BY <4>1, <4>2
    <3>3. Contract!Attempt(o)
      BY <2>0, <2>2, <3>1, <3>2 DEF ReturnError, Returns, Contract!Attempt
    <3> QED BY <3>3 DEF Contract!Next, Contract!Outcomes
  <2>3. CASE SeeCancelled
    BY <2>0, <2>3 DEF SeeCancelled, Finish, Contract!Next, Contract!Abandon, LastOutcome
  <2>4. CASE Cancel
    BY <2>4 DEF Cancel, Contract!Next, Contract!Cancel, LastOutcome
  <2>5. CASE Call \/ StartTimer \/ TimerFires
    BY <2>5 DEF Call, StartTimer, TimerFires, LastOutcome
  <2>6. CASE UNCHANGED retryVars
    BY <2>6 DEF retryVars, LastOutcome
  <2> QED
    BY <2>1, <2>2, <2>3, <2>4, <2>5, <2>6 DEF RetryNext, Loop
<1> QED
  BY <1>1, <1>2, RetryInvariance, PTL
  DEF RetrySpec, ImplementsContract, Contract!Spec, Contract!contractVars

------------------------------------------------------------------------------
(* HTTP requests.  A step of the HTTP client is a step of the loop, so all  *)
(* that is proved of the loop holds under it.                               *)
LEMMA HTTPStepIsLoopStep == [HTTPNext]_allVars => [RetryNext]_retryVars
<1> SUFFICES ASSUME HTTPNext PROVE [RetryNext]_retryVars
  BY DEF allVars
<1>1. ASSUME NEW e \in TransportErrors, SendFails(e) PROVE RetryNext
  <2>1. e \in Errors
    BY HTTPAssumption
  <2> QED BY <1>1, <2>1 DEF SendFails, RetryNext, Loop
<1>2. ASSUME NEW status \in Statuses, Respond(status) PROVE RetryNext
  <2>1. CASE IsHTTPRetryable(status)
    <3>1. WrapHTTPError(status) \in Errors
      BY <2>1, HTTPAssumption
    <3>2. ReturnError(WrapHTTPError(status))
      BY <1>2, <2>1 DEF Respond
    <3> QED BY <3>1, <3>2 DEF RetryNext, Loop
  <2>2. CASE ~IsHTTPRetryable(status)
    BY <1>2, <2>2 DEF Respond, RetryNext, Loop
  <2> QED BY <2>1, <2>2
<1>3. CASE OtherReturns
  BY <1>3 DEF OtherReturns, RetryNext, Loop
<1>4. CASE LoopStep
  BY <1>4 DEF LoopStep, RetryNext, Loop
<1>5. CASE CallerCancels
  BY <1>5 DEF CallerCancels, RetryNext
<1> QED
  BY <1>1, <1>2, <1>3, <1>4, <1>5 DEF HTTPNext

(* The loop's invariant holds of RetryableHTTPClient.Do too: bodies and     *)
(* responses come beside the loop and never change its course.              *)
THEOREM HTTPInvariance == HTTPSpec => []RetryInv
<1>1. HTTPInit => RetryInv
  BY InitInv DEF HTTPInit
<1>2. RetryInv /\ [HTTPNext]_allVars => RetryInv'
  BY HTTPStepIsLoopStep, StepInv
<1> QED BY <1>1, <1>2, PTL DEF HTTPSpec

(* A response body is open only when the loop has succeeded with it. *)
LEMMA HTTPInitRight == HTTPInit => ResponsesAreRight
BY DEF HTTPInit, RetryInit, ResponsesAreRight, OnlyTheAnswerIsOpen, AcceptedWhole

LEMMA HTTPStepRight == RetryInv /\ ResponsesAreRight /\ [HTTPNext]_allVars => ResponsesAreRight'
<1> SUFFICES ASSUME RetryInv, ResponsesAreRight, [HTTPNext]_allVars
             PROVE  ResponsesAreRight'
  OBVIOUS
<1> USE DEF ResponsesAreRight, OnlyTheAnswerIsOpen, AcceptedWhole
<1>0. stage # "done" => result = "pending"
  BY DEF RetryInv, ToldAtTheEnd
<1>1. ASSUME NEW e \in TransportErrors, SendFails(e) PROVE ResponsesAreRight'
  <2>1. result = "pending" /\ result' # "ok"
    BY <1>0, <1>1 DEF SendFails, ReturnError, Returns, TryAgain, Finish
  <2> QED BY <1>1, <2>1 DEF SendFails
<1>2. ASSUME NEW status \in Statuses, Respond(status) PROVE ResponsesAreRight'
  <2>1. CASE IsHTTPRetryable(status)
    <3>1. result = "pending" /\ result' # "ok" /\ UNCHANGED <<open, request>>
      BY <1>0, <1>2, <2>1 DEF Respond, ReturnError, Returns, TryAgain, Finish
    <3> QED BY <3>1
  <2>2. CASE ~IsHTTPRetryable(status)
    <3>1. /\ result = "pending" /\ result' = "ok" /\ returned' = returned + 1
          /\ open' = open \cup {returned + 1} /\ request' = request /\ request # "other"
      BY <1>0, <1>2, <2>2 DEF Respond, ReturnSuccess, Returns, Finish
    <3>2. open' = {returned'}
      BY <3>1
    <3>3. PICK left \in LeftAfter(status) :
            response' = [status |-> status, got |-> unread - left]
      BY <1>2 DEF Respond
    <3>4. request = "sized" /\ status < 400 => unread - left = BodyLen
      BY <3>3, HTTPAssumption DEF LeftAfter, LengthAnnounced
    <3> QED BY <2>2, <3>1, <3>2, <3>3, <3>4
  <2> QED BY <2>1, <2>2
<1>3. CASE OtherReturns
  BY <1>3 DEF OtherReturns, httpVars
<1>4. CASE LoopStep
  <2>1. result' # "ok" \/ result' = result
    BY <1>4 DEF LoopStep, Call, SeeCancelled, StartTimer, TimerFires, Finish
  <2>2. result = "pending" /\ UNCHANGED httpVars
    BY <1>0, <1>4 DEF LoopStep, Call, SeeCancelled, StartTimer, TimerFires
  <2> QED BY <2>1, <2>2 DEF httpVars
<1>5. CASE CallerCancels
  BY <1>5 DEF CallerCancels, Cancel, httpVars
<1>6. CASE UNCHANGED allVars
  BY <1>6 DEF allVars, retryVars, httpVars
<1> QED
  BY <1>1, <1>2, <1>3, <1>4, <1>5, <1>6 DEF HTTPNext

(* The caller of RetryableHTTPClient.Do gets the response of the last       *)
(* attempt and no other is left open, and a request of known length that    *)
(* was accepted was accepted whole, for every number of retries.            *)
THEOREM ResponsesAreRightAlways == HTTPSpec => []ResponsesAreRight
BY HTTPInitRight, HTTPStepRight, HTTPInvariance, PTL DEF HTTPSpec

(* Under the HTTP client too, at most one operation begins after the        *)
(* caller's context is cancelled.                                           *)
THEOREM HTTPCancellationIsPrompt == HTTPSpec => []OneCallAfterCancellation
<1>1. RetryInv => OneCallAfterCancellation
  BY DEF RetryInv, LateCallIsLast, OneCallAfterCancellation
<1> QED BY <1>1, HTTPInvariance, PTL

------------------------------------------------------------------------------
(* Delays.  The recursive definition of the power computes what it says: a  *)
(* function with its equations exists.                                      *)
LEMMA Least ==
  ASSUME NEW S \in SUBSET Nat, S # {}
  PROVE  \E i \in S : \A j \in S : i <= j
<1>1. PICK i \in S : \A j \in S : ~ (<<j, i>> \in OpToRel(<, Nat))
  BY WFMin, NatLessThanWellFounded
<1>2. \A j \in S : ~ (j < i)
  BY <1>1 DEF OpToRel
<1> QED BY <1>2

LEMMA PowerUnfold ==
  ASSUME NEW b \in Nat
  PROVE  /\ Power(b)[0] = 1
         /\ \A n \in 1 .. MaxRetries : Power(b)[n] = Power(b)[n - 1] * b
<1> DEFINE Value(f, n) == IF n = 0 THEN 1 ELSE f[n - 1] * b
           Has(m) == \E f : f = [n \in 0 .. m |-> Value(f, n)]
           Missing == {m \in 0 .. MaxRetries : ~Has(m)}
<1>1. Missing = {}
  <2> SUFFICES ASSUME Missing # {} PROVE FALSE
    OBVIOUS
  <2>1. PICK m \in Missing : \A j \in Missing : m <= j
    <3>1. Missing \in SUBSET Nat
      OBVIOUS
    <3> HIDE DEF Missing
    <3> QED BY <3>1, Least
  <2>2. CASE m = 0
    <3> DEFINE f == [n \in 0 .. 0 |-> 1]
    <3>1. \A n \in 0 .. 0 : f[n] = Value(f, n)
      OBVIOUS
    <3>2. f = [n \in 0 .. 0 |-> Value(f, n)]
      BY <3>1
    <3>3. Has(0)
      BY <3>2
    <3> HIDE DEF Has
    <3> QED BY <2>2, <3>3
  <2>3. CASE m # 0
    <3>1. m \in 1 .. MaxRetries /\ m - 1 \in 0 .. MaxRetries /\ m - 1 \notin Missing
      <4> HIDE DEF Has
      <4> QED BY <2>1, <2>3, RetryAssumption
    <3>2. PICK f : f = [n \in 0 .. (m - 1) |-> Value(f, n)]
      BY <3>1
    <3> DEFINE g == [n \in 0 .. m |-> IF n = m THEN Value(f, m) ELSE f[n]]
    <3>3. \A n \in 0 .. m : g[n] = Value(g, n)
      <4> SUFFICES ASSUME NEW n \in 0 .. m PROVE g[n] = Value(g, n)
        OBVIOUS
      <4>1. n # 0 => g[n - 1] = f[n - 1]
        BY <3>1
      <4>2. Value(g, n) = Value(f, n)
        <5>1. CASE n = 0
          BY <5>1
        <5>2. CASE n # 0
          <6> HIDE DEF g
          <6> QED BY <4>1, <5>2
        <5> QED BY <5>1, <5>2
      <4>3. n # m => f[n] = Value(f, n)
        <5>1. n # m => n \in 0 .. (m - 1)
          BY <3>1
        <5> HIDE DEF Value
        <5> QED BY <3>2, <5>1
      <4> HIDE DEF Value
      <4> QED BY <4>2, <4>3
    <3>4. g = [n \in 0 .. m |-> Value(g, n)]
      <4> HIDE DEF Value
      <4> QED BY <3>3
    <3>5. Has(m)
      BY <3>4
    <3> HIDE DEF Has
    <3> QED BY <2>1, <3>5
  <2> QED BY <2>2, <2>3
<1> DEFINE Right(f) == f = [n \in 0 .. MaxRetries |-> Value(f, n)]
<1>2. \E f : Right(f)
  <2>1. Has(MaxRetries)
    <3> HIDE DEF Has
    <3> QED BY <1>1, RetryAssumption
  <2> QED BY <2>1
<1>3. Right(CHOOSE f : Right(f))
  BY <1>2
<1>4. Right(Power(b))
  BY <1>3 DEF Power
<1>5. \A n \in 0 .. MaxRetries : Power(b)[n] = Value(Power(b), n)
  <2> HIDE DEF Value
  <2> QED BY <1>4
<1> QED BY <1>5, RetryAssumption

LEMMA PowerIsPositive ==
  ASSUME NEW b \in Nat \ {0}
  PROVE  \A n \in 0 .. MaxRetries : Power(b)[n] \in Nat \ {0}
<1> DEFINE Bad == {n \in 0 .. MaxRetries : Power(b)[n] \notin Nat \ {0}}
<1>1. Bad = {}
  <2> SUFFICES ASSUME Bad # {} PROVE FALSE
    OBVIOUS
  <2>1. PICK m \in Bad : \A j \in Bad : m <= j
    <3>1. Bad \in SUBSET Nat
      OBVIOUS
    <3> HIDE DEF Bad
    <3> QED BY <3>1, Least
  <2>2. m \in 1 .. MaxRetries
    BY <2>1, PowerUnfold, RetryAssumption
  <2>3. Power(b)[m - 1] \in Nat \ {0}
    BY <2>1, <2>2, RetryAssumption
  <2>4. Power(b)[m] = Power(b)[m - 1] * b
    BY <2>2, PowerUnfold
  <2>5. \A x, y \in Nat \ {0} : x * y \in Nat \ {0}
    OBVIOUS
  <2> QED BY <2>1, <2>3, <2>4, <2>5
<1> QED BY <1>1

(* Products and quotients of integers. *)
LEMMA Times ==
  /\ \A x, y \in Int : x * y \in Int /\ x * y = y * x
  /\ \A x, y, z \in Int : (x * y) * z = x * (y * z)
  /\ \A x, y \in Int : \A z \in Nat : x <= y => x * z <= y * z
OBVIOUS

LEMMA Division ==
  ASSUME NEW a \in Int, NEW c \in Nat \ {0}
  PROVE  a \div c \in Int /\ c * (a \div c) <= a /\ a < c * (a \div c) + c
OBVIOUS

LEMMA QuotientIsLargest ==
  ASSUME NEW a \in Int, NEW c \in Nat \ {0}, NEW q \in Int, q * c <= a
  PROVE  q <= a \div c
<1> DEFINE r == a \div c
<1>1. r \in Int /\ a < c * r + c
  BY Division
<1> HIDE DEF r
<1> SUFFICES ASSUME r < q PROVE FALSE
  BY <1>1 DEF r
<1>2. (r + 1) * c <= q * c
  BY <1>1, Times
<1>3. (r + 1) * c = c * r + c /\ c * r \in Int /\ q * c \in Int
  BY <1>1
<1> QED BY <1>1, <1>2, <1>3

(* A higher multiplier has the higher powers. *)
LEMMA PowerGrows ==
  ASSUME NEW b \in Nat \ {0}, NEW c \in Nat \ {0}, b <= c
  PROVE  \A n \in 0 .. MaxRetries : Power(b)[n] <= Power(c)[n]
<1> DEFINE Bad == {n \in 0 .. MaxRetries : ~(Power(b)[n] <= Power(c)[n])}
<1>1. Bad = {}
  <2> SUFFICES ASSUME Bad # {} PROVE FALSE
    OBVIOUS
  <2>1. PICK m \in Bad : \A j \in Bad : m <= j
    <3>1. Bad \in SUBSET Nat
      OBVIOUS
    <3> HIDE DEF Bad
    <3> QED BY <3>1, Least
  <2>2. m # 0
    <3>1. Power(b)[0] = 1 /\ Power(c)[0] = 1
      BY PowerUnfold
    <3> QED BY <2>1, <3>1
  <2>3. m \in 1 .. MaxRetries /\ m - 1 \in 0 .. MaxRetries /\ m - 1 \notin Bad
    <3>1. m \in 0 .. MaxRetries
      BY <2>1
    <3>2. m - 1 \notin Bad
      <4> HIDE DEF Bad
      <4> QED BY <2>1, <3>1, RetryAssumption
    <3> QED BY <2>2, <3>1, <3>2, RetryAssumption
  <2>4. /\ Power(b)[m] = Power(b)[m - 1] * b /\ Power(c)[m] = Power(c)[m - 1] * c
        /\ Power(b)[m - 1] <= Power(c)[m - 1]
        /\ Power(b)[m - 1] \in Nat /\ Power(c)[m - 1] \in Nat
    BY <2>3, PowerUnfold, PowerIsPositive
  <2>5. \A x, y \in Nat : x <= y => x * b <= y * c
    <3> SUFFICES ASSUME NEW x \in Nat, NEW y \in Nat, x <= y PROVE x * b <= y * c
      OBVIOUS
    <3>1. x * b <= y * b /\ b * y <= c * y
      BY Times
    <3>2. b * y = y * b /\ c * y = y * c /\ x * b \in Int /\ y * b \in Int /\ y * c \in Int
      BY Times
    <3> QED BY <3>1, <3>2
  <2> QED BY <2>1, <2>4, <2>5
<1> QED BY <1>1

(* One multiplication, cut off: i, p and c stand for the initial delay and  *)
(* the n-th powers of m and u.                                              *)
LEMMA OneStep ==
  ASSUME NEW i \in Nat, NEW n \in Nat, NEW m \in Nat \ {0}, NEW u \in Nat \ {0}, u <= m,
         NEW p \in Nat \ {0}, NEW c \in Nat \ {0}, c <= p,
         NEW d \in Nat, d * c <= i * p, (i - n) * p <= d * c,
         NEW q, q = (d * m) \div u
  PROVE  /\ q \in Nat /\ d <= q
         /\ q * (c * u) <= i * (p * m)
         /\ (i - (n + 1)) * (p * m) <= q * (c * u)
         /\ u = 1 /\ d * c = i * p => q * (c * u) = i * (p * m)
<1>1. d * m \in Nat
  OBVIOUS
<1>2. q \in Int /\ u * q <= d * m /\ d * m < u * q + u
  BY <1>1, Division
<1>3. d <= q
  <2>1. u * d <= m * d
    BY Times
  <2>2. d * u <= d * m
    BY <2>1, Times
  <2> QED BY <1>1, <2>2, QuotientIsLargest
<1>4. q * (c * u) = (u * q) * c
  BY <1>2, Times
<1>5. (d * m) * c = (d * c) * m /\ (i * p) * m = i * (p * m)
  BY Times
<1>6. q * (c * u) <= i * (p * m)
  <2>1. (u * q) * c <= (d * m) * c
    BY <1>1, <1>2, Times
  <2>2. (d * c) * m <= (i * p) * m
    BY Times
  <2>3. (u * q) * c \in Int /\ (d * c) * m \in Int /\ i * (p * m) \in Int
    BY <1>2, Times
  <2> QED BY <1>4, <1>5, <2>1, <2>2, <2>3
<1>7. (i - (n + 1)) * (p * m) <= q * (c * u)
  <2>1. ((i - n) * p) * m <= (d * c) * m
    BY Times
  <2>2. (d * m) * c <= (u * q + u) * c
    BY <1>1, <1>2, Times
  <2>3. (u * q + u) * c = q * (c * u) + u * c
    <3>1. (u * q + u) * c = (u * q) * c + u * c
      BY <1>2
    <3> QED BY <1>4, <3>1
  <2>4. u * c <= p * m
    <3>1. u * c <= m * c /\ c * m <= p * m
      BY Times
    <3> QED BY <3>1, Times
  <2>5. (i - (n + 1)) * (p * m) = ((i - n) * p) * m - p * m
    <3> DEFINE k == i - n
    <3>1. k \in Int /\ i - (n + 1) = k - 1
      OBVIOUS
    <3> HIDE DEF k
    <3>2. (k - 1) * (p * m) = k * (p * m) - p * m
      BY <3>1
    <3>3. k * (p * m) = (k * p) * m
      BY <3>1, Times
    <3> QED BY <3>1, <3>2, <3>3 DEF k
  <2>6. /\ ((i - n) * p) * m \in Int /\ (d * c) * m \in Int /\ (d * m) * c \in Int
        /\ q * (c * u) \in Int /\ u * c \in Int /\ p * m \in Int
    BY <1>2, Times
  <2> QED BY <1>5, <2>1, <2>2, <2>3, <2>4, <2>5, <2>6
<1>8. ASSUME u = 1, d * c = i * p
      PROVE  q * (c * u) = i * (p * m)
  <2>1. q = d * m
    BY <1>1, <1>2, <1>8
  <2>2. q * (c * u) = (d * m) * c
    BY <1>1, <1>8, <2>1
  <2> QED BY <1>5, <1>8, <2>2
<1> QED BY <1>2, <1>3, <1>6, <1>7, <1>8

(* A product that fits fitted before its last factor too. *)
LEMMA PowersOfTheMultiplier ==
  ASSUME Multiplier >= Unit, NEW n \in 0 .. MaxRetries
  PROVE  /\ Multiplier \in Nat \ {0} /\ Unit \in Nat \ {0}
         /\ Power(Multiplier)[n] \in Nat \ {0} /\ Power(Unit)[n] \in Nat \ {0}
         /\ Power(Unit)[n] <= Power(Multiplier)[n]
<1>1. Multiplier \in Nat \ {0} /\ Unit \in Nat \ {0}
  BY RetryAssumption
<1> QED BY <1>1, PowerIsPositive, PowerGrows

LEMMA ProductsAreNaturals ==
  ASSUME Multiplier >= Unit, NEW n \in 0 .. MaxRetries
  PROVE  Product(InitialDelay, n) \in Nat
<1> DEFINE p == Power(Multiplier)[n]  c == Power(Unit)[n]
<1>1. p \in Nat \ {0} /\ c \in Nat \ {0} /\ InitialDelay \in Nat
  BY PowersOfTheMultiplier, RetryAssumption
<1>2. Product(InitialDelay, n) = (InitialDelay * p) \div c
  BY DEF Product
<1> HIDE DEF p, c
<1>3. InitialDelay * p \in Nat
  BY <1>1
<1>4. (InitialDelay * p) \div c \in Int
  BY <1>1, <1>3, Division
<1>5. 0 * c <= InitialDelay * p
  BY <1>1, <1>3
<1>6. 0 <= (InitialDelay * p) \div c
  BY <1>1, <1>3, <1>5, QuotientIsLargest
<1> QED BY <1>2, <1>4, <1>6

LEMMA FitsBefore ==
  ASSUME Multiplier >= Unit, NEW n \in 0 .. MaxRetries, n + 1 <= MaxRetries, Fits(n + 1)
  PROVE  Fits(n)
<1> DEFINE p == Power(Multiplier)[n]  c == Power(Unit)[n]
           m == Multiplier  u == Unit  i == InitialDelay  q == Product(InitialDelay, n)
<1>1. n + 1 \in 1 .. MaxRetries /\ n + 1 \in 0 .. MaxRetries /\ (n + 1) - 1 = n
  BY RetryAssumption
<1>2. /\ p \in Nat \ {0} /\ c \in Nat \ {0} /\ i \in Nat
      /\ m \in Nat \ {0} /\ u \in Nat \ {0} /\ u <= m
  BY PowersOfTheMultiplier, RetryAssumption
<1>3. Power(Multiplier)[n + 1] = p * m /\ Power(Unit)[n + 1] = c * u
  BY <1>1, <1>2, PowerUnfold
<1>4. q = (i * p) \div c /\ Product(InitialDelay, n + 1) = (i * (p * m)) \div (c * u)
  BY <1>3 DEF Product
<1>5. q \in Nat /\ Product(InitialDelay, n + 1) \in Nat
  BY <1>1, ProductsAreNaturals
<1> HIDE DEF p, c, m, u, i, q
<1>6. c * q <= i * p
  BY <1>2, <1>4, Division
<1>7. q * (c * u) <= i * (p * m)
  <2>1. (c * q) * u <= (i * p) * u
    BY <1>2, <1>5, <1>6, Times
  <2>2. u * (i * p) <= m * (i * p)
    BY <1>2, Times
  <2>3. (c * q) * u = q * (c * u) /\ (i * p) * u = u * (i * p) /\ m * (i * p) = i * (p * m)
    BY <1>2, <1>5, Times
  <2>4. q * (c * u) \in Int /\ u * (i * p) \in Int /\ i * (p * m) \in Int
    BY <1>2, <1>5, Times
  <2> QED BY <2>1, <2>2, <2>3, <2>4
<1>8. i * (p * m) \in Int /\ c * u \in Nat \ {0}
  BY <1>2
<1>9. q <= Product(InitialDelay, n + 1)
  BY <1>4, <1>5, <1>7, <1>8, QuotientIsLargest
<1> QED BY <1>5, <1>9, RetryAssumption DEF Fits, q

(* As long as the product fits the delay is close to it, it never shrinks,  *)
(* and it is the product when the multiplier is a whole number.             *)
Close(d, n) ==
  LET i == InitialDelay  p == Power(Multiplier)[n]  c == Power(Unit)[n]
  IN  /\ d * c <= i * p
      /\ (i - n) * p <= d * c
      /\ i <= d
      /\ Unit = 1 => d * c = i * p

DelayIsClose == Fits(attempt) => Close(delay, attempt)

LEMMA CloseIsCalculated ==
  ASSUME Multiplier >= Unit, NEW n \in 0 .. MaxRetries, NEW d \in Int, Close(d, n)
  PROVE  /\ d \in Nat /\ InitialDelay <= d /\ d <= Product(InitialDelay, n)
         /\ d >= Product(InitialDelay - n, n)
         /\ Unit = 1 => d = Product(InitialDelay, n)
<1> DEFINE p == Power(Multiplier)[n]  c == Power(Unit)[n]  i == InitialDelay
           low == (i - n) * p
<1>1. p \in Nat \ {0} /\ c \in Nat \ {0} /\ i \in Nat
  BY PowersOfTheMultiplier, RetryAssumption
<1>2. /\ d * c <= i * p /\ low <= d * c /\ i <= d /\ (Unit = 1 => d * c = i * p)
      /\ Product(InitialDelay, n) = (i * p) \div c
      /\ Product(InitialDelay - n, n) = low \div c
  BY DEF Close, Product
<1>3. n \in Nat /\ i - n \in Int
  BY <1>1, RetryAssumption
<1> HIDE DEF p, c, i
<1>4. low \in Int /\ i * p \in Int
  BY <1>1, <1>3, Times
<1> HIDE DEF low
<1>5. d <= (i * p) \div c
  BY <1>1, <1>2, <1>4, QuotientIsLargest
<1>6. low \div c <= d
  <2> DEFINE r == low \div c
  <2>1. r \in Int /\ c * r <= low
    BY <1>1, <1>4, Division
  <2> HIDE DEF r
  <2> SUFFICES ASSUME d + 1 <= r PROVE FALSE
    BY <2>1 DEF r
  <2>2. (d + 1) * c <= r * c
    BY <1>1, <2>1, Times
  <2>3. (d + 1) * c = d * c + c /\ r * c = c * r /\ d * c \in Int /\ c * r \in Int
    BY <1>1, <2>1
  <2> QED BY <1>1, <1>2, <1>4, <2>1, <2>2, <2>3
<1>7. ASSUME Unit = 1 PROVE d = (i * p) \div c
  <2> DEFINE r == (i * p) \div c
  <2>1. r \in Int /\ c * r <= i * p /\ d * c = i * p /\ d <= r
    BY <1>1, <1>2, <1>4, <1>5, <1>7, Division
  <2> HIDE DEF r
  <2> SUFFICES ASSUME d + 1 <= r PROVE FALSE
    BY <2>1 DEF r
  <2>2. (d + 1) * c <= r * c
    BY <1>1, <2>1, Times
  <2>3. (d + 1) * c = d * c + c /\ r * c = c * r /\ d * c \in Int /\ c * r \in Int
    BY <1>1, <2>1
  <2> QED BY <1>1, <1>4, <2>1, <2>2, <2>3
<1>8. d \in Nat
  BY <1>1, <1>2
<1> QED BY <1>2, <1>5, <1>6, <1>7, <1>8 DEF i

LEMMA StepDelay ==
  ASSUME Multiplier >= Unit, RetryInv, DelayIsClose, [RetryNext]_retryVars
  PROVE  DelayIsClose'
<1>1. CASE TimerFires
  <2>1. /\ attempt \in 0 .. MaxRetries /\ attempt + 1 \in 1 .. MaxRetries
        /\ attempt + 1 \in 0 .. MaxRetries
        /\ attempt' = attempt + 1 /\ attempt + 1 <= MaxRetries
        /\ delay' \in Scaled(delay) /\ (attempt + 1) - 1 = attempt
    BY <1>1, RetryAssumption DEF TimerFires, RetryInv, RetryTypeOK, Counted
  <2> SUFFICES ASSUME Fits(attempt + 1)
               PROVE  Close(delay', attempt + 1)
    BY <2>1 DEF DelayIsClose, Fits, Close, Product, Power
  <2>2. Fits(attempt) /\ Close(delay, attempt)
    BY <2>1, FitsBefore DEF DelayIsClose
  <2> DEFINE p == Power(Multiplier)[attempt]  c == Power(Unit)[attempt]
             m == Multiplier  u == Unit  i == InitialDelay  q == (delay * m) \div u
  <2>3. /\ p \in Nat \ {0} /\ c \in Nat \ {0} /\ i \in Nat /\ attempt \in Nat
        /\ m \in Nat \ {0} /\ u \in Nat \ {0} /\ u <= m /\ c <= p
    BY <2>1, PowersOfTheMultiplier, RetryAssumption
  <2>4. delay \in Int
    BY RetryAssumption DEF RetryInv, RetryTypeOK, Duration
  <2>5. delay \in Nat
    BY <2>1, <2>2, <2>4, CloseIsCalculated
  <2>6. /\ delay * c <= i * p /\ (i - attempt) * p <= delay * c /\ i <= delay
        /\ (u = 1 => delay * c = i * p)
    BY <2>2 DEF Close
  <2>7. Power(Multiplier)[attempt + 1] = p * m /\ Power(Unit)[attempt + 1] = c * u
    BY <2>1, <2>3, PowerUnfold
  <2>8. /\ q \in Nat /\ delay <= q /\ q * (c * u) <= i * (p * m)
        /\ (i - (attempt + 1)) * (p * m) <= q * (c * u)
        /\ u = 1 /\ delay * c = i * p => q * (c * u) = i * (p * m)
    <3> HIDE DEF p, c, m, u, i
    <3> QED BY <2>3, <2>5, <2>6, OneStep
  <2>9. i <= q
    <3> HIDE DEF q
    <3> QED BY <2>3, <2>5, <2>6, <2>8
  <2>10. Close(q, attempt + 1)
    <3> HIDE DEF q
    <3> QED BY <2>6, <2>7, <2>8, <2>9 DEF Close
  <2>11. delay' = q
    <3>1. q <= Product(InitialDelay, attempt + 1)
      <4> HIDE DEF q
      <4> QED BY <2>1, <2>8, <2>10, CloseIsCalculated
    <3>2. Product(InitialDelay, attempt + 1) \in Nat
      BY <2>1, ProductsAreNaturals
    <3>3. q \in Duration
      <4> HIDE DEF q
      <4> QED BY <2>8, <3>1, <3>2, RetryAssumption DEF Fits, Duration
    <3>4. delay * m \in Nat
      BY <2>3, <2>5
    <3>5. Truncated(delay * m) = q
      <4>1. ~(delay * m < 0)
        BY <3>4
      <4> QED BY <4>1 DEF Truncated
    <3> HIDE DEF q
    <3> QED BY <2>1, <3>3, <3>5 DEF Scaled
  <2> HIDE DEF q
  <2> QED BY <2>10, <2>11
<1>2. CASE ~TimerFires
  <2>1. UNCHANGED <<attempt, delay>>
    BY <1>2 DEF RetryNext, Loop, Call, ReturnSuccess, ReturnError, Returns, SeeCancelled, StartTimer,
                Cancel, retryVars
  <2> QED BY <2>1 DEF DelayIsClose, Fits, Close, Product, Power
<1> QED BY <1>1, <1>2

LEMMA WrapOfFitting ==
  ASSUME NEW n \in 0 .. IntMax
  PROVE  Wrap(n) = n
<1> DEFINE half == IntMax + 1
<1>1. half \in Nat /\ n + half \in 0 .. (2 * half) - 1 /\ 2 * half > 0
  BY RetryAssumption
<1>2. \A a, b \in Nat : a < b => a % b = a
  OBVIOUS
<1>3. (n + half) % (2 * half) = n + half
  <2> HIDE DEF half
  <2> QED BY <1>1, <1>2
<1>4. n + IntMax + 1 = n + half
  BY RetryAssumption
<1> QED BY <1>1, <1>3, <1>4, RetryAssumption DEF Wrap

(* The cut at MaxDelay keeps the order of delays. *)
LEMMA CutIsMonotone ==
  ASSUME NEW x \in Int, NEW y \in Int, x <= y
  PROVE  AtMostMaxDelay(x) <= AtMostMaxDelay(y)
BY RetryAssumption DEF AtMostMaxDelay

LEMMA WaitBacksOff ==
  ASSUME NEW d \in Nat, InitialDelay <= d, NEW b \in Nat, d <= b, b + b \div 4 <= IntMax,
         NEW w \in Waits(d)
  PROVE  w >= AtMostMaxDelay(InitialDelay - InitialDelay \div 4)
<1>1. d + d \div 4 <= IntMax
  BY RetryAssumption
<1>2. PICK v \in Jittered(d) : w = AtMostMaxDelay(v)
  BY DEF Waits
<1>3. v \in Nat /\ v >= d - d \div 4
  <2>1. CASE Jitter
    <3>1. PICK j \in -(d \div 4) .. d \div 4 : v = Wrap(d + j)
      BY <1>2, <2>1 DEF Jittered
    <3>2. d + j \in 0 .. IntMax
      BY <1>1, RetryAssumption
    <3>3. v = d + j
      BY <3>1, <3>2, WrapOfFitting
    <3> QED BY <3>2, <3>3
  <2>2. CASE ~Jitter
    BY <1>2, <2>2 DEF Jittered
  <2> QED BY <2>1, <2>2
<1>4. d - d \div 4 >= InitialDelay - InitialDelay \div 4
  BY RetryAssumption
<1> QED BY <1>2, <1>3, <1>4, RetryAssumption DEF AtMostMaxDelay

(* What is waited is the delay with its jitter. *)
WaitIsJittered == stage = "sleep" => wait \in Waits(delay)

(* For every configuration whose multiplier is a fraction of at least one:  *)
(* the delays of the loop are CalculateDelay's, but for what it cuts off at *)
(* each retry, which is nothing for a whole multiplier; the wait is never   *)
(* beyond MaxDelay, and never too short before the delay and its jitter     *)
(* outgrow their type.  The product is exact: the rounding of a float64,    *)
(* which has 53 bits for it, is left out.                                   *)
THEOREM DelaysAreRightAlways ==
  ASSUME Multiplier >= Unit
  PROVE  RetrySpec => []DelaysAreRight
<1>1. RetryInit => DelayIsClose /\ WaitIsJittered
  <2> SUFFICES ASSUME RetryInit PROVE DelayIsClose
    BY DEF RetryInit, WaitIsJittered
  <2>1. Power(Multiplier)[0] = 1 /\ Power(Unit)[0] = 1 /\ InitialDelay \in Nat
    BY PowerUnfold, RetryAssumption
  <2>2. delay = InitialDelay /\ attempt = 0
    BY DEF RetryInit
  <2> QED BY <2>1, <2>2 DEF DelayIsClose, Close
<1>2. RetryInv /\ DelayIsClose /\ [RetryNext]_retryVars => DelayIsClose'
  BY StepDelay
<1>3. WaitIsJittered /\ [RetryNext]_retryVars => WaitIsJittered'
  <2> SUFFICES ASSUME WaitIsJittered, [RetryNext]_retryVars PROVE WaitIsJittered'
    OBVIOUS
  <2>1. CASE StartTimer
    BY <2>1 DEF StartTimer, WaitIsJittered
  <2>2. CASE ~StartTimer
    <3>1. stage' # "sleep" \/ UNCHANGED <<stage, wait, delay>>
      BY <2>2 DEF RetryNext, Loop, Call, ReturnSuccess, ReturnError, TryAgain, SeeCancelled,
                  TimerFires, Cancel, Finish, retryVars
    <3> QED BY <3>1 DEF WaitIsJittered
  <2> QED BY <2>1, <2>2
<1>4. RetryInv /\ DelayIsClose /\ WaitIsJittered => DelaysAreRight
  <2> SUFFICES ASSUME RetryInv, DelayIsClose, WaitIsJittered PROVE DelaysAreRight
    OBVIOUS
  <2>1. attempt \in 0 .. MaxRetries /\ NeverWaitsTooLong /\ delay \in Int
    BY RetryAssumption DEF RetryInv, RetryTypeOK, Duration
  <2>2. ASSUME Fits(attempt)
        PROVE  /\ delay \in Nat /\ InitialDelay <= delay
               /\ delay <= Product(InitialDelay, attempt)
               /\ delay >= Product(InitialDelay - attempt, attempt)
               /\ Unit = 1 => delay = Product(InitialDelay, attempt)
    BY <2>1, <2>2, CloseIsCalculated DEF DelayIsClose
  <2>3. Product(InitialDelay, attempt) \in Nat /\ Product(InitialDelay - attempt, attempt) \in Int
    <3>1. (InitialDelay - attempt) * Power(Multiplier)[attempt] \in Int
      BY <2>1, PowersOfTheMultiplier, RetryAssumption, Times
    <3>2. Power(Unit)[attempt] \in Nat \ {0}
      BY <2>1, PowersOfTheMultiplier
    <3>3. Product(InitialDelay - attempt, attempt) \in Int
      BY <3>1, <3>2, Division DEF Product
    <3> QED BY <2>1, <3>3, ProductsAreNaturals
  <2>4. DelaysAreCalculateDelay
    BY <2>1, <2>2, <2>3, CutIsMonotone DEF DelaysAreCalculateDelay, CalculateDelay
  <2>5. BacksOff
    <3> SUFFICES ASSUME stage = "sleep", FitsWithJitter(attempt)
                 PROVE  wait >= AtMostMaxDelay(InitialDelay - InitialDelay \div 4)
      BY DEF BacksOff
    <3> DEFINE b == Product(InitialDelay, attempt)
    <3>1. b \in Nat /\ b + b \div 4 <= IntMax
      BY <2>3 DEF FitsWithJitter
    <3>2. Fits(attempt)
      <4> HIDE DEF b
      <4>1. b <= IntMax
        BY <3>1, RetryAssumption
      <4> QED BY <4>1 DEF Fits, b
    <3> HIDE DEF b
    <3> QED BY <2>2, <3>1, <3>2, WaitBacksOff DEF WaitIsJittered, b
  <2> QED BY <2>1, <2>4, <2>5 DEF DelaysAreRight
<1> QED BY <1>1, <1>2, <1>3, <1>4, RetryInvariance, PTL DEF RetrySpec
===============================================================================
