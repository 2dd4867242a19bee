---------------------------------- MODULE SBOM ----------------------------------
(***************************************************************************)
(* SyftGenerator and SyftSerializer of pkg/sbom/generator.go: documents    *)
(* made from what Syft finds, merged, written and read again.  Documents   *)
(* share packages by pointer: Merge puts the packages of its inputs into   *)
(* the result and completes their descriptions in place, so a package is   *)
(* an address of the heap pkgs here.  "" is a description not given.       *)
(***************************************************************************)
EXTENDS Naturals, Sequences, SequencesExt, FiniteSetsExt

CONSTANTS
  PackageIDs, Descriptions,   \* of packages
  Scans,      \* what syft.CreateSBOM may find: packages, relationships and files
  MaxDocs,    \* bound on the documents made
  MaxPkgs     \* bound on the packages in memory

Package == [id : PackageIDs, description : Descriptions]

\* Syft keeps the packages it finds in a collection by ID.
ASSUME ScanAssumption ==
  \A scan \in Scans :
    /\ scan.packages \in Seq(Package)
    /\ \A i, j \in DOMAIN scan.packages :
         scan.packages[i].id = scan.packages[j].id => i = j

VARIABLES
  pkgs,   \* the packages in memory, by address: [id, description]
  docs    \* the documents, each with its number for an ID; "merged", "said" are history

sbomVars == <<pkgs, docs>>

-----------------------------------------------------------------------------
\* convertSyftRelationshipType; the others are left out.
RelationshipType ==
  [t \in {"contains", "dependency-of"} |-> IF t = "contains" THEN t ELSE "depends-on"]

(* Mutant: only what Syft relates is described. *)
DescribeRelated(scan, docID) ==
  {[subject |-> docID, type |-> "describes", object |-> r.to] : r \in scan.relationships}

createRelationships(scan, docID) ==
  {[subject |-> docID, type |-> "describes", object |-> scan.packages[i].id] :
     i \in DOMAIN scan.packages}
  \union {[subject |-> r.from, type |-> RelationshipType[r.type], object |-> r.to] :
            r \in {s \in scan.relationships : s.type \in DOMAIN RelationshipType}}

\* The ID and the description of the packages at some addresses.
IDs(addresses, heap) == {heap[a].id : a \in addresses}
Said(addresses, heap) ==
  [id \in IDs(addresses, heap) |->
     heap[CHOOSE a \in addresses : heap[a].id = id].description]

SBOMInit == pkgs = <<>> /\ docs = <<>>

\* Generate and GenerateFromFilesystem, from a scan that succeeded.
Generate(scan, includeFiles) ==
  LET addresses == [i \in DOMAIN scan.packages |-> Len(pkgs) + i]
  IN /\ Len(docs) < MaxDocs /\ Len(pkgs) + Len(scan.packages) <= MaxPkgs
     /\ pkgs' = pkgs \o scan.packages
     /\ docs' = Append(docs,
          [packages |-> addresses,
           relationships |-> createRelationships(scan, Len(docs) + 1),
           files |-> IF includeFiles THEN scan.files ELSE {},
           merged |-> <<>>, said |-> Said(ToSet(addresses), pkgs')])

-----------------------------------------------------------------------------
(***************************************************************************)
(* Merge of two documents or more; of one it returns that one.             *)
(***************************************************************************)
Listed(ds) == FlattenSeq([i \in DOMAIN ds |-> docs[ds[i]].packages])

\* The places of an ID in the list, and the one whose package is kept.
Places(listed, id) == {i \in DOMAIN listed : pkgs[listed[i]].id = id}
IsFirst(listed, i) == i = Min(Places(listed, pkgs[listed[i]].id))

(* Mutant: packages are told apart by their address. *)
KeptByAddress(listed) ==
  LET first == {i \in DOMAIN listed : \A j \in DOMAIN listed : listed[j] = listed[i] => i <= j}
  IN  [k \in 1 .. Cardinality(first) |->
         listed[CHOOSE i \in first : Cardinality({j \in first : j <= i}) = k]]

Kept(listed) ==
  LET first == {i \in DOMAIN listed : IsFirst(listed, i)}
  IN  [k \in 1 .. Cardinality(first) |->
         listed[CHOOSE i \in first : Cardinality({j \in first : j <= i}) = k]]

(* Mutant: the last description wins. *)
CompletedByLast(listed) ==
  [a \in DOMAIN pkgs |->
     LET given == {i \in Places(listed, pkgs[a].id) : pkgs[listed[i]].description # ""}
     IN  IF a \notin ToSet(Kept(listed)) \/ given = {} THEN pkgs[a]
         ELSE [pkgs[a] EXCEPT !.description = pkgs[listed[Max(given)]].description]]

\* A package that is kept takes the first description found for its ID.
Completed(listed) ==
  [a \in DOMAIN pkgs |->
     LET given == {i \in Places(listed, pkgs[a].id) : pkgs[listed[i]].description # ""}
     IN  IF a \notin ToSet(Kept(listed)) \/ pkgs[a].description # "" \/ given = {}
           THEN pkgs[a]
           ELSE [pkgs[a] EXCEPT !.description = pkgs[listed[Min(given)]].description]]

\* What the inputs say of an ID, the first of them that says something (history).
SaidBefore(ds, id) ==
  LET Sayings(i) == {pkgs[a].description : a \in {b \in ToSet(docs[ds[i]].packages) :
                                                    pkgs[b].id = id}} \ {""}
      sayers == {i \in DOMAIN ds : Sayings(i) # {}}
  IN  IF sayers = {} THEN "" ELSE CHOOSE s \in Sayings(Min(sayers)) : TRUE

Merge(ds) ==
  /\ Len(docs) < MaxDocs
  /\ pkgs' = Completed(Listed(ds))
  /\ docs' = Append(docs,
       [packages |-> Kept(Listed(ds)),
        relationships |-> UNION {docs[d].relationships : d \in ToSet(ds)},
        files |-> UNION {docs[d].files : d \in ToSet(ds)},
        merged |-> ds,
        said |-> [id \in IDs(ToSet(Listed(ds)), pkgs) |-> SaidBefore(ds, id)]])

\* Serialize and Deserialize, of a JSON format: the same document, shared with none.
Reload(d) ==
  /\ Len(docs) < MaxDocs /\ Len(pkgs) + Len(docs[d].packages) <= MaxPkgs
  /\ pkgs' = pkgs \o [i \in DOMAIN docs[d].packages |-> pkgs[docs[d].packages[i]]]
  /\ LET addresses == [i \in DOMAIN docs[d].packages |-> Len(pkgs) + i]
     IN  docs' = Append(docs,
           [packages |-> addresses,
            relationships |-> docs[d].relationships,
            files |-> docs[d].files,
            merged |-> docs[d].merged, said |-> Said(ToSet(addresses), pkgs')])

SBOMNext ==
  \/ \E scan \in Scans, includeFiles \in BOOLEAN : Generate(scan, includeFiles)
  \/ \E a, b \in DOMAIN docs : Merge(<<a, b>>)
  \/ \E a, b, c \in DOMAIN docs : Merge(<<a, b, c>>)
  \/ \E d \in DOMAIN docs : Reload(d)

SBOMSpec == SBOMInit /\ [][SBOMNext]_sbomVars

-----------------------------------------------------------------------------
(* A merged document has every package of its inputs, and each ID once,     *)
(* however the inputs overlap, also where one is itself a merge.            *)
EachPackageOnce ==
  \A d \in ToSet(docs) :
    /\ \A i, j \in DOMAIN d.packages :
         pkgs[d.packages[i]].id = pkgs[d.packages[j]].id => i = j
    /\ d.merged # <<>> =>
         IDs(ToSet(d.packages), pkgs)
           = UNION {IDs(ToSet(docs[m].packages), pkgs) : m \in ToSet(d.merged)}

(* A document keeps what it said of its packages when it was made, the      *)
(* first of its inputs having the word, though later merges of documents it *)
(* shares packages with complete them in place.                             *)
DescriptionsStay ==
  \A d \in ToSet(docs) : \A a \in ToSet(d.packages) :
    LET said == d.said[pkgs[a].id] IN said # "" => pkgs[a].description = said

(* Each document describes its packages and no others: the packages of a    *)
(* merge stay described by the documents they come from.                    *)
EveryPackageDescribed ==
  \A d \in ToSet(docs) :
    {r.object : r \in {s \in d.relationships : s.type = "describes"}}
      = IDs(ToSet(d.packages), pkgs)

(* Documents stay right through merges that share their packages. *)
DocumentsAreRight == EachPackageOnce /\ DescriptionsStay /\ EveryPackageDescribed
==============================================================================
