--------------------------- MODULE ImageRepository ---------------------------
(***************************************************************************)
(* What the users of a registry are promised by Push (pkg/registry): a tag *)
(* only ever points at an image that can be pulled, because it is moved to *)
(* an image in one step, after all of the image's blobs are in the store.  *)
(* What somebody deletes while the image is being pushed is not promised.  *)
(***************************************************************************)
EXTENDS Naturals

CONSTANTS Blobs,           \* digests
          Tags,
          Images,
          NoImage,
          BlobsOf          \* [Images -> SUBSET Blobs]

VARIABLES store,           \* the blobs the registry holds
          tags,            \* the image each tag points at
          removed          \* [Images -> the blobs deleted since its push began]

repositoryVars == <<store, tags, removed>>

Init ==
  /\ store \in SUBSET Blobs
  /\ tags = [t \in Tags |-> NoImage]
  /\ removed = [i \in Images |-> {}]

(* The push of an image begins, before any tag points at it. *)
Begin(i) ==
  /\ \A t \in Tags : tags[t] # i
  /\ removed' = [removed EXCEPT ![i] = {}]
  /\ UNCHANGED <<store, tags>>

Upload(b) ==
  /\ store' = store \union {b}
  /\ UNCHANGED <<tags, removed>>

Remove(b) ==
  /\ store' = store \ {b}
  /\ removed' = [i \in Images |-> removed[i] \union {b}]
  /\ UNCHANGED tags

Publish(t, i) ==
  /\ BlobsOf[i] \subseteq store \union removed[i]
  /\ tags' = [tags EXCEPT ![t] = i]
  /\ UNCHANGED <<store, removed>>

Next ==
  \/ \E i \in Images : Begin(i)
  \/ \E b \in Blobs : Upload(b) \/ Remove(b)
  \/ \E t \in Tags, i \in Images : Publish(t, i)

Spec == Init /\ [][Next]_repositoryVars
==============================================================================
