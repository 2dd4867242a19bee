---------------------------- MODULE RegistryProofs ----------------------------
(***************************************************************************)
(* Theorems about Registry, for every set of callers, every image and      *)
(* every number of retries.                                                *)
(***************************************************************************)
EXTENDS Registry, TLAPS, SequenceTheorems

(* A push uploads at least the config, and only blobs. *)
LEMMA PartsType ==
  ASSUME NEW c \in Pushers
  PROVE  /\ Parts[c] \in Seq(Blobs)
         /\ Len(Parts[c]) = Len(Layers[c]) + 1
         /\ Len(Layers[c]) \in Nat
         /\ \A i \in 1 .. Len(Parts[c]) : Parts[c][i] \in Blobs /\ Parts[c][i] \in BlobsOf[c]
         /\ BlobsOf[c] \subseteq Blobs
<1>1. Layers[c] \in Seq(Blobs) /\ Config[c] \in Blobs
  BY RegistryAssumption
<1>2. Parts[c] = Append(Layers[c], Config[c])
  BY DEF Parts
<1>3. Parts[c] \in Seq(Blobs) /\ Len(Parts[c]) = Len(Layers[c]) + 1
  BY <1>1, <1>2, AppendProperties
<1>4. Len(Layers[c]) \in Nat
  BY <1>1, LenProperties
<1>5. \A i \in 1 .. Len(Parts[c]) : Parts[c][i] \in Blobs
  BY <1>3, ElementOfSeq
<1>6. BlobsOf[c] = {Parts[c][i] : i \in 1 .. Len(Parts[c])}
  BY DEF BlobsOf
<1> QED BY <1>3, <1>4, <1>5, <1>6

------------------------------------------------------------------------------
(* Type correctness.  The variables that say where a call is are changed by *)
(* the same few operators in every action, so they are treated first.       *)
ControlOK ==
  /\ pc \in [Callers -> {"idle", "head", "post", "put", "tag", "read", "delete",
                         "manifest", "config", "done"}]
  /\ idx \in [Callers -> Nat \ {0}]
  /\ attempt \in [Callers -> 0 .. MaxRetries]
  /\ result \in [Callers -> {"pending", "ok", "failed"}]

FaultsOK ==
  /\ transient \in [Callers -> Nat]
  /\ final \in [Callers -> BOOLEAN]

LEMMA EntryType == ASSUME NEW c \in Callers
                   PROVE  Entry(c) \in {"head", "read", "delete", "manifest"}
BY DEF Entry, Callers

LEMMA FailControl ==
  ASSUME ControlOK, NEW c \in Callers, NEW kind, Fail(c, kind)
  PROVE  ControlOK'
<1> USE RegistryAssumption DEF ControlOK
<1>1. CASE kind = "transient" /\ attempt[c] < MaxRetries
  <2>1. pc' = [pc EXCEPT ![c] = Entry(c)] /\ Entry(c) \in {"head", "read", "delete", "manifest"}
    BY <1>1, EntryType DEF Fail
  <2>2. attempt' = [attempt EXCEPT ![c] = attempt[c] + 1] /\ attempt[c] + 1 \in 0 .. MaxRetries
    BY <1>1 DEF Fail
  <2>3. idx' = [idx EXCEPT ![c] = 1] /\ result' = result
    BY <1>1 DEF Fail
  <2> QED BY <2>1, <2>2, <2>3
<1>2. CASE ~(kind = "transient" /\ attempt[c] < MaxRetries)
  BY <1>2 DEF Fail, Finish
<1> QED BY <1>1, <1>2

LEMMA FaultControl ==
  ASSUME ControlOK, FaultsOK, NEW c \in Callers, Fault(c)
  PROVE  ControlOK' /\ FaultsOK'
<1> PICK kind \in {"transient", "final"} :
       /\ Fail(c, kind)
       /\ IF kind = "transient"
            THEN transient' = [transient EXCEPT ![c] = @ + 1] /\ UNCHANGED final
            ELSE final' = [final EXCEPT ![c] = TRUE] /\ UNCHANGED transient
  BY DEF Fault
<1>1. ControlOK'
  BY FailControl
<1>2. transient' \in [Callers -> Nat]
  BY DEF FaultsOK
<1>3. final' \in [Callers -> BOOLEAN]
  BY DEF FaultsOK
<1> QED BY <1>1, <1>2, <1>3 DEF FaultsOK

LEMMA OtherControl ==
  ASSUME ControlOK, NEW c \in Callers,
         \/ NextPart(c)
         \/ Finish(c, "ok")
         \/ \E w \in {"head", "post", "put", "config"} : Goto(c, w)
         \/ Goto(c, Entry(c))
  PROVE  ControlOK'
<1> USE DEF ControlOK
<1>1. CASE NextPart(c)
  <2>1. CASE c \in Pushers
    <3> DEFINE where == IF idx[c] < Len(Parts[c]) THEN "head" ELSE "tag"
    <3>1. pc' = [pc EXCEPT ![c] = where] /\ where \in {"head", "tag"}
      BY <1>1, <2>1 DEF NextPart
    <3>2. idx' = [idx EXCEPT ![c] = idx[c] + 1] /\ idx[c] + 1 \in Nat \ {0}
      BY <1>1, <2>1 DEF NextPart
    <3>3. UNCHANGED <<attempt, result>>
      BY <1>1, <2>1 DEF NextPart
    <3> HIDE DEF where
    <3> QED BY <3>1, <3>2, <3>3
  <2>2. CASE c \notin Pushers
    BY <1>1, <2>2 DEF NextPart, Finish
  <2> QED BY <2>1, <2>2
<1>2. CASE Finish(c, "ok")
  BY <1>2 DEF Finish
<1>3. CASE \E w \in {"head", "post", "put", "config"} : Goto(c, w)
  BY <1>3 DEF Goto
<1>4. CASE Goto(c, Entry(c))
  <2>1. pc' = [pc EXCEPT ![c] = Entry(c)] /\ UNCHANGED <<idx, attempt, result>>
    BY <1>4 DEF Goto
  <2>2. Entry(c) \in {"head", "read", "delete", "manifest"}
    BY EntryType
  <2> QED BY <2>1, <2>2
<1> QED BY <1>1, <1>2, <1>3, <1>4

(* Unchanged fault counters keep their type. *)
LEMMA SameFaults == ASSUME FaultsOK, UNCHANGED <<transient, final>> PROVE FaultsOK'
BY DEF FaultsOK

(* The types of the variables that hold data rather than control. *)
DataOK ==
  /\ store \subseteq Digests
  /\ tags \in [Tags -> Pushers \union {NoImage}]
  /\ drained \in [Callers -> SUBSET Nat]
  /\ digest \in [Callers -> Digests]
  /\ image \in [Pullers -> Pushers \union {NoImage}]
  /\ config \in [Pullers -> Digests]
  /\ effected \subseteq Callers
  /\ deleted \in [Pushers -> SUBSET Blobs]

(* Where a call is tells who makes it, and where a push is in its parts. *)
RoleOK(c) ==
  /\ pc[c] \in {"head", "post", "put"} =>
       /\ c \in Pushers \union Putters
       /\ c \in Pushers => idx[c] \in 1 .. Len(Parts[c])
  /\ pc[c] = "idle" => idx[c] = 1
  /\ pc[c] = "tag" => c \in Pushers
  /\ pc[c] = "read" => c \in Putters
  /\ pc[c] = "delete" => c \in Deleters
  /\ pc[c] \in {"manifest", "config"} => c \in Pullers
  /\ pc[c] = "config" => image[c] \in Pushers

------------------------------------------------------------------------------
(* The heart of the invariant: a push that is at part i has seen every       *)
(* earlier part in the store, so that each is there now or was deleted since *)
(* the call began; at the manifest that holds of all of them, and from then  *)
(* on of the image the tag points at.                                        *)
Available(p) == store \union deleted[p]

ProgressOf(p) ==
  /\ pc[p] \in {"head", "post", "put"} =>
       \A i \in 1 .. Len(Parts[p]) : i < idx[p] => Parts[p][i] \in Available(p)
  /\ pc[p] = "tag" => BlobsOf[p] \subseteq Available(p)

TaggedAvailable ==
  \A t \in Tags : tags[t] # NoImage =>
    /\ pc[tags[t]] # "idle"
    /\ BlobsOf[tags[t]] \subseteq Available(tags[t])

Inv ==
  /\ ControlOK
  /\ FaultsOK
  /\ DataOK
  /\ \A c \in Callers : RoleOK(c)
  /\ \A p \in Pushers : ProgressOf(p)
  /\ TaggedAvailable

(* Initially no call has begun and no tag is set. *)
LEMMA InitInv == Init => Inv
<1> SUFFICES ASSUME Init PROVE Inv
  OBVIOUS
<1> USE DEF Init
<1>1. ControlOK
  BY RegistryAssumption DEF ControlOK
<1>2. FaultsOK
  BY DEF FaultsOK
<1>3. DataOK
  BY DEF DataOK, Digests
<1>4. \A c \in Callers : RoleOK(c)
  BY DEF RoleOK
<1>5. \A p \in Pushers : ProgressOf(p)
  BY DEF ProgressOf, Callers
<1>6. TaggedAvailable
  BY DEF TaggedAvailable
<1> QED BY <1>1, <1>2, <1>3, <1>4, <1>5, <1>6 DEF Inv

------------------------------------------------------------------------------
(* What a step of caller c leaves alone. *)
OnlyMoves(c) ==
  \A d \in Callers : d # c => pc'[d] = pc[d] /\ idx'[d] = idx[d]

(* Nothing a push in progress has seen is lost without being noted. *)
Kept ==
  \A p \in Pushers : pc[p] # "idle" => Available(p) \subseteq Available(p)'

(* The properties of the other callers survive a step of c. *)
LEMMA OthersKeep ==
  ASSUME Inv, NEW c \in Callers, OnlyMoves(c), Kept,
         pc'[c] # "idle", tags' = tags,
         \A d \in Pullers : d # c => image'[d] = image[d],
         RoleOK(c)', c \in Pushers => ProgressOf(c)'
  PROVE  /\ \A d \in Callers : RoleOK(d)'
         /\ \A p \in Pushers : ProgressOf(p)'
         /\ TaggedAvailable'
<1>1. \A d \in Callers : RoleOK(d)'
  <2> SUFFICES ASSUME NEW d \in Callers, d # c PROVE RoleOK(d)'
    OBVIOUS
  <2>1. pc'[d] = pc[d] /\ idx'[d] = idx[d]
    BY DEF OnlyMoves
  <2>2. RoleOK(d)
    BY DEF Inv
  <2> QED BY <2>1, <2>2 DEF RoleOK
<1>2. \A p \in Pushers : ProgressOf(p)'
  <2> SUFFICES ASSUME NEW p \in Pushers, p # c PROVE ProgressOf(p)'
    OBVIOUS
  <2>1. pc'[p] = pc[p] /\ idx'[p] = idx[p]
    BY DEF OnlyMoves, Callers
  <2>2. ProgressOf(p)
    BY DEF Inv
  <2>3. pc[p] # "idle" => Available(p) \subseteq Available(p)'
    BY DEF Kept
  <2> QED BY <2>1, <2>2, <2>3 DEF ProgressOf
<1>3. TaggedAvailable'
  <2> SUFFICES ASSUME NEW t \in Tags, tags[t] # NoImage
               PROVE  pc'[tags[t]] # "idle" /\ BlobsOf[tags[t]] \subseteq Available(tags[t])'
    BY DEF TaggedAvailable
  <2>1. tags[t] \in Pushers
    BY DEF Inv, DataOK
  <2>2. pc[tags[t]] # "idle" /\ BlobsOf[tags[t]] \subseteq Available(tags[t])
    BY DEF Inv, TaggedAvailable
  <2>3. pc'[tags[t]] # "idle"
    BY <2>1, <2>2 DEF OnlyMoves, Callers
  <2>4. Available(tags[t]) \subseteq Available(tags[t])'
    BY <2>1, <2>2 DEF Kept
  <2> QED BY <2>2, <2>3, <2>4
<1> QED BY <1>1, <1>2, <1>3

(* The readers a PUT drains are parts of the push. *)
LEMMA DrainType ==
  ASSUME ControlOK, drained \in [Callers -> SUBSET Nat], NEW c \in Callers, Drain(c)
  PROVE  drained' \in [Callers -> SUBSET Nat]
<1>1. CASE c \in Pushers /\ idx[c] <= Len(Layers[c])
  <2>1. drained' = [drained EXCEPT ![c] = drained[c] \union {idx[c]}]
    BY <1>1 DEF Drain
  <2>2. idx[c] \in Nat
    BY DEF ControlOK
  <2>3. drained[c] \union {idx[c]} \in SUBSET Nat
    BY <2>2
  <2> QED BY <2>1, <2>3
<1>2. CASE ~(c \in Pushers /\ idx[c] <= Len(Layers[c]))
  BY <1>2 DEF Drain
<1> QED BY <1>1, <1>2

(* A failed attempt starts again with nothing to remember, or ends. *)
LEMMA FailKeeps ==
  ASSUME Inv, NEW c \in Callers, NEW kind, Fail(c, kind)
  PROVE  OnlyMoves(c) /\ pc'[c] # "idle" /\ RoleOK(c)' /\ (c \in Pushers => ProgressOf(c)')
<1>0. pc \in [Callers -> {"idle", "head", "post", "put", "tag", "read", "delete",
                         "manifest", "config", "done"}]
      /\ idx \in [Callers -> Nat \ {0}]
  BY DEF Inv, ControlOK
<1>1. CASE kind = "transient" /\ attempt[c] < MaxRetries
  <2>1. pc' = [pc EXCEPT ![c] = Entry(c)] /\ idx' = [idx EXCEPT ![c] = 1]
    BY <1>1 DEF Fail
  <2>2. pc'[c] = Entry(c) /\ idx'[c] = 1 /\ OnlyMoves(c)
    BY <1>0, <2>1 DEF OnlyMoves
  <2>3. RoleOK(c)'
    <3>1. c \in Pushers => c \notin Putters \union Deleters \union Pullers
      BY RegistryAssumption
    <3>2. c \in Pushers => 1 \in 1 .. Len(Parts[c])
      BY PartsType
    <3> QED BY <2>2, <3>1, <3>2, EntryType DEF RoleOK, Entry, Callers
  <2>4. c \in Pushers => ProgressOf(c)'
    <3> SUFFICES ASSUME c \in Pushers PROVE ProgressOf(c)'
      OBVIOUS
    <3>1. Len(Parts[c]) \in Nat
      BY PartsType
    <3>2. Entry(c) = "head"
      BY RegistryAssumption DEF Entry
    <3> QED BY <2>2, <3>1, <3>2 DEF ProgressOf
  <2> QED BY <2>2, <2>3, <2>4, EntryType
<1>2. CASE ~(kind = "transient" /\ attempt[c] < MaxRetries)
  BY <1>0, <1>2 DEF Fail, Finish, OnlyMoves, RoleOK, ProgressOf
<1> QED BY <1>1, <1>2

LEMMA FaultKeeps ==
  ASSUME Inv, NEW c \in Callers, Fault(c)
  PROVE  OnlyMoves(c) /\ pc'[c] # "idle" /\ RoleOK(c)' /\ (c \in Pushers => ProgressOf(c)')
BY FailKeeps DEF Fault

(* A finished call has nothing to remember. *)
LEMMA FinishKeeps ==
  ASSUME Inv, NEW c \in Callers, NEW r, Finish(c, r)
  PROVE  OnlyMoves(c) /\ pc'[c] # "idle" /\ RoleOK(c)' /\ (c \in Pushers => ProgressOf(c)')
BY DEF Inv, ControlOK, Finish, OnlyMoves, RoleOK, ProgressOf

(* When the part at hand is in the store the push may go on to the next. *)
LEMMA NextPartKeeps ==
  ASSUME Inv, NEW c \in Callers, NextPart(c), Kept, pc[c] \in {"head", "put"},
         c \in Pushers => Parts[c][idx[c]] \in store'
  PROVE  OnlyMoves(c) /\ pc'[c] # "idle" /\ RoleOK(c)' /\ (c \in Pushers => ProgressOf(c)')
<1>0. pc \in [Callers -> {"idle", "head", "post", "put", "tag", "read", "delete",
                         "manifest", "config", "done"}]
      /\ idx \in [Callers -> Nat \ {0}]
  BY DEF Inv, ControlOK
<1>1. CASE c \in Pushers
  <2>1. pc' = [pc EXCEPT ![c] = IF idx[c] < Len(Parts[c]) THEN "head" ELSE "tag"]
        /\ idx' = [idx EXCEPT ![c] = idx[c] + 1]
    BY <1>1 DEF NextPart
  <2>2. pc'[c] = (IF idx[c] < Len(Parts[c]) THEN "head" ELSE "tag")
        /\ idx'[c] = idx[c] + 1 /\ OnlyMoves(c)
    BY <1>0, <2>1 DEF OnlyMoves
  <2>3. idx[c] \in 1 .. Len(Parts[c]) /\ Len(Parts[c]) \in Nat
    BY <1>1, PartsType DEF Inv, RoleOK
  <2>4. \A i \in 1 .. Len(Parts[c]) : i < idx[c] + 1 => Parts[c][i] \in Available(c)'
    <3> SUFFICES ASSUME NEW i \in 1 .. Len(Parts[c]), i < idx[c] + 1
                 PROVE  Parts[c][i] \in Available(c)'
      OBVIOUS
    <3>1. CASE i < idx[c]
      BY <1>1, <3>1 DEF Inv, ProgressOf, Kept
    <3>2. CASE i = idx[c]
      BY <1>1, <3>2 DEF Available
    <3> QED BY <2>3, <3>1, <3>2
  <2>5. ProgressOf(c)'
    <3>1. CASE idx[c] < Len(Parts[c])
      BY <2>2, <2>4, <3>1 DEF ProgressOf
    <3>2. CASE ~(idx[c] < Len(Parts[c]))
      <4>1. \A i \in 1 .. Len(Parts[c]) : Parts[c][i] \in Available(c)'
        BY <2>3, <2>4, <3>2
      <4>2. BlobsOf[c] = {Parts[c][i] : i \in 1 .. Len(Parts[c])}
        BY <1>1 DEF BlobsOf
      <4> QED BY <2>2, <3>2, <4>1, <4>2 DEF ProgressOf
    <3> QED BY <3>1, <3>2
  <2>6. RoleOK(c)'
    BY <1>1, <2>2, <2>3 DEF RoleOK
  <2> QED BY <2>2, <2>5, <2>6
<1>2. CASE c \notin Pushers
  BY <1>2, FinishKeeps DEF NextPart
<1> QED BY <1>1, <1>2

(* A push that only moves on within the same part keeps what it has seen. *)
LEMMA GotoKeeps ==
  ASSUME Inv, NEW c \in Callers, Kept,
         \/ pc[c] = "head" /\ Goto(c, "post")
         \/ pc[c] = "post" /\ Goto(c, "put")
         \/ pc[c] = "read" /\ Goto(c, "head")
  PROVE  OnlyMoves(c) /\ pc'[c] # "idle" /\ RoleOK(c)' /\ (c \in Pushers => ProgressOf(c)')
<1>0. pc \in [Callers -> {"idle", "head", "post", "put", "tag", "read", "delete",
                         "manifest", "config", "done"}]
  BY DEF Inv, ControlOK
<1>1. PICK w \in {"head", "post", "put"} : Goto(c, w)
  OBVIOUS
<1>2. pc' = [pc EXCEPT ![c] = w] /\ idx' = idx
  BY <1>1 DEF Goto
<1>3. pc'[c] = w /\ OnlyMoves(c)
  BY <1>0, <1>2 DEF OnlyMoves
<1>4. RoleOK(c) /\ (c \in Pushers => ProgressOf(c))
  BY DEF Inv
<1>5. c \in Putters => c \notin Pushers
  BY RegistryAssumption
<1>6. c \in Pushers => pc[c] \in {"head", "post"}
  BY <1>4, <1>5 DEF RoleOK
<1>7. RoleOK(c)'
  BY <1>2, <1>3, <1>4, <1>5 DEF RoleOK
<1>8. c \in Pushers => ProgressOf(c)'
  <2> SUFFICES ASSUME c \in Pushers PROVE ProgressOf(c)'
    OBVIOUS
  <2>1. Available(c) \subseteq Available(c)'
    BY <1>6 DEF Kept
  <2>2. \A i \in 1 .. Len(Parts[c]) : i < idx[c] => Parts[c][i] \in Available(c)
    BY <1>4, <1>6 DEF ProgressOf
  <2> QED BY <1>2, <1>3, <2>1, <2>2 DEF ProgressOf
<1> QED BY <1>3, <1>7, <1>8

(* Blobs that stay in the store, and a record of deletions that only grows. *)
LEMMA SameRegistryKept ==
  ASSUME store \subseteq store', deleted' = deleted
  PROVE  Kept
BY DEF Kept, Available

------------------------------------------------------------------------------
(* Every step preserves the invariant: one step of the proof per action. *)
LEMMA StepInv == Inv /\ [Next]_vars => Inv'
<1> SUFFICES ASSUME Inv, [Next]_vars PROVE Inv'
  OBVIOUS
<1> USE RegistryAssumption
<1> DEFINE Keeps(c) == /\ OnlyMoves(c)
                       /\ pc'[c] # "idle"
                       /\ RoleOK(c)'
                       /\ c \in Pushers => ProgressOf(c)'
<1>0. /\ ControlOK /\ FaultsOK /\ DataOK
      /\ \A c \in Callers : RoleOK(c)
      /\ \A p \in Pushers : ProgressOf(p)
  BY DEF Inv
<1>1. ASSUME NEW c \in Callers, HeadBlob(c) PROVE Inv'
  <2>1. Kept
    BY <1>1, SameRegistryKept DEF HeadBlob, registryVars, historyVars
  <2>2. ControlOK' /\ FaultsOK' /\ DataOK'
    <3>1. ControlOK'
      BY <1>0, <1>1, OtherControl DEF HeadBlob
    <3>2. FaultsOK'
      BY <1>0, <1>1, SameFaults DEF HeadBlob, historyVars
    <3> QED BY <1>0, <1>1, <3>1, <3>2
            DEF HeadBlob, DataOK, registryVars, historyVars
  <2>3. Keeps(c)
    <3>1. CASE Current(c) \in store /\ NextPart(c)
      <4>1. c \in Pushers => Parts[c][idx[c]] \in store'
        BY <1>1, <3>1 DEF Current, HeadBlob, registryVars
      <4> QED BY <1>1, <2>1, <3>1, <4>1, NextPartKeeps DEF HeadBlob
    <3>2. CASE Goto(c, "post")
      BY <1>1, <2>1, <3>2, GotoKeeps DEF HeadBlob
    <3> QED BY <1>1, <3>1, <3>2 DEF HeadBlob
  <2> QED BY <1>1, <2>1, <2>2, <2>3, OthersKeep DEF HeadBlob, registryVars, Inv
<1>2. ASSUME NEW c \in Callers, PostUpload(c) PROVE Inv'
  <2>1. Kept
    BY <1>2, SameRegistryKept DEF PostUpload, registryVars
  <2>2. ControlOK' /\ FaultsOK' /\ Keeps(c)
    <3>1. CASE Goto(c, "put") /\ UNCHANGED <<transient, final>>
      BY <1>0, <1>2, <2>1, <3>1, OtherControl, SameFaults, GotoKeeps DEF PostUpload
    <3>2. CASE Fault(c)
      BY <1>0, <3>2, FaultControl, FaultKeeps
    <3> QED BY <1>2, <3>1, <3>2 DEF PostUpload
  <2>3. DataOK'
    BY <1>0, <1>2 DEF PostUpload, DataOK, registryVars
  <2> QED BY <1>2, <2>1, <2>2, <2>3, OthersKeep DEF PostUpload, registryVars, Inv
<1>3. ASSUME NEW c \in Callers, PutUpload(c) PROVE Inv'
  <2>0. UNCHANGED <<tags, digest, image, config, effected, deleted>> /\ pc[c] = "put"
    BY <1>3 DEF PutUpload
  <2>1. Current(c) \in Digests
    <3>1. CASE c \in Pushers
      BY <1>0, <2>0, <3>1, PartsType DEF Current, RoleOK, Digests
    <3>2. CASE c \notin Pushers
      BY <1>0, <3>2 DEF Current, DataOK
    <3> QED BY <3>1, <3>2
  <2>2. /\ store \subseteq store' /\ store' \subseteq Digests
        /\ drained' \in [Callers -> SUBSET Nat]
        /\ ControlOK' /\ FaultsOK'
        /\ \/ NextPart(c) /\ Current(c) \in store'
           \/ Fault(c)
           \/ Fail(c, "final")
    <3>1. CASE /\ store' = store \union {Current(c)}
               /\ Drain(c)
               /\ \/ NextPart(c) /\ UNCHANGED <<transient, final>>
                  \/ Fault(c)
      <4>1. drained' \in [Callers -> SUBSET Nat]
        BY <1>0, <3>1, DrainType DEF DataOK
      <4>2. ControlOK' /\ FaultsOK'
        BY <1>0, <3>1, OtherControl, FaultControl, SameFaults
      <4> QED BY <1>0, <2>1, <3>1, <4>1, <4>2 DEF DataOK
    <3>2. CASE Refused(c) /\ UNCHANGED <<store, drained>>
      BY <1>0, <3>2, FailControl, SameFaults DEF Refused, DataOK
    <3>3. CASE Fault(c) /\ (Drain(c) \/ UNCHANGED drained) /\ UNCHANGED store
      <4>1. drained' \in [Callers -> SUBSET Nat]
        BY <1>0, <3>3, DrainType DEF DataOK
      <4> QED BY <1>0, <3>3, <4>1, FaultControl DEF DataOK
    <3> QED BY <1>3, <3>1, <3>2, <3>3 DEF PutUpload
  <2>3. Kept
    BY <2>0, <2>2, SameRegistryKept
  <2>4. Keeps(c)
    <3>1. CASE NextPart(c) /\ Current(c) \in store'
      BY <2>0, <2>3, <3>1, NextPartKeeps DEF Current
    <3>2. CASE Fault(c)
      BY <3>2, FaultKeeps
    <3>3. CASE Fail(c, "final")
      BY <3>3, FailKeeps
    <3> QED BY <2>2, <3>1, <3>2, <3>3
  <2>5. DataOK'
    BY <1>0, <2>0, <2>2 DEF DataOK
  <2> QED BY <2>0, <2>2, <2>3, <2>4, <2>5, OthersKeep DEF Inv
<1>4. ASSUME NEW c \in Callers, PutManifest(c) PROVE Inv'
  <2>0. UNCHANGED <<store, drained, digest, image, config, deleted>> /\ pc[c] = "tag"
        /\ c \in Pushers
    BY <1>0, <1>4 DEF PutManifest, RoleOK
  <2>1. Kept
    BY <2>0, SameRegistryKept
  <2>2. ControlOK' /\ FaultsOK' /\ Keeps(c)
    <3>1. CASE Finish(c, "ok") /\ UNCHANGED <<transient, final>>
      BY <1>0, <3>1, OtherControl, SameFaults, FinishKeeps
    <3>2. CASE Fault(c)
      BY <1>0, <3>2, FaultControl, FaultKeeps
    <3> QED BY <1>4, <3>1, <3>2 DEF PutManifest
  <2>3. \/ tags' = [tags EXCEPT ![Tag[c]] = c] /\ effected' = effected \union {c}
        \/ UNCHANGED <<tags, effected>>
    BY <1>4 DEF PutManifest
  <2>4. DataOK'
    <3>1. tags' \in [Tags -> Pushers \union {NoImage}] /\ effected' \subseteq Callers
      BY <1>0, <2>0, <2>3 DEF DataOK
    <3> QED BY <1>0, <2>0, <3>1 DEF DataOK
  <2>5. \A d \in Callers : RoleOK(d)'
    <3> SUFFICES ASSUME NEW d \in Callers, d # c PROVE RoleOK(d)'
      BY <2>2
    <3>1. pc'[d] = pc[d] /\ idx'[d] = idx[d]
      BY <2>2 DEF OnlyMoves
    <3> QED BY <1>0, <2>0, <3>1 DEF RoleOK
  <2>6. \A p \in Pushers : ProgressOf(p)'
    <3> SUFFICES ASSUME NEW p \in Pushers, p # c PROVE ProgressOf(p)'
      BY <2>2
    <3>1. pc'[p] = pc[p] /\ idx'[p] = idx[p]
      BY <2>2 DEF OnlyMoves, Callers
    <3> QED BY <1>0, <2>0, <3>1 DEF ProgressOf, Available
  <2>7. BlobsOf[c] \subseteq Available(c)'
    BY <1>0, <2>0 DEF ProgressOf, Available
  <2>8. TaggedAvailable'
    <3> SUFFICES ASSUME NEW t \in Tags, tags'[t] # NoImage
                 PROVE  (pc[tags[t]] # "idle" /\ BlobsOf[tags[t]] \subseteq Available(tags[t]))'
      BY DEF TaggedAvailable
    <3>1. CASE tags'[t] = c
      BY <2>2, <2>7, <3>1
    <3>2. CASE tags'[t] # c
      <4>1. tags'[t] = tags[t] /\ tags[t] \in Pushers
        BY <1>0, <2>3, <3>2 DEF DataOK
      <4>2. pc[tags[t]] # "idle" /\ BlobsOf[tags[t]] \subseteq Available(tags[t])
        BY <4>1 DEF Inv, TaggedAvailable
      <4>3. pc'[tags[t]] # "idle"
        BY <2>2, <3>2, <4>1, <4>2 DEF OnlyMoves, Callers
      <4> QED BY <2>0, <4>1, <4>2, <4>3 DEF Available
    <3> QED BY <3>1, <3>2
  <2> QED BY <2>2, <2>4, <2>5, <2>6, <2>8 DEF Inv
<1>5. ASSUME NEW c \in Callers, ReadContent(c) PROVE Inv'
  <2>0. UNCHANGED <<registryVars, image, config, historyVars>> /\ pc[c] = "read"
        /\ c \in Putters /\ Goto(c, "head")
    BY <1>0, <1>5 DEF ReadContent, RoleOK
  <2>1. Kept
    BY <2>0, SameRegistryKept DEF registryVars, historyVars
  <2>2. digest' \in [Callers -> Digests] /\ drained' \in [Callers -> SUBSET Nat]
    BY <1>0, <1>5, <2>0 DEF ReadContent, DataOK, Digests
  <2>3. ControlOK' /\ FaultsOK' /\ Keeps(c)
    BY <1>0, <2>0, <2>1, OtherControl, SameFaults, GotoKeeps DEF historyVars
  <2>4. DataOK'
    BY <1>0, <2>0, <2>2 DEF DataOK, registryVars, historyVars
  <2> QED BY <2>0, <2>1, <2>3, <2>4, OthersKeep DEF registryVars, Inv
<1>6. ASSUME NEW c \in Callers, DeleteBlob(c) PROVE Inv'
  <2>0. UNCHANGED <<tags, drained, digest, image, config>> /\ pc[c] = "delete" /\ c \in Deleters
    BY <1>0, <1>6 DEF DeleteBlob, RoleOK
  <2>1. /\ \/ /\ store' = store \ {Blob[c]}
              /\ deleted' = [p \in Pushers |-> deleted[p] \union {Blob[c]}]
              /\ effected' = effected \union {c}
           \/ UNCHANGED <<store, deleted, effected>>
        /\ ControlOK' /\ FaultsOK' /\ Keeps(c)
    <3>1. CASE Finish(c, "ok") /\ UNCHANGED <<transient, final>>
      <4>1. ControlOK' /\ FaultsOK' /\ Keeps(c)
        BY <1>0, <3>1, OtherControl, SameFaults, FinishKeeps
      <4> QED BY <1>6, <4>1 DEF DeleteBlob
    <3>2. CASE Fault(c)
      <4>1. ControlOK' /\ FaultsOK' /\ Keeps(c)
        BY <1>0, <3>2, FaultControl, FaultKeeps
      <4> QED BY <1>6, <4>1 DEF DeleteBlob
    <3>3. CASE Refused(c)
      <4>1. ControlOK' /\ FaultsOK' /\ Keeps(c)
        BY <1>0, <3>3, FailControl, SameFaults, FailKeeps DEF Refused
      <4> QED BY <1>6, <4>1 DEF DeleteBlob
    <3> QED BY <1>6, <3>1, <3>2, <3>3 DEF DeleteBlob
  <2>2. Kept
    <3>1. CASE /\ store' = store \ {Blob[c]}
               /\ deleted' = [p \in Pushers |-> deleted[p] \union {Blob[c]}]
      BY <3>1 DEF Kept, Available
    <3>2. CASE UNCHANGED <<store, deleted>>
      BY <3>2 DEF Kept, Available
    <3> QED BY <2>1, <3>1, <3>2
  <2>3. DataOK'
    BY <1>0, <2>0, <2>1 DEF DataOK
  <2> QED BY <2>0, <2>1, <2>2, <2>3, OthersKeep DEF Inv
<1>7. ASSUME NEW c \in Callers, GetManifest(c) PROVE Inv'
  <2>0. UNCHANGED <<registryVars, drained, digest, config, effected, deleted>>
        /\ pc[c] = "manifest" /\ c \in Pullers
    BY <1>0, <1>7 DEF GetManifest, RoleOK
  <2>1. Kept
    BY <2>0, SameRegistryKept DEF registryVars
  <2>2. /\ image' \in [Pullers -> Pushers \union {NoImage}]
        /\ \A d \in Pullers : d # c => image'[d] = image[d]
        /\ ControlOK' /\ FaultsOK' /\ Keeps(c)
    <3>1. CASE /\ tags[Tag[c]] # NoImage
               /\ image' = [image EXCEPT ![c] = tags[Tag[c]]]
               /\ Goto(c, "config")
               /\ UNCHANGED <<transient, final>>
      <4>1. tags[Tag[c]] \in Pushers
        BY <1>0, <2>0, <3>1 DEF DataOK
      <4>2. ControlOK' /\ FaultsOK'
        BY <1>0, <3>1, OtherControl, SameFaults
      <4>3. pc'[c] = "config" /\ image'[c] \in Pushers /\ OnlyMoves(c)
        BY <1>0, <2>0, <3>1, <4>1 DEF Goto, OnlyMoves, ControlOK, DataOK
      <4>4. Keeps(c)
        BY <2>0, <4>3 DEF RoleOK
      <4> QED BY <1>0, <2>0, <3>1, <4>1, <4>2, <4>4 DEF DataOK
    <3>2. CASE Refused(c) /\ UNCHANGED image
      BY <1>0, <3>2, FailControl, SameFaults, FailKeeps DEF Refused, DataOK
    <3>3. CASE Fault(c) /\ UNCHANGED image
      BY <1>0, <3>3, FaultControl, FaultKeeps DEF DataOK
    <3> QED BY <1>7, <3>1, <3>2, <3>3 DEF GetManifest
  <2>3. DataOK'
    BY <1>0, <2>0, <2>2 DEF DataOK, registryVars
  <2> QED BY <2>0, <2>1, <2>2, <2>3, OthersKeep DEF registryVars, Inv
<1>8. ASSUME NEW c \in Callers, GetConfig(c) PROVE Inv'
  <2>0. UNCHANGED <<registryVars, drained, digest, image, effected, deleted>>
        /\ pc[c] = "config" /\ c \in Pullers /\ image[c] \in Pushers
    BY <1>0, <1>8 DEF GetConfig, RoleOK
  <2>1. Kept
    BY <2>0, SameRegistryKept DEF registryVars
  <2>2. config' \in [Pullers -> Digests] /\ ControlOK' /\ FaultsOK' /\ Keeps(c)
    <3>1. CASE /\ config' = [config EXCEPT ![c] = Config[image[c]]]
               /\ Finish(c, "ok")
               /\ UNCHANGED <<transient, final>>
      <4>1. ControlOK' /\ FaultsOK' /\ Keeps(c)
        BY <1>0, <3>1, OtherControl, SameFaults, FinishKeeps
      <4> QED BY <1>0, <2>0, <3>1, <4>1 DEF DataOK, Digests
    <3>2. CASE Refused(c) /\ UNCHANGED config
      BY <1>0, <3>2, FailControl, SameFaults, FailKeeps DEF Refused, DataOK
    <3>3. CASE Fault(c) /\ UNCHANGED config
      BY <1>0, <3>3, FaultControl, FaultKeeps DEF DataOK
    <3> QED BY <1>8, <3>1, <3>2, <3>3 DEF GetConfig
  <2>3. DataOK'
    BY <1>0, <2>0, <2>2 DEF DataOK, registryVars
  <2> QED BY <2>0, <2>1, <2>2, <2>3, OthersKeep DEF registryVars, Inv
<1>9. ASSUME NEW c \in Callers, Start(c) PROVE Inv'
  <2>0. /\ UNCHANGED <<registryVars, drained, digest, image, config, transient, final, effected>>
        /\ pc[c] = "idle" /\ Goto(c, Entry(c))
    BY <1>9 DEF Start
  <2>1. deleted' \in [Pushers -> SUBSET Blobs]
        /\ \A p \in Pushers : deleted'[p] = IF p = c THEN {} ELSE deleted[p]
    <3>1. CASE c \in Pushers
      BY <1>0, <1>9, <3>1 DEF Start, DataOK
    <3>2. CASE c \notin Pushers
      BY <1>0, <1>9, <3>2 DEF Start, DataOK
    <3> QED BY <3>1, <3>2
  <2>2. Kept
    BY <2>0, <2>1 DEF Kept, Available, registryVars
  <2>3. pc'[c] = Entry(c) /\ idx' = idx /\ OnlyMoves(c)
    BY <1>0, <2>0 DEF Goto, OnlyMoves, ControlOK
  <2>4. idx[c] = 1
    BY <1>0, <2>0 DEF RoleOK
  <2>5. RoleOK(c)'
    <3>1. c \in Pushers => c \notin Putters \union Deleters \union Pullers
      OBVIOUS
    <3>2. c \in Pushers => 1 \in 1 .. Len(Parts[c])
      BY PartsType
    <3> QED BY <2>3, <2>4, <3>1, <3>2, EntryType DEF RoleOK, Entry, Callers
  <2>6. c \in Pushers => ProgressOf(c)'
    <3> SUFFICES ASSUME c \in Pushers PROVE ProgressOf(c)'
      OBVIOUS
    <3>1. Len(Parts[c]) \in Nat
      BY PartsType
    <3>2. Entry(c) = "head"
      BY DEF Entry
    <3> QED BY <2>3, <2>4, <3>1, <3>2 DEF ProgressOf
  <2>7. ControlOK' /\ FaultsOK'
    BY <1>0, <2>0, OtherControl, SameFaults
  <2>8. DataOK'
    BY <1>0, <2>0, <2>1 DEF DataOK, registryVars
  <2> QED
    BY <2>0, <2>2, <2>3, <2>5, <2>6, <2>7, <2>8, EntryType, OthersKeep DEF registryVars, Inv
<1>10. CASE UNCHANGED vars
  BY <1>0, <1>10 DEF vars, registryVars, callVars, historyVars, Inv, ControlOK, FaultsOK,
     DataOK, RoleOK, ProgressOf, TaggedAvailable, Available
<1> QED
  BY <1>1, <1>2, <1>3, <1>4, <1>5, <1>6, <1>7, <1>8, <1>9, <1>10 DEF Next, Step

(* The invariant holds in every reachable state. *)
THEOREM Invariance == Spec => []Inv
BY InitInv, StepInv, PTL DEF Spec

(* Type correctness; in particular no call makes more than MaxRetries + 1 *)
(* attempts.                                                               *)
THEOREM TypeCorrect == Spec => []TypeOK
<1>1. Inv => TypeOK
  BY DEF Inv, ControlOK, FaultsOK, DataOK, TypeOK
<1> QED BY <1>1, Invariance, PTL

(* Every image a tag points at is complete up to deletions since its push. *)
THEOREM TaggedImagesAreComplete == Spec => []MissingOnlyIfDeleted
<1>1. Inv => MissingOnlyIfDeleted
  BY DEF Inv, TaggedAvailable, Available, MissingOnlyIfDeleted
<1> QED BY <1>1, Invariance, PTL

------------------------------------------------------------------------------
(* The client and the registry together keep the promise of ImageRepository: *)
(* the start of a push begins an image no tag points at, PutUpload uploads,  *)
(* DeleteBlob removes, PutManifest publishes an image that is complete but   *)
(* for what was deleted since, and every other request is a stutter.         *)
THEOREM ClientImplementsRepository == Spec => ImplementsRepository
<1> USE RegistryAssumption
<1>1. Init => Repository!Init
  BY DEF Init, Repository!Init, Digests
<1>2. Inv /\ [Next]_vars => [Repository!Next]_<<store, tags, deleted>>
  <2> SUFFICES ASSUME Inv, Next
               PROVE  Repository!Next \/ UNCHANGED <<store, tags, deleted>>
    BY DEF vars, registryVars, historyVars
  <2>0. PICK c \in Callers : Start(c) \/ Step(c)
    BY DEF Next
  <2>1. CASE PutUpload(c)
    <3>1. Current(c) \in Digests
      <4>1. CASE c \in Pushers
        <5>1. idx[c] \in 1 .. Len(Parts[c])
          BY <2>1, <4>1 DEF PutUpload, Inv, RoleOK
        <5> QED BY <4>1, <5>1, PartsType DEF Current, Digests
      <4>2. CASE c \notin Pushers
        BY <4>2 DEF Current, Inv, DataOK
      <4> QED BY <4>1, <4>2
    <3>2. tags' = tags /\ deleted' = deleted
          /\ (store' = store \union {Current(c)} \/ store' = store)
      BY <2>1 DEF PutUpload
    <3> QED BY <3>1, <3>2 DEF Repository!Next, Repository!Upload
  <2>2. CASE PutManifest(c)
    <3>1. c \in Pushers /\ store' = store /\ deleted' = deleted
          /\ (tags' = [tags EXCEPT ![Tag[c]] = c] \/ tags' = tags)
      BY <2>2 DEF PutManifest, Inv, RoleOK
    <3>2. BlobsOf[c] \subseteq store \union deleted[c]
      BY <2>2, <3>1 DEF PutManifest, Inv, ProgressOf, Available
    <3>3. Tag[c] \in Tags
      BY <3>1
    <3> QED BY <3>1, <3>2, <3>3 DEF Repository!Next, Repository!Publish
  <2>3. CASE DeleteBlob(c)
    <3>1. c \in Deleters
      BY <2>3 DEF DeleteBlob, Inv, RoleOK
    <3>2. Blob[c] \in Digests
      BY <3>1 DEF Digests
    <3>3. tags' = tags
          /\ \/ /\ store' = store \ {Blob[c]}
                /\ deleted' = [p \in Pushers |-> deleted[p] \union {Blob[c]}]
             \/ store' = store /\ deleted' = deleted
      BY <2>3 DEF DeleteBlob
    <3> QED BY <3>2, <3>3 DEF Repository!Next, Repository!Remove
  <2>4. CASE Start(c)
    <3>1. pc[c] = "idle" /\ store' = store /\ tags' = tags
          /\ deleted' = IF c \in Pushers THEN [deleted EXCEPT ![c] = {}] ELSE deleted
      BY <2>4 DEF Start, registryVars
    <3>2. CASE c \in Pushers
      <4>1. \A t \in Tags : tags[t] # c
        <5> SUFFICES ASSUME NEW t \in Tags, tags[t] = c PROVE FALSE
          OBVIOUS
        <5>1. tags[t] # NoImage
          BY <3>2
        <5> QED BY <3>1, <5>1 DEF Inv, TaggedAvailable
      <4> QED BY <3>1, <3>2, <4>1 DEF Repository!Next, Repository!Begin
    <3>3. CASE c \notin Pushers
      BY <3>1, <3>3
    <3> QED BY <3>2, <3>3
  <2>5. CASE \/ HeadBlob(c) \/ PostUpload(c) \/ ReadContent(c)
             \/ GetManifest(c) \/ GetConfig(c)
    BY <2>5 DEF HeadBlob, PostUpload, ReadContent, GetManifest, GetConfig,
       registryVars, historyVars
  <2> QED BY <2>0, <2>1, <2>2, <2>3, <2>4, <2>5 DEF Step
<1> QED
  BY <1>1, <1>2, Invariance, PTL
  DEF Spec, ImplementsRepository, Repository!Spec, Repository!repositoryVars

------------------------------------------------------------------------------
(* The answers.  What a call knows of itself: its result is open until it is *)
(* done, every retry had its fault, a push without faults has only read      *)
(* parts behind it, a put without faults has the digest of its content.      *)
Sound(c) ==
  /\ pc[c] # "done" => result[c] = "pending"
  /\ attempt[c] <= transient[c]
  /\ c \in Pushers /\ transient[c] = 0 /\ pc[c] # "done" => \A i \in drained[c] : i < idx[c]
  /\ c \in Putters /\ transient[c] = 0 =>
       IF pc[c] \in {"idle", "read"} THEN drained[c] = {}
                                     ELSE pc[c] = "done" \/ digest[c] = Blob[c]

(* What it answers is so. *)
Answer(c) ==
  /\ c \in Pushers \union Deleters /\ result[c] = "ok" => c \in effected
  /\ c \in Putters /\ result[c] = "ok" =>
       /\ digest[c] \in store \/ \E d \in Deleters \intersect effected : Blob[d] = digest[c]
       /\ digest[c] = Blob[c] \/ transient[c] > 0
  /\ c \in Pullers /\ result[c] = "ok" => config[c] = Config[image[c]]
  /\ c \in Pushers /\ result[c] = "failed" =>
       final[c] \/ transient[c] > MaxRetries \/ (transient[c] > 0 /\ drained[c] # {})

(* A step of c leaves the other calls alone, and what it takes out of the   *)
(* store it deletes.                                                        *)
ControlFrame(c) ==
  \A d \in Callers : d # c => /\ pc'[d] = pc[d] /\ idx'[d] = idx[d]
                              /\ attempt'[d] = attempt[d] /\ result'[d] = result[d]
DataFrame(c) ==
  /\ \A d \in Callers : d # c => drained'[d] = drained[d] /\ digest'[d] = digest[d]
  /\ \A d \in Pullers : d # c => image'[d] = image[d] /\ config'[d] = config[d]
  /\ effected \subseteq effected'
  /\ \A b \in store \ store' : \E e \in Deleters \intersect effected' : Blob[e] = b
FaultFrame(c) ==
  \A d \in Callers : d # c => transient'[d] = transient[d] /\ final'[d] = final[d]

Frame(c) == ControlFrame(c) /\ DataFrame(c) /\ FaultFrame(c)

LEMMA OthersAnswer ==
  ASSUME NEW c \in Callers, Frame(c), NEW d \in Callers, d # c, Sound(d), Answer(d)
  PROVE  Sound(d)' /\ Answer(d)'
<1>1. /\ pc'[d] = pc[d] /\ idx'[d] = idx[d] /\ attempt'[d] = attempt[d]
      /\ result'[d] = result[d] /\ drained'[d] = drained[d] /\ digest'[d] = digest[d]
      /\ transient'[d] = transient[d] /\ final'[d] = final[d]
      /\ d \in Pullers => image'[d] = image[d] /\ config'[d] = config[d]
      /\ effected \subseteq effected'
  BY DEF Frame, ControlFrame, DataFrame, FaultFrame
<1>2. digest[d] \in store => \/ digest[d] \in store'
                             \/ \E e \in Deleters \intersect effected' : Blob[e] = digest[d]
  BY DEF Frame, DataFrame
<1>3. Sound(d)'
  BY <1>1 DEF Sound
<1>4. Answer(d)'
  BY <1>1, <1>2 DEF Answer
<1> QED BY <1>3, <1>4

------------------------------------------------------------------------------
(* The ways an attempt ends, for the call that makes it. *)
LEMMA FinishFacts ==
  ASSUME Inv, NEW c \in Callers, NEW r, Finish(c, r)
  PROVE  /\ ControlFrame(c)
         /\ pc'[c] = "done" /\ result'[c] = r /\ attempt'[c] = attempt[c] /\ idx'[c] = idx[c]
BY DEF Inv, ControlOK, Finish, ControlFrame

LEMMA FailFacts ==
  ASSUME Inv, NEW c \in Callers, NEW kind, Fail(c, kind)
  PROVE  /\ ControlFrame(c)
         /\ \/ /\ kind = "transient" /\ pc'[c] = Entry(c) /\ idx'[c] = 1
               /\ attempt'[c] = attempt[c] + 1 /\ result'[c] = result[c]
            \/ /\ pc'[c] = "done" /\ result'[c] = "failed" /\ attempt'[c] = attempt[c]
               /\ kind = "transient" => attempt[c] = MaxRetries
<1>1. CASE kind = "transient" /\ attempt[c] < MaxRetries
  <2>1. /\ pc' = [pc EXCEPT ![c] = Entry(c)] /\ idx' = [idx EXCEPT ![c] = 1]
        /\ attempt' = [attempt EXCEPT ![c] = attempt[c] + 1] /\ result' = result
    BY <1>1 DEF Fail
  <2> QED BY <1>1, <2>1 DEF Inv, ControlOK, ControlFrame
<1>2. CASE ~(kind = "transient" /\ attempt[c] < MaxRetries)
  <2>1. Finish(c, "failed")
    BY <1>2 DEF Fail
  <2>2. attempt[c] \in 0 .. MaxRetries
    BY DEF Inv, ControlOK
  <2> QED BY <1>2, <2>1, <2>2, FinishFacts, RegistryAssumption
<1> QED BY <1>1, <1>2

LEMMA FaultAnswers ==
  ASSUME Inv, NEW c \in Callers, Sound(c), pc[c] # "done", Fault(c)
  PROVE  ControlFrame(c) /\ FaultFrame(c) /\ Sound(c)' /\ Answer(c)'
<1>0. /\ attempt[c] \in 0 .. MaxRetries /\ transient[c] \in Nat /\ MaxRetries \in Nat
      /\ result[c] = "pending" /\ attempt[c] <= transient[c]
      /\ transient \in [Callers -> Nat] /\ final \in [Callers -> BOOLEAN]
  BY RegistryAssumption DEF Inv, ControlOK, FaultsOK, Sound
<1>1. PICK kind \in {"transient", "final"} :
        /\ Fail(c, kind)
        /\ IF kind = "transient"
             THEN transient' = [transient EXCEPT ![c] = @ + 1] /\ UNCHANGED final
             ELSE final' = [final EXCEPT ![c] = TRUE] /\ UNCHANGED transient
  BY DEF Fault
<1>2. FaultFrame(c)
  BY <1>0, <1>1 DEF FaultFrame
<1>3. Entry(c) # "done"
  BY EntryType
<1>4. CASE kind = "transient"
  <2>1. transient'[c] = transient[c] + 1
    BY <1>0, <1>1, <1>4
  <2>2. /\ attempt'[c] <= transient'[c] /\ transient'[c] > 0
        /\ \/ result'[c] = "pending" /\ pc'[c] # "done"
           \/ result'[c] = "failed" /\ pc'[c] = "done" /\ transient'[c] > MaxRetries
    BY <1>0, <1>1, <1>3, <1>4, <2>1, FailFacts
  <2> QED BY <1>1, <1>2, <2>2, FailFacts DEF Sound, Answer
<1>5. CASE kind = "final"
  <2>1. final'[c] = TRUE /\ transient'[c] = transient[c]
    BY <1>0, <1>1, <1>5
  <2>2. pc'[c] = "done" /\ result'[c] = "failed" /\ attempt'[c] = attempt[c]
    BY <1>1, <1>5, FailFacts
  <2> QED BY <1>0, <1>1, <1>2, <2>1, <2>2, FailFacts DEF Sound, Answer
<1> QED BY <1>4, <1>5

(* A refusal ends the call; a push is refused only after a retry. *)
LEMMA RefusedAnswers ==
  ASSUME Inv, NEW c \in Callers, Sound(c), Refused(c),
         c \in Pushers => transient[c] > 0 /\ drained'[c] # {}
  PROVE  ControlFrame(c) /\ FaultFrame(c) /\ Sound(c)' /\ Answer(c)'
<1>1. Fail(c, "final") /\ transient' = transient /\ final' = final
  BY DEF Refused
<1>2. pc'[c] = "done" /\ result'[c] = "failed" /\ attempt'[c] = attempt[c] /\ ControlFrame(c)
  BY <1>1, FailFacts
<1> QED BY <1>1, <1>2 DEF Sound, Answer, FaultFrame

(* A call that ends well knows its answer. *)
LEMMA FinishAnswers ==
  ASSUME Inv, NEW c \in Callers, Sound(c), Finish(c, "ok"), UNCHANGED <<transient, final>>,
         c \in Pushers \union Deleters => c \in effected',
         c \in Putters =>
           /\ digest'[c] \in store'
           /\ digest'[c] = Blob[c] \/ transient[c] > 0,
         c \in Pullers => config'[c] = Config[image'[c]]
  PROVE  ControlFrame(c) /\ FaultFrame(c) /\ Sound(c)' /\ Answer(c)'
<1>1. pc'[c] = "done" /\ result'[c] = "ok" /\ attempt'[c] = attempt[c] /\ ControlFrame(c)
  BY FinishFacts
<1> QED BY <1>1 DEF Sound, Answer, FaultFrame

(* The part at hand is in the store. *)
LEMMA NextPartAnswers ==
  ASSUME Inv, NEW c \in Callers, Sound(c), NextPart(c), UNCHANGED <<transient, final, digest>>,
         pc[c] \in {"head", "put"}, Current(c) \in store',
         drained'[c] \subseteq drained[c] \union {idx[c]}
  PROVE  ControlFrame(c) /\ FaultFrame(c) /\ Sound(c)' /\ Answer(c)'
<1>0. /\ c \in Pushers \union Putters /\ idx[c] \in Nat /\ transient[c] \in Nat
      /\ drained[c] \in SUBSET Nat
  BY DEF Inv, RoleOK, ControlOK, FaultsOK, DataOK
<1>1. CASE c \in Pushers
  <2> DEFINE where == IF idx[c] < Len(Parts[c]) THEN "head" ELSE "tag"
  <2>1. /\ pc' = [pc EXCEPT ![c] = where] /\ idx' = [idx EXCEPT ![c] = idx[c] + 1]
        /\ UNCHANGED <<attempt, result>>
    BY <1>1 DEF NextPart
  <2>2. where \in {"head", "tag"}
    OBVIOUS
  <2> HIDE DEF where
  <2>3. ControlFrame(c) /\ pc'[c] = where /\ idx'[c] = idx[c] + 1
    BY <2>1 DEF Inv, ControlOK, ControlFrame
  <2>4. c \notin Putters \union Deleters \union Pullers
    BY <1>1, RegistryAssumption
  <2>5. result'[c] = "pending" /\ attempt'[c] = attempt[c]
    BY <2>1 DEF Sound
  <2>6. transient[c] = 0 => \A i \in drained'[c] : i < idx'[c]
    BY <1>0, <1>1, <2>3 DEF Sound
  <2> QED BY <1>0, <2>2, <2>3, <2>4, <2>5, <2>6 DEF Sound, Answer, FaultFrame
<1>2. CASE c \in Putters
  <2>1. c \notin Pushers \union Deleters \union Pullers
    BY <1>2, RegistryAssumption
  <2>2. Finish(c, "ok") /\ digest[c] \in store'
    BY <2>1 DEF NextPart, Current
  <2>3. digest[c] = Blob[c] \/ transient[c] > 0
    BY <1>0, <1>2 DEF Sound
  <2> QED BY <2>1, <2>2, <2>3, FinishAnswers
<1> QED BY <1>0, <1>1, <1>2

(* The call goes on with nothing learned. *)
LEMMA GotoAnswers ==
  ASSUME Inv, NEW c \in Callers, Sound(c), NEW where, Goto(c, where), where \notin {"idle", "done"},
         pc[c] # "done", UNCHANGED <<transient, final>>,
         drained'[c] = drained[c] \/ c \in Putters,
         c \in Putters /\ transient[c] = 0 =>
           IF where = "read" THEN drained'[c] = {} ELSE digest'[c] = Blob[c]
  PROVE  ControlFrame(c) /\ FaultFrame(c) /\ Sound(c)' /\ Answer(c)'
<1>1. /\ ControlFrame(c) /\ pc'[c] = where /\ idx'[c] = idx[c]
      /\ attempt'[c] = attempt[c] /\ result'[c] = result[c]
  BY DEF Inv, ControlOK, Goto, ControlFrame
<1>2. result[c] = "pending"
  BY DEF Sound
<1>3. c \in Putters => c \notin Pushers
  BY RegistryAssumption
<1>4. c \in Pushers => drained'[c] = drained[c]
  BY <1>3
<1> QED BY <1>1, <1>2, <1>3, <1>4 DEF Sound, Answer, FaultFrame

(* No step of c changes what belongs to another call, and only a deleter     *)
(* takes a blob out of the store.                                           *)
LEMMA DataFrames ==
  ASSUME Inv, NEW c \in Callers, Start(c) \/ Step(c)
  PROVE  DataFrame(c)
<1> USE DEF Inv, DataOK, DataFrame
<1>1. CASE Start(c)
  BY <1>1 DEF Start, registryVars
<1>2. CASE HeadBlob(c)
  BY <1>2 DEF HeadBlob, registryVars, historyVars
<1>3. CASE PostUpload(c)
  BY <1>3 DEF PostUpload, registryVars
<1>4. CASE PutUpload(c)
  <2>1. store \subseteq store' /\ UNCHANGED <<digest, image, config, effected>>
    BY <1>4 DEF PutUpload
  <2>2. \A d \in Callers : d # c => drained'[d] = drained[d]
    BY <1>4 DEF PutUpload, Drain
  <2> QED BY <2>1, <2>2
<1>5. CASE PutManifest(c)
  BY <1>5 DEF PutManifest
<1>6. CASE ReadContent(c)
  BY <1>6 DEF ReadContent, registryVars, historyVars
<1>7. CASE DeleteBlob(c)
  <2>1. /\ UNCHANGED <<drained, digest, image, config>>
        /\ \/ store' = store /\ effected' = effected
           \/ store' = store \ {Blob[c]} /\ effected' = effected \union {c}
    BY <1>7 DEF DeleteBlob
  <2>2. c \in Deleters
    BY <1>7 DEF DeleteBlob, RoleOK
  <2> QED BY <2>1, <2>2
<1>8. CASE GetManifest(c)
  BY <1>8 DEF GetManifest, registryVars
<1>9. CASE GetConfig(c)
  BY <1>9 DEF GetConfig, registryVars
<1> QED BY <1>1, <1>2, <1>3, <1>4, <1>5, <1>6, <1>7, <1>8, <1>9 DEF Step

(* The call that moves keeps what it knows, and answers what is so. *)
LEMMA OwnAnswer ==
  ASSUME Inv, NEW c \in Callers, Sound(c), Start(c) \/ Step(c)
  PROVE  ControlFrame(c) /\ FaultFrame(c) /\ Sound(c)' /\ Answer(c)'
<1>0. /\ RoleOK(c) /\ transient[c] \in Nat /\ drained[c] \in SUBSET Nat
      /\ drained \in [Callers -> SUBSET Nat] /\ digest \in [Callers -> Digests]
      /\ image \in [Pullers -> Pushers \union {NoImage}] /\ config \in [Pullers -> Digests]
  BY DEF Inv, FaultsOK, DataOK
<1>a. /\ c \in Pushers => c \notin Putters \union Deleters \union Pullers
      /\ c \in Putters => c \notin Deleters \union Pullers
      /\ c \in Deleters => c \notin Pullers
  BY RegistryAssumption
<1>1. CASE Start(c)
  <2>1. pc[c] = "idle" /\ Goto(c, Entry(c)) /\ UNCHANGED <<drained, transient, final>>
    BY <1>1 DEF Start
  <2>2. Entry(c) \notin {"idle", "done"} /\ (c \in Putters => Entry(c) = "read")
    BY <1>a, EntryType DEF Entry
  <2> QED BY <2>1, <2>2, GotoAnswers DEF Sound
<1>2. CASE HeadBlob(c)
  <2>1. pc[c] = "head" /\ UNCHANGED <<store, drained, digest, transient, final>>
    BY <1>2 DEF HeadBlob, registryVars, historyVars
  <2>2. CASE Current(c) \in store /\ NextPart(c)
    BY <2>1, <2>2, NextPartAnswers
  <2>3. CASE Goto(c, "post")
    BY <2>1, <2>3, GotoAnswers DEF Sound
  <2> QED BY <1>2, <2>2, <2>3 DEF HeadBlob
<1>3. CASE PostUpload(c)
  <2>1. pc[c] = "post" /\ UNCHANGED <<drained, digest>>
    BY <1>3 DEF PostUpload
  <2>2. CASE Goto(c, "put") /\ UNCHANGED <<transient, final>>
    BY <2>1, <2>2, GotoAnswers DEF Sound
  <2>3. CASE Fault(c)
    BY <2>1, <2>3, FaultAnswers
  <2> QED BY <1>3, <2>2, <2>3 DEF PostUpload
<1>4. CASE PutUpload(c)
  <2>1. pc[c] = "put" /\ UNCHANGED digest
    BY <1>4 DEF PutUpload
  <2>2. CASE Fault(c)
    BY <2>1, <2>2, FaultAnswers
  <2>3. CASE /\ store' = store \union {Current(c)} /\ Drain(c)
             /\ NextPart(c) /\ UNCHANGED <<transient, final>>
    <3>1. drained'[c] \subseteq drained[c] \union {idx[c]}
      BY <1>0, <2>3 DEF Drain
    <3> QED BY <2>1, <2>3, <3>1, NextPartAnswers
  <2>4. CASE Body(c) # Current(c) /\ Refused(c) /\ UNCHANGED drained
    <3>1. c \in Pushers /\ idx[c] \in drained[c]
      BY <2>4 DEF Body
    <3>2. transient[c] # 0
      BY <1>0, <2>1, <3>1 DEF Sound
    <3> QED BY <1>0, <2>4, <3>1, <3>2, RefusedAnswers
  <2> QED BY <1>4, <2>2, <2>3, <2>4 DEF PutUpload
<1>5. CASE PutManifest(c)
  <2>1. pc[c] = "tag" /\ c \in Pushers
    BY <1>0, <1>5 DEF PutManifest, RoleOK
  <2>2. CASE Fault(c)
    BY <2>1, <2>2, FaultAnswers
  <2>3. CASE effected' = effected \union {c} /\ Finish(c, "ok") /\ UNCHANGED <<transient, final>>
    BY <1>a, <2>1, <2>3, FinishAnswers
  <2> QED BY <1>5, <2>2, <2>3 DEF PutManifest
<1>6. CASE ReadContent(c)
  <2>1. /\ pc[c] = "read" /\ Goto(c, "head") /\ c \in Putters
        /\ UNCHANGED <<transient, final>>
        /\ digest'[c] = IF 1 \in drained[c] THEN EmptyBlob ELSE Blob[c]
    BY <1>0, <1>6 DEF ReadContent, RoleOK, historyVars
  <2>2. transient[c] = 0 => digest'[c] = Blob[c]
    BY <2>1 DEF Sound
  <2> QED BY <2>1, <2>2, GotoAnswers
<1>7. CASE DeleteBlob(c)
  <2>1. pc[c] = "delete" /\ c \in Deleters
    BY <1>0, <1>7 DEF DeleteBlob, RoleOK
  <2>2. CASE Fault(c)
    BY <2>1, <2>2, FaultAnswers
  <2>3. CASE Refused(c)
    BY <1>a, <2>1, <2>3, RefusedAnswers
  <2>4. CASE effected' = effected \union {c} /\ Finish(c, "ok") /\ UNCHANGED <<transient, final>>
    BY <1>a, <2>1, <2>4, FinishAnswers
  <2> QED BY <1>7, <2>2, <2>3, <2>4 DEF DeleteBlob
<1>8. CASE GetManifest(c)
  <2>1. pc[c] = "manifest" /\ c \in Pullers /\ UNCHANGED <<drained, digest>>
    BY <1>0, <1>8 DEF GetManifest, RoleOK
  <2>2. CASE Fault(c)
    BY <2>1, <2>2, FaultAnswers
  <2>3. CASE Refused(c)
    BY <1>a, <2>1, <2>3, RefusedAnswers
  <2>4. CASE Goto(c, "config") /\ UNCHANGED <<transient, final>>
    BY <1>a, <2>1, <2>4, GotoAnswers
  <2> QED BY <1>8, <2>2, <2>3, <2>4 DEF GetManifest
<1>9. CASE GetConfig(c)
  <2>1. pc[c] = "config" /\ c \in Pullers
    BY <1>0, <1>9 DEF GetConfig, RoleOK
  <2>2. CASE Fault(c)
    BY <2>1, <2>2, FaultAnswers
  <2>3. CASE Refused(c)
    BY <1>a, <2>1, <2>3, RefusedAnswers
  <2>4. CASE /\ config' = [config EXCEPT ![c] = Config[image[c]]] /\ Finish(c, "ok")
             /\ UNCHANGED <<transient, final>>
    <3>1. config'[c] = Config[image'[c]]
      BY <1>0, <1>9, <2>1, <2>4 DEF GetConfig
    <3> QED BY <1>a, <2>1, <2>4, <3>1, FinishAnswers
  <2> QED BY <1>9, <2>2, <2>3, <2>4 DEF GetConfig
<1> QED BY <1>1, <1>2, <1>3, <1>4, <1>5, <1>6, <1>7, <1>8, <1>9 DEF Step

AnswersInv == \A c \in Callers : Sound(c) /\ Answer(c)

LEMMA AnswersStep == Inv /\ AnswersInv /\ [Next]_vars => AnswersInv'
<1> SUFFICES ASSUME Inv, AnswersInv, [Next]_vars PROVE AnswersInv'
  OBVIOUS
<1>1. ASSUME NEW c \in Callers, Start(c) \/ Step(c)
      PROVE  AnswersInv'
  <2>1. Sound(c) /\ Frame(c) /\ Sound(c)' /\ Answer(c)'
    BY <1>1, DataFrames, OwnAnswer DEF AnswersInv, Frame
  <2> QED BY <2>1, OthersAnswer DEF AnswersInv
<1>2. CASE UNCHANGED vars
  BY <1>2 DEF vars, registryVars, callVars, historyVars, AnswersInv, Sound, Answer
<1> QED BY <1>1, <1>2 DEF Next

(* What a call tells its caller is so, for any callers that run together:    *)
(* a success had its effect, a pull returns one image, a failure had a cause. *)
THEOREM AnswersAreAlwaysTrue == Spec => []AnswersAreTrue
<1>1. Init => AnswersInv
  <2> SUFFICES ASSUME Init, NEW c \in Callers PROVE Sound(c) /\ Answer(c)
    BY DEF AnswersInv
  <2>1. /\ pc[c] = "idle" /\ result[c] = "pending" /\ attempt[c] = 0
        /\ transient[c] = 0 /\ drained[c] = {}
    BY DEF Init
  <2>2. Sound(c)
    BY <2>1 DEF Sound
  <2>3. Answer(c)
    BY <2>1 DEF Answer
  <2> QED BY <2>2, <2>3
<1>2. AnswersInv => AnswersAreTrue
  BY DEF AnswersInv, Answer, AnswersAreTrue, SuccessIsReal, PullIsOneImage,
         FailuresAreExplained, Callers
<1> QED BY <1>1, <1>2, AnswersStep, Invariance, PTL DEF Spec
==============================================================================
