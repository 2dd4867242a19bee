------------------------------- MODULE Registry -------------------------------
(***************************************************************************)
(* The registry client of pkg/registry (client.go) behind the retrying     *)
(* wrapper (retry.go), and the registry it talks to.  Several callers each *)
(* make one call: Push an image, PutBlob, DeleteBlob or Pull.  Every HTTP  *)
(* request is one step, so the callers interleave at every request, and a  *)
(* request can fail before or after the registry has acted on it.  With    *)
(* MaxRetries = 0 the calls are those of the plain client.                 *)
(***************************************************************************)
EXTENDS Integers, Sequences

CONSTANTS Pushers, Putters, Deleters, Pullers,
          Blobs,           \* digests of non-empty contents
          EmptyBlob,       \* the digest of no bytes at all
          Tags, NoImage,
          Layers,          \* [Pushers -> Seq(Blobs)]: PushRequest.Blobs
          Config,          \* [Pushers -> Blobs]: the digest of the marshalled config
          Blob,            \* [Putters \union Deleters -> Blobs]: what to put or delete
          Tag,             \* [Pushers \union Pullers -> Tags]
          MaxRetries,
          Teams            \* a bound: the sets of callers that may run together

Callers == Pushers \union Putters \union Deleters \union Pullers
Digests == Blobs \union {EmptyBlob}

(* What Push uploads in order: the caller's blobs, then the config. *)
Parts == [c \in Pushers |-> Append(Layers[c], Config[c])]

(* What the manifest of a pusher's image names. *)
BlobsOf == [c \in Pushers |-> {Parts[c][i] : i \in 1 .. Len(Parts[c])}]

ASSUME RegistryAssumption ==
  /\ MaxRetries \in Nat
  /\ EmptyBlob \notin Blobs
  /\ NoImage \notin Pushers
  /\ Layers \in [Pushers -> Seq(Blobs)]
  /\ Config \in [Pushers -> Blobs]
  /\ Blob \in [Putters \union Deleters -> Blobs]
  /\ Tag \in [Pushers \union Pullers -> Tags]
  /\ Pushers \intersect (Putters \union Deleters \union Pullers) = {}
  /\ Putters \intersect (Deleters \union Pullers) = {}
  /\ Deleters \intersect Pullers = {}
  /\ Teams \subseteq SUBSET Callers

VARIABLES
  store, tags,             \* the registry: its blobs and its tags
  pc,                      \* [Callers -> where the call is]
  idx,                     \* [Callers -> the part being pushed]
  drained,                 \* [Callers -> the readers of the caller already read]
  digest,                  \* [Callers -> the digest PutBlob computed from what it read]
  image,                   \* [Pullers -> the manifest the current attempt fetched]
  config,                  \* [Pullers -> the config blob the current attempt fetched]
  attempt,                 \* [Callers -> the retry loop's counter]
  result,                  \* [Callers -> what the call returned]
  transient, final,        \* history: faults injected into the call
  effected,               \* history: pushers whose manifest the registry took
  deleted                  \* history: [Pushers -> blobs deleted since the call began]

registryVars == <<store, tags>>
callVars     == <<pc, idx, drained, digest, image, config, attempt, result>>
historyVars  == <<transient, final, effected, deleted>>
vars         == <<registryVars, callVars, historyVars>>

------------------------------------------------------------------------------
Init ==
  /\ store \in SUBSET Blobs
  /\ tags = [t \in Tags |-> NoImage]
  /\ pc = [c \in Callers |-> "idle"]
  /\ idx = [c \in Callers |-> 1]
  /\ drained = [c \in Callers |-> {}]
  /\ digest = [c \in Callers |-> EmptyBlob]
  /\ image = [c \in Pullers |-> NoImage]
  /\ config = [c \in Pullers |-> EmptyBlob]
  /\ attempt = [c \in Callers |-> 0]
  /\ result = [c \in Callers |-> "pending"]
  /\ transient = [c \in Callers |-> 0]
  /\ final = [c \in Callers |-> FALSE]
  /\ effected = {}
  /\ deleted = [c \in Pushers |-> {}]

(* The first request of an attempt. *)
Entry(c) ==
  CASE c \in Pushers  -> "head"
    [] c \in Putters  -> "read"
    [] c \in Deleters -> "delete"
    [] c \in Pullers  -> "manifest"

Finish(c, r) ==
  /\ pc' = [pc EXCEPT ![c] = "done"]
  /\ result' = [result EXCEPT ![c] = r]
  /\ UNCHANGED <<idx, attempt>>

(* Mutant: no error is retried. *)
FailAtOnce(c, kind) == Finish(c, "failed")

(* Mutant: one attempt too many. *)
FailOneMore(c, kind) ==
  IF kind = "transient" /\ attempt[c] <= MaxRetries
    THEN /\ pc' = [pc EXCEPT ![c] = Entry(c)]
         /\ idx' = [idx EXCEPT ![c] = 1]
         /\ attempt' = [attempt EXCEPT ![c] = @ + 1]
         /\ UNCHANGED result
    ELSE Finish(c, "failed")

(* The attempt failed; the retry loop starts it again from its first request *)
(* when the error is transient and attempts are left (see RetryContract).    *)
Fail(c, kind) ==
  IF kind = "transient" /\ attempt[c] < MaxRetries
    THEN /\ pc' = [pc EXCEPT ![c] = Entry(c)]
         /\ idx' = [idx EXCEPT ![c] = 1]
         /\ attempt' = [attempt EXCEPT ![c] = @ + 1]
         /\ UNCHANGED result
    ELSE Finish(c, "failed")

(* A fault of the network or the registry: a transport error that the retry  *)
(* loop takes for transient or not, or an error status, which the client     *)
(* turns into a plain error and the loop never retries.                      *)
Fault(c) ==
  \E kind \in {"transient", "final"} :
    /\ Fail(c, kind)
    /\ IF kind = "transient"
         THEN transient' = [transient EXCEPT ![c] = @ + 1] /\ UNCHANGED final
         ELSE final' = [final EXCEPT ![c] = TRUE] /\ UNCHANGED transient

(* Mutant: an error status starts the call again, and is not counted. *)
RefusedStartsAgain(c) ==
  /\ pc' = [pc EXCEPT ![c] = Entry(c)]
  /\ idx' = [idx EXCEPT ![c] = 1]
  /\ UNCHANGED <<attempt, result, transient, final>>

(* The registry refuses the request. *)
Refused(c) == Fail(c, "final") /\ UNCHANGED <<transient, final>>

Goto(c, where) ==
  /\ pc' = [pc EXCEPT ![c] = where]
  /\ UNCHANGED <<idx, attempt, result>>

Started == {c \in Callers : pc[c] # "idle"}

(* A call begins; a push is answerable for the blobs deleted from here on. *)
Start(c) ==
  /\ pc[c] = "idle"
  /\ \E team \in Teams : Started \union {c} \subseteq team
  /\ Goto(c, Entry(c))
  /\ deleted' = IF c \in Pushers THEN [deleted EXCEPT ![c] = {}] ELSE deleted
  /\ UNCHANGED <<registryVars, drained, digest, image, config,
                 transient, final, effected>>

------------------------------------------------------------------------------
(* pushBlob, shared by Push and PutBlob *)

Current(c) == IF c \in Pushers THEN Parts[c][idx[c]] ELSE digest[c]

(* The bytes the PUT of the current part sends.  Push hands the caller's    *)
(* reader to the request, so a reader read before sends nothing; the config *)
(* is marshalled again in each attempt, and PutBlob reads into a buffer.    *)
Body(c) == IF idx[c] \in drained[c] /\ c \in Pushers THEN EmptyBlob ELSE Current(c)

Drain(c) ==
  IF c \in Pushers /\ idx[c] <= Len(Layers[c])
    THEN drained' = [drained EXCEPT ![c] = @ \union {idx[c]}]
    ELSE UNCHANGED drained

(* Mutant: the manifest is uploaded before the config. *)
NextPartTagEarly(c) ==
  IF c \in Pushers
    THEN /\ pc' = [pc EXCEPT ![c] = IF idx[c] < Len(Parts[c]) - 1 THEN "head" ELSE "tag"]
         /\ idx' = [idx EXCEPT ![c] = @ + 1]
         /\ UNCHANGED <<attempt, result>>
    ELSE Finish(c, "ok")

(* The blob is there: on to the next one, and after the last to the manifest. *)
NextPart(c) ==
  IF c \in Pushers
    THEN /\ pc' = [pc EXCEPT ![c] = IF idx[c] < Len(Parts[c]) THEN "head" ELSE "tag"]
         /\ idx' = [idx EXCEPT ![c] = @ + 1]
         /\ UNCHANGED <<attempt, result>>
    ELSE Finish(c, "ok")

(* Mutant: any answer to HEAD counts as "exists". *)
HeadBlobAnyStatus(c) ==
  /\ pc[c] = "head"
  /\ NextPart(c) \/ Goto(c, "post")
  /\ UNCHANGED <<registryVars, drained, digest, image, config, historyVars>>

(* HEAD: only a 200 says the blob exists; every error means "upload it". *)
HeadBlob(c) ==
  /\ pc[c] = "head"
  /\ \/ Current(c) \in store /\ NextPart(c)
     \/ Goto(c, "post")
  /\ UNCHANGED <<registryVars, drained, digest, image, config, historyVars>>

(* POST: 202 with a Location opens the upload. *)
PostUpload(c) ==
  /\ pc[c] = "post"
  /\ \/ Goto(c, "put") /\ UNCHANGED <<transient, final>>
     \/ Fault(c)
  /\ UNCHANGED <<registryVars, drained, digest, image, config, effected, deleted>>

(* PUT: the registry stores a body that has the digest and refuses any other; *)
(* the answer may be lost, or the request may never arrive.                   *)
PutUpload(c) ==
  /\ pc[c] = "put"
  /\ \/ /\ Body(c) = Current(c)
        /\ store' = store \union {Current(c)}
        /\ Drain(c)
        /\ \/ NextPart(c) /\ UNCHANGED <<transient, final>>
           \/ Fault(c)
     \/ /\ Body(c) # Current(c)
        /\ Refused(c)
        /\ UNCHANGED <<store, drained>>
     \/ /\ Fault(c)
        /\ Drain(c) \/ UNCHANGED drained
        /\ UNCHANGED store
  /\ UNCHANGED <<tags, digest, image, config, effected, deleted>>

(* Mutant: the status of the answer is not looked at. *)
PutManifestAnyStatus(c) ==
  /\ pc[c] = "tag"
  /\ Finish(c, "ok")
  /\ \/ /\ tags' = [tags EXCEPT ![Tag[c]] = c]
        /\ effected' = effected \union {c}
     \/ UNCHANGED <<tags, effected>>
  /\ UNCHANGED <<store, drained, digest, image, config, transient, final, deleted>>

(* PUT of the manifest under the tag. *)
PutManifest(c) ==
  /\ pc[c] = "tag"
  /\ \/ /\ tags' = [tags EXCEPT ![Tag[c]] = c]
        /\ effected' = effected \union {c}
        /\ \/ Finish(c, "ok") /\ UNCHANGED <<transient, final>>
           \/ Fault(c)
     \/ /\ Fault(c)
        /\ UNCHANGED <<tags, effected>>
  /\ UNCHANGED <<store, drained, digest, image, config, deleted>>

------------------------------------------------------------------------------
(* PutBlob reads its io.Reader to the end in every attempt. *)
ReadContent(c) ==
  /\ pc[c] = "read"
  /\ digest' = [digest EXCEPT ![c] = IF 1 \in drained[c] THEN EmptyBlob ELSE Blob[c]]
  /\ drained' = [drained EXCEPT ![c] = {1}]
  /\ Goto(c, "head")
  /\ UNCHANGED <<registryVars, image, config, historyVars>>

(* DELETE: 404 for a blob that is not there, which the client reports. *)
DeleteBlob(c) ==
  /\ pc[c] = "delete"
  /\ \/ /\ Blob[c] \in store
        /\ store' = store \ {Blob[c]}
        /\ deleted' = [p \in Pushers |-> deleted[p] \union {Blob[c]}]
        /\ effected' = effected \union {c}
        /\ \/ Finish(c, "ok") /\ UNCHANGED <<transient, final>>
           \/ Fault(c)
     \/ /\ Blob[c] \notin store
        /\ Refused(c)
        /\ UNCHANGED <<store, deleted, effected>>
     \/ /\ Fault(c)
        /\ UNCHANGED <<store, deleted, effected>>
  /\ UNCHANGED <<tags, drained, digest, image, config>>

(* Pull: the manifest of the tag, then the config that manifest names. *)
GetManifest(c) ==
  /\ pc[c] = "manifest"
  /\ \/ /\ tags[Tag[c]] # NoImage
        /\ image' = [image EXCEPT ![c] = tags[Tag[c]]]
        /\ Goto(c, "config")
        /\ UNCHANGED <<transient, final>>
     \/ /\ tags[Tag[c]] = NoImage
        /\ Refused(c)
        /\ UNCHANGED image
     \/ /\ Fault(c)
        /\ UNCHANGED image
  /\ UNCHANGED <<registryVars, drained, digest, config, effected, deleted>>

(* Mutant: the config is looked up through the tag again. *)
GetConfigOfTag(c) ==
  /\ pc[c] = "config"
  /\ Config[tags[Tag[c]]] \in store
  /\ config' = [config EXCEPT ![c] = Config[tags[Tag[c]]]]
  /\ Finish(c, "ok")
  /\ UNCHANGED <<registryVars, drained, digest, image, historyVars>>

GetConfig(c) ==
  /\ pc[c] = "config"
  /\ \/ /\ Config[image[c]] \in store
        /\ config' = [config EXCEPT ![c] = Config[image[c]]]
        /\ Finish(c, "ok")
        /\ UNCHANGED <<transient, final>>
     \/ /\ Config[image[c]] \notin store
        /\ Refused(c)
        /\ UNCHANGED config
     \/ /\ Fault(c)
        /\ UNCHANGED config
  /\ UNCHANGED <<registryVars, drained, digest, image, effected, deleted>>

------------------------------------------------------------------------------
Step(c) ==
  \/ HeadBlob(c)    \/ PostUpload(c) \/ PutUpload(c)   \/ PutManifest(c)
  \/ ReadContent(c) \/ DeleteBlob(c) \/ GetManifest(c) \/ GetConfig(c)

Next == \E c \in Callers : Start(c) \/ Step(c)

(* A request is always answered or times out (Config.Timeout, 30 seconds by  *)
(* default); nobody has to start a call.                                     *)
Spec == Init /\ [][Next]_vars /\ \A c \in Callers : WF_vars(Step(c))

------------------------------------------------------------------------------
(* Every variable stays within its type; no call makes more than             *)
(* MaxRetries + 1 attempts.                                                  *)
TypeOK ==
  /\ store \subseteq Digests
  /\ tags \in [Tags -> Pushers \union {NoImage}]
  /\ pc \in [Callers -> {"idle", "head", "post", "put", "tag", "read", "delete",
                         "manifest", "config", "done"}]
  /\ idx \in [Callers -> Nat \ {0}]
  /\ drained \in [Callers -> SUBSET Nat]
  /\ digest \in [Callers -> Digests]
  /\ image \in [Pullers -> Pushers \union {NoImage}]
  /\ config \in [Pullers -> Digests]
  /\ attempt \in [Callers -> 0 .. MaxRetries]
  /\ result \in [Callers -> {"pending", "ok", "failed"}]
  /\ transient \in [Callers -> Nat]
  /\ final \in [Callers -> BOOLEAN]
  /\ effected \subseteq Callers
  /\ deleted \in [Pushers -> SUBSET Blobs]

(* An image a tag points at lacks only blobs that somebody deleted after the *)
(* push of the image began: Push uploads the manifest last, and neither a    *)
(* lost answer, nor a retry, nor a HEAD that fails lets it skip a blob.      *)
MissingOnlyIfDeleted ==
  \A t \in Tags : tags[t] # NoImage =>
    BlobsOf[tags[t]] \ store \subseteq deleted[tags[t]]

(* Push reports success only for an image whose manifest the registry took,  *)
(* DeleteBlob only for a blob the registry deleted, and PutBlob only for one *)
(* that is in the store, unless somebody deleted it.                         *)
SuccessIsReal ==
  /\ \A c \in Pushers \union Deleters : result[c] = "ok" => c \in effected
  /\ \A c \in Putters : result[c] = "ok" =>
       \/ digest[c] \in store
       \/ \E d \in Deleters \intersect effected : Blob[d] = digest[c]

(* A successful Pull returns the config of the very manifest it returns,     *)
(* although the tag may move between its two requests and its attempts.      *)
PullIsOneImage ==
  \A c \in Pullers : result[c] = "ok" => config[c] = Config[image[c]]

(* A push fails only on a fault that is not transient, on more transient    *)
(* faults than MaxRetries, or on a transient fault that came after it had    *)
(* read one of the caller's readers, which the retry cannot read again; and  *)
(* a successful PutBlob stored what it was given unless it was retried.      *)
FailuresAreExplained ==
  /\ \A c \in Pushers : result[c] = "failed" =>
       \/ final[c]
       \/ transient[c] > MaxRetries
       \/ transient[c] > 0 /\ drained[c] # {}
  /\ \A c \in Putters : result[c] = "ok" => digest[c] = Blob[c] \/ transient[c] > 0

(* What a call tells its caller is so. *)
AnswersAreTrue == SuccessIsReal /\ PullIsOneImage /\ FailuresAreExplained

(* Every call that was started returns. *)
CallsReturn == <>[](\A c \in Started : pc[c] = "done")

(* The client keeps the promise of ImageRepository to its users: a tag is    *)
(* moved only to an image whose blobs are all there, but for those deleted   *)
(* while it was pushed.                                                      *)
Repository == INSTANCE ImageRepository WITH
  Blobs <- Digests, Images <- Pushers, removed <- deleted
ImplementsRepository == Repository!Spec
==============================================================================
