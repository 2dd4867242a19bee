------------------------------ MODULE KeyStore ------------------------------
(***************************************************************************)
(* FileKeyProvider of pkg/signing/cosign.go: signing keys kept as files of *)
(* a directory that several commands may use, each of which may fail at a  *)
(* write or be killed between two steps.                                   *)
(*                                                                         *)
(* A file name is the sequence of its parts, <<"a", "key">> for a.key, and *)
(* so is a key reference, <<"a">> or <<"a", "key">>.  A key is an opaque   *)
(* value with a type; what is written of it is the type of the PEM block   *)
(* and the encoding inside, and a file that was cut off does not parse.    *)
(***************************************************************************)
EXTENDS Naturals, Sequences, SequencesExt, FiniteSetsExt

CONSTANTS
  Processes,   \* commands using the directory at once
  Refs,        \* key references in use
  Keys,        \* private keys, each standing for its pair
  KeyType,     \* [Keys -> "ecdsa", "ed25519" or "rsa"]
  Supplied,    \* names of private key files the user put there, all of Key0
  Key0,
  NoKey

ASSUME KeyAssumption == /\ Key0 \in Keys /\ NoKey \notin Keys
                        /\ "unknown" \notin Keys /\ "deleted" \notin Keys
                        /\ KeyType \in [Keys -> {"ecdsa", "ed25519", "rsa"}]
                        /\ \A r \in Refs \union Supplied : r \in Seq(STRING) /\ r # <<>>

VARIABLES
  files,    \* [Names -> content of the file]
  op,       \* [Processes -> the operation in progress and its next step]
  (* history *)
  last      \* [Refs -> what the last undisturbed operation on it was told it did]

vars == <<files, op, last>>

-----------------------------------------------------------------------------
(***************************************************************************)
(* The names the methods derive from a reference.                          *)
(***************************************************************************)
HasSuffix(name, ext) == Len(name) > 1 /\ Last(name) = ext
TrimSuffix(name, ext) == IF HasSuffix(name, ext) THEN Front(name) ELSE name

(* Mutant: keys are stored under the other extension. *)
StoredAsPem(ref) == Append(ref, "pem")

\* StoreKey and DeleteKey append the extension to every reference.
StorePath(ref) == Append(ref, "key")
PublicPath(ref) == Append(ref, "pub")

\* GetPrivateKey appends it only to a reference that has none.
GetPath(ref) == IF HasSuffix(ref, "key") \/ HasSuffix(ref, "pem") THEN ref
                ELSE Append(ref, "key")

\* GetPublicKey looks for the public file under three names, in this order.
PublicPaths(ref) == <<Append(ref, "pub"), Append(TrimSuffix(ref, "key"), "pub"),
                      Append(TrimSuffix(ref, "pem"), "pub")>>

\* ListKeys takes the reference back from the name of a private file.
ListedRef(name) == TrimSuffix(TrimSuffix(name, "key"), "pem")

\* Every file name that matters.
Names == UNION {{StorePath(r), StoredAsPem(r), GetPath(r)} \union ToSet(PublicPaths(r)) : r \in Refs}
         \union Supplied \union {GetPath(ListedRef(n)) : n \in Supplied}

-----------------------------------------------------------------------------
(***************************************************************************)
(* What the files hold.  The names of the encodings are those of x509.     *)
(***************************************************************************)
(* Mutant: the two older encodings change places. *)
MarshalSwapped(k) ==
  CASE KeyType[k] = "ecdsa"   -> [block |-> "EC PRIVATE KEY", der |-> "PKCS1"]
    [] KeyType[k] = "ed25519" -> [block |-> "PRIVATE KEY", der |-> "PKCS8"]
    [] KeyType[k] = "rsa"     -> [block |-> "RSA PRIVATE KEY", der |-> "EC"]

MarshalPrivateKey(k) ==
  CASE KeyType[k] = "ecdsa"   -> [block |-> "EC PRIVATE KEY", der |-> "EC"]
    [] KeyType[k] = "ed25519" -> [block |-> "PRIVATE KEY", der |-> "PKCS8"]
    [] KeyType[k] = "rsa"     -> [block |-> "RSA PRIVATE KEY", der |-> "PKCS1"]

MarshalPublicKey == [block |-> "PUBLIC KEY", der |-> "PKIX"]

ParsesAsPrivate(pem) ==
  pem \in {[block |-> "PRIVATE KEY", der |-> "PKCS8"],
           [block |-> "RSA PRIVATE KEY", der |-> "PKCS1"],
           [block |-> "EC PRIVATE KEY", der |-> "EC"]}

ParsesAsPublic(pem) ==
  pem \in {[block |-> "PUBLIC KEY", der |-> "PKIX"],
           [block |-> "RSA PUBLIC KEY", der |-> "PKCS1"]}

NoPem      == [block |-> "none", der |-> "none"]
Absent     == [exists |-> FALSE, pem |-> NoPem, key |-> NoKey]
Torn       == [exists |-> TRUE,  pem |-> NoPem, key |-> NoKey]
Private(k) == [exists |-> TRUE,  pem |-> MarshalPrivateKey(k), key |-> k]
Public(k)  == [exists |-> TRUE,  pem |-> MarshalPublicKey, key |-> k]
Contents   == {Absent, Torn} \union {Private(k) : k \in Keys} \union {Public(k) : k \in Keys}

\* An empty reference is refused.
GetPrivateKey(ref) ==
  IF ref # <<>> /\ ParsesAsPrivate(files[GetPath(ref)].pem) THEN files[GetPath(ref)].key
  ELSE NoKey

\* The key of the first public file of the reference that can be read.
PublicFile(ref) ==
  LET paths == PublicPaths(ref)
      found == {i \in DOMAIN paths : ParsesAsPublic(files[paths[i]].pem)}
  IN IF found = {} THEN NoKey ELSE files[paths[Min(found)]].key

(* Mutant: the public file is looked at before the private one. *)
GetPublicFileFirst(ref) ==
  IF PublicFile(ref) # NoKey THEN PublicFile(ref) ELSE GetPrivateKey(ref)

\* The public half of the private key if that can be read, or a public file.
GetPublicKey(ref) ==
  IF ref = <<>> THEN NoKey
  ELSE IF GetPrivateKey(ref) # NoKey THEN GetPrivateKey(ref)
  ELSE PublicFile(ref)

ListKeys ==
  {ListedRef(n) : n \in {m \in Names : /\ files[m].exists
                                       /\ HasSuffix(m, "key") \/ HasSuffix(m, "pem")
                                       /\ GetPrivateKey(ListedRef(m)) # NoKey}}

-----------------------------------------------------------------------------
Idle == [does |-> "idle", at |-> "start", ref |-> <<>>, key |-> NoKey, alone |-> TRUE]

Init ==
  /\ files = [n \in Names |-> IF n \in Supplied THEN Private(Key0) ELSE Absent]
  /\ op = [p \in Processes |-> Idle]
  /\ last = [r \in Refs |-> "unknown"]

\* An operation is undisturbed when no other one on the reference overlaps it.
Begin(p, what, ref, key, at) ==
  LET others == {q \in Processes : op[q].does # "idle" /\ op[q].ref = ref}
  IN /\ op[p].does = "idle"
     /\ op' = [q \in Processes |->
                 IF q = p THEN [does |-> what, at |-> at, ref |-> ref, key |-> key,
                                alone |-> others = {}]
                 ELSE IF q \in others THEN [op[q] EXCEPT !.alone = FALSE] ELSE op[q]]
     /\ last' = [last EXCEPT ![ref] = "unknown"]
     /\ UNCHANGED files

Goto(p, at) == op' = [op EXCEPT ![p].at = at]

\* The caller is told that the operation succeeded, or that it failed.
Succeed(p, what) ==
  /\ op' = [op EXCEPT ![p] = Idle]
  /\ last' = [last EXCEPT ![op[p].ref] = IF op[p].alone THEN what ELSE "unknown"]
Fail(p) == op' = [op EXCEPT ![p] = Idle] /\ UNCHANGED <<files, last>>

(***************************************************************************)
(* StoreKey: the private file, then the public one.  os.WriteFile empties  *)
(* the file and then writes it; either may fail.                           *)
(***************************************************************************)
StoreKey(p, ref, key) == Begin(p, "store", ref, key, "private")

EmptyFile(p, at, name, next) ==
  /\ op[p].does = "store" /\ op[p].at = at
  /\ \/ Fail(p)
     \/ files' = [files EXCEPT ![name] = Torn] /\ Goto(p, next) /\ UNCHANGED last

OpenPrivate(p) == EmptyFile(p, "private", StorePath(op[p].ref), "writePrivate")

(* Mutant: the operation is cleared before the key is written. *)
WriteCleared(p) ==
  /\ op[p].does = "store" /\ op[p].at = "writePrivate"
  /\ files' = [files EXCEPT ![StorePath(op[p].ref)] = [Private(op[p].key) EXCEPT !.key = NoKey]]
  /\ Goto(p, "public") /\ UNCHANGED last

WritePrivate(p) ==
  /\ op[p].does = "store" /\ op[p].at = "writePrivate"
  /\ \/ Fail(p)
     \/ /\ files' = [files EXCEPT ![StorePath(op[p].ref)] = Private(op[p].key)]
        /\ Goto(p, "public") /\ UNCHANGED last

OpenPublic(p) == EmptyFile(p, "public", PublicPath(op[p].ref), "writePublic")

WritePublic(p) ==
  /\ op[p].does = "store" /\ op[p].at = "writePublic"
  /\ \/ Fail(p)
     \/ /\ files' = [files EXCEPT ![PublicPath(op[p].ref)] = Public(op[p].key)]
        /\ Succeed(p, op[p].key)

(***************************************************************************)
(* DeleteKey: the private file, then the public one; a file that is not    *)
(* there is no error.                                                      *)
(***************************************************************************)
DeleteKey(p, ref) == Begin(p, "delete", ref, NoKey, "private")

RemovePrivate(p) ==
  /\ op[p].does = "delete" /\ op[p].at = "private"
  /\ \/ Fail(p)
     \/ /\ files' = [files EXCEPT ![StorePath(op[p].ref)] = Absent]
        /\ Goto(p, "public") /\ UNCHANGED last

(* Mutant: the public file is left behind. *)
KeepPublic(p) ==
  /\ op[p].does = "delete" /\ op[p].at = "public"
  /\ \/ Fail(p)
     \/ Succeed(p, "deleted") /\ UNCHANGED files

RemovePublic(p) ==
  /\ op[p].does = "delete" /\ op[p].at = "public"
  /\ \/ Fail(p)
     \/ /\ files' = [files EXCEPT ![PublicPath(op[p].ref)] = Absent]
        /\ Succeed(p, "deleted")

\* The command is killed: its caller is told nothing.
Crash(p) == op[p].does # "idle" /\ Fail(p)

Next == \E p \in Processes :
          \/ \E r \in Refs : \/ \E k \in Keys : StoreKey(p, r, k)
                             \/ DeleteKey(p, r)
          \/ OpenPrivate(p) \/ WritePrivate(p) \/ OpenPublic(p) \/ WritePublic(p)
          \/ RemovePrivate(p) \/ RemovePublic(p)
          \/ Crash(p)

Spec == Init /\ [][Next]_vars

-----------------------------------------------------------------------------
TypeOK ==
  /\ files \in [Names -> Contents]
  /\ op \in [Processes -> [does : {"idle", "store", "delete"},
                           at : {"start", "private", "writePrivate", "public", "writePublic"},
                           ref : Refs \union {<<>>}, key : Keys \union {NoKey},
                           alone : BOOLEAN]]
  /\ last \in [Refs -> Keys \union {"unknown", "deleted"}]

\* StoreKey and GetPrivateKey agree on the file of such a reference; one that
\* ends in .key or .pem is stored under one name and looked for under another.
Bare(r) == ~HasSuffix(r, "key") /\ ~HasSuffix(r, "pem")

(* What is signed with the key of a reference verifies with its public key: *)
(* while GetPrivateKey finds a key, GetPublicKey gives the public half of   *)
(* that very key, also in the middle of replacing the pair, after a command *)
(* was killed there, and when two references name one private file.         *)
SignedCanBeVerified ==
  \A r \in Refs : GetPrivateKey(r) # NoKey => GetPublicKey(r) = GetPrivateKey(r)

(* StoreKey keeps its word: a key it stored without error under a reference *)
(* without extension is the one the reference gives, and is listed, until   *)
(* the next operation on it, whatever other commands did to it before and   *)
(* do to other references meanwhile.                                        *)
StoredIsThere ==
  \A r \in Refs : Bare(r) /\ last[r] \in Keys =>
    GetPrivateKey(r) = last[r] /\ GetPublicKey(r) = last[r] /\ r \in ListKeys

(* DeleteKey keeps its word: nothing is left of the pair, not even of the   *)
(* pieces an earlier command that failed or was killed left behind, and the *)
(* reference is no longer listed.                                           *)
DeletedIsGone ==
  \A r \in Refs : Bare(r) /\ last[r] = "deleted" =>
    GetPrivateKey(r) = NoKey /\ GetPublicKey(r) = NoKey /\ r \notin ListKeys
(* The operations on keys keep their word, together.                        *)
KeysAreKept == SignedCanBeVerified /\ StoredIsThere /\ DeletedIsGone
=============================================================================
