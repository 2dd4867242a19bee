----------------------------- MODULE ArtifactProofs -----------------------------
(***************************************************************************)
(* Proofs about what accompanies an image.  KeyStore, for any commands,    *)
(* references and keys: an operation that reports success and was not      *)
(* disturbed did what it says.  Signing, for any images: what was signed   *)
(* is accepted.  SBOM, for any scans: documents stay right through merges  *)
(* that share their packages.                                              *)
(***************************************************************************)
EXTENDS Signing, SBOM, SequenceTheorems, FiniteSetTheorems, FunctionTheorems,
        WellFoundedInduction, TLAPS

Active(p) == op[p].does # "idle"

(* An operation in progress is at one of its own steps. *)
OperationsOK ==
  \A p \in Processes :
    /\ op[p].does = "store" =>
         op[p].ref \in Refs /\ op[p].key \in Keys /\ op[p].at # "start"
    /\ op[p].does = "delete" => op[p].ref \in Refs /\ op[p].at \in {"private", "public"}

(* An undisturbed operation is the only one on its reference. *)
AloneIsAlone ==
  \A p, q \in Processes :
    p # q /\ Active(p) /\ Active(q) /\ op[p].alone => op[q].ref # op[p].ref

(* Where the outcome is known, no operation is in progress. *)
Settled ==
  \A r \in Refs, p \in Processes : last[r] # "unknown" /\ Active(p) => op[p].ref # r

(* What is known of a reference, or half done by an undisturbed operation, *)
(* is in the files.                                                        *)
StoredFile == \A r \in Refs : last[r] \in Keys => files[StorePath(r)] = Private(last[r])
DeletedFiles ==
  \A r \in Refs : last[r] = "deleted" =>
    files[StorePath(r)] = Absent /\ files[PublicPath(r)] = Absent
HalfDone ==
  \A p \in Processes : op[p].alone =>
    /\ op[p].does = "store" /\ op[p].at \in {"public", "writePublic"} =>
         files[StorePath(op[p].ref)] = Private(op[p].key)
    /\ op[p].does = "delete" /\ op[p].at = "public" =>
         files[StorePath(op[p].ref)] = Absent

Ownership == AloneIsAlone /\ Settled
Known == StoredFile /\ DeletedFiles
IInv == TypeOK /\ OperationsOK /\ Ownership /\ Known /\ HalfDone

-----------------------------------------------------------------------------
(* File names.                                                              *)
Parts == STRING \union {"key", "pub"}

LEMMA RefsAreSequences ==
  \A r \in Refs : r \in Seq(Parts) /\ r # <<>>
<1>1. \A r \in Refs : r \in Seq(STRING) /\ r # <<>>
  BY KeyAssumption
<1>2. Seq(STRING) \subseteq Seq(Parts)
  BY SeqMonotonic DEF Parts
<1> QED BY <1>1, <1>2

(* No two references share a file of their pairs. *)
LEMMA PathsDiffer ==
  ASSUME NEW r \in Refs, NEW s \in Refs
  PROVE  /\ StorePath(r) # PublicPath(s)
         /\ r # s => StorePath(r) # StorePath(s) /\ PublicPath(r) # PublicPath(s)
<1>1. r \in Seq(Parts) /\ s \in Seq(Parts)
  BY RefsAreSequences
<1>2. "key" \in Parts /\ "pub" \in Parts
  BY DEF Parts
<1>3. /\ Append(r, "key") # Append(s, "pub")
      /\ r # s => Append(r, "key") # Append(s, "key") /\ Append(r, "pub") # Append(s, "pub")
  BY <1>1, <1>2, AppendInjective
<1> QED BY <1>3 DEF StorePath, PublicPath

LEMMA PathsAreNames ==
  ASSUME NEW r \in Refs
  PROVE  StorePath(r) \in Names /\ PublicPath(r) \in Names
<1>1. PublicPaths(r)[1] = PublicPath(r) /\ 1 \in DOMAIN PublicPaths(r)
  BY DEF PublicPaths, PublicPath
<1>2. PublicPath(r) \in ToSet(PublicPaths(r))
  BY <1>1 DEF ToSet
<1> QED BY <1>2 DEF Names

(* A bare reference is read where it was stored, and listed as itself. *)
LEMMA BareNames ==
  ASSUME NEW r \in Refs, Bare(r)
  PROVE  /\ GetPath(r) = StorePath(r)
         /\ PublicPaths(r) = <<PublicPath(r), PublicPath(r), PublicPath(r)>>
         /\ HasSuffix(StorePath(r), "key")
         /\ ListedRef(StorePath(r)) = r
<1>1. r \in Seq(Parts) /\ Len(r) \in Nat /\ Len(r) # 0 /\ "key" \in Parts
  <2>1. r \in Seq(Parts) /\ r # <<>>
    BY RefsAreSequences
  <2> QED BY <2>1, EmptySeq, LenProperties DEF Parts
<1>2. /\ Append(r, "key") \in Seq(Parts)
      /\ Len(Append(r, "key")) = Len(r) + 1
      /\ \A i \in 1 .. Len(r) : Append(r, "key")[i] = r[i]
      /\ Append(r, "key")[Len(r) + 1] = "key"
  BY <1>1, AppendProperties
<1>3. HasSuffix(StorePath(r), "key")
  BY <1>1, <1>2 DEF HasSuffix, StorePath, Last
<1>4. SubSeq(Append(r, "key"), 1, Len(Append(r, "key")) - 1) = r
  <2>1. SubSeq(Append(r, "key"), 1, Len(Append(r, "key")) - 1)
          = SubSeq(Append(r, "key"), 1, Len(r))
    BY <1>1, <1>2
  <2>2. Append(r, "key") = r \o <<"key">>
    BY <1>1, AppendIsConcat
  <2>3. <<"key">> \in Seq(Parts) /\ 1 \in 1 .. Len(r) /\ Len(r) \in 1 .. Len(r)
    BY <1>1
  <2>4. SubSeq(r \o <<"key">>, 1, Len(r)) = SubSeq(r, 1, Len(r))
    BY <1>1, <2>3, SubSeqOfConcat1
  <2> QED BY <2>1, <2>2, <2>4, <1>1, SubSeqFull
<1>5. ListedRef(StorePath(r)) = r
  BY <1>3, <1>4 DEF ListedRef, TrimSuffix, Front, StorePath, Bare
<1>6. GetPath(r) = StorePath(r)
  BY DEF Bare, GetPath, StorePath
<1>7. PublicPaths(r) = <<PublicPath(r), PublicPath(r), PublicPath(r)>>
  BY DEF Bare, PublicPaths, PublicPath, TrimSuffix
<1> QED BY <1>3, <1>5, <1>6, <1>7

-----------------------------------------------------------------------------
(* What may be read of a file. *)
LEMMA ContentFacts ==
  /\ \A k \in Keys : /\ ParsesAsPrivate(Private(k).pem) /\ Private(k).exists
                     /\ Private(k).key = k
  /\ ~ParsesAsPrivate(Absent.pem) /\ ~ParsesAsPublic(Absent.pem) /\ ~Absent.exists
<1>1. ASSUME NEW k \in Keys
      PROVE  ParsesAsPrivate(MarshalPrivateKey(k))
  <2>1. KeyType[k] \in {"ecdsa", "ed25519", "rsa"}
    BY KeyAssumption
  <2> QED BY <2>1 DEF ParsesAsPrivate, MarshalPrivateKey
<1>2. ~ParsesAsPrivate(NoPem) /\ ~ParsesAsPublic(NoPem)
  BY DEF ParsesAsPrivate, ParsesAsPublic, NoPem
<1> QED BY <1>1, <1>2 DEF Private, Absent

LEMMA ContentTypes ==
  /\ Absent \in Contents /\ Torn \in Contents
  /\ \A k \in Keys : Private(k) \in Contents /\ Public(k) \in Contents
BY DEF Contents

(* The files of the other references keep what they hold when a file of one *)
(* reference's pair is written.                                             *)
LEMMA WriteElsewhere ==
  ASSUME TypeOK, NEW r \in Refs, NEW s \in Refs, r # s, NEW c,
         NEW n \in {StorePath(r), PublicPath(r)}, files' = [files EXCEPT ![n] = c]
  PROVE  files'[StorePath(s)] = files[StorePath(s)] /\ files'[PublicPath(s)] = files[PublicPath(s)]
<1>1. n # StorePath(s) /\ n # PublicPath(s)
  BY PathsDiffer
<1> QED BY <1>1, PathsAreNames DEF TypeOK

LEMMA WriteHere ==
  ASSUME TypeOK, NEW r \in Refs, NEW c,
         NEW n \in {StorePath(r), PublicPath(r)}, files' = [files EXCEPT ![n] = c]
  PROVE  /\ files'[n] = c
         /\ n = PublicPath(r) => files'[StorePath(r)] = files[StorePath(r)]
         /\ c \in Contents => files' \in [Names -> Contents]
<1>1. n \in Names /\ StorePath(r) \in Names /\ StorePath(r) # PublicPath(r)
  BY PathsAreNames, PathsDiffer
<1> QED BY <1>1 DEF TypeOK

(* A step within an operation, or its end without success, that writes at   *)
(* most one file of the operation's pair.                                   *)
Within(p, n) ==
  /\ \/ \E at \in {"writePrivate", "public", "writePublic"} : op' = [op EXCEPT ![p].at = at]
     \/ op' = [op EXCEPT ![p] = Idle]
  /\ last' = last
  /\ \/ files' = files
     \/ \E c \in Contents : files' = [files EXCEPT ![n] = c]

LEMMA StepWithin ==
  ASSUME IInv, NEW p \in Processes, Active(p), NEW n, Within(p, n),
         n \in {StorePath(op[p].ref), PublicPath(op[p].ref)},
         op[p].does = "delete" => op'[p].does = "idle" \/ op'[p].at = "public",
         op'[p].does # "idle" /\ op'[p].alone =>
           /\ op'[p].does = "store" /\ op'[p].at \in {"public", "writePublic"} =>
                files'[StorePath(op'[p].ref)] = Private(op'[p].key)
           /\ op'[p].does = "delete" /\ op'[p].at = "public" =>
                files'[StorePath(op'[p].ref)] = Absent
  PROVE  IInv'
<1> DEFINE ref == op[p].ref
<1>1. ref \in Refs /\ op[p].does \in {"store", "delete"}
  BY DEF IInv, TypeOK, OperationsOK, Active
<1>2. \A q \in Processes : q # p => op'[q] = op[q]
  BY DEF Within, IInv, TypeOK
<1>3. \/ op'[p] = Idle
      \/ /\ op'[p].does = op[p].does /\ op'[p].ref = ref /\ op'[p].key = op[p].key
         /\ op'[p].alone = op[p].alone /\ op'[p].at \in {"writePrivate", "public", "writePublic"}
  BY DEF Within, IInv, TypeOK
<1>4. \A s \in Refs : s # ref => /\ files'[StorePath(s)] = files[StorePath(s)]
                                 /\ files'[PublicPath(s)] = files[PublicPath(s)]
  <2>1. CASE files' = files
    BY <2>1
  <2>2. CASE \E c \in Contents : files' = [files EXCEPT ![n] = c]
    <3>1. PICK c \in Contents : files' = [files EXCEPT ![n] = c]
      BY <2>2
    <3> QED BY <3>1, <1>1, WriteElsewhere DEF IInv
  <2> QED BY <2>1, <2>2 DEF Within
<1>5. last[ref] = "unknown"
  BY <1>1 DEF IInv, Ownership, Settled
<1>6. TypeOK'
  <2>1. files' \in [Names -> Contents]
    <3>1. CASE files' = files
      BY <3>1 DEF IInv, TypeOK
    <3>2. CASE \E c \in Contents : files' = [files EXCEPT ![n] = c]
      BY <3>2, <1>1, WriteHere DEF IInv
    <3> QED BY <3>1, <3>2 DEF Within
  <2>2. op' \in [Processes -> [does : {"idle", "store", "delete"},
                           at : {"start", "private", "writePrivate", "public", "writePublic"},
                           ref : Refs \union {<<>>}, key : Keys \union {NoKey},
                           alone : BOOLEAN]]
    <3>1. CASE op' = [op EXCEPT ![p] = Idle]
      BY <3>1 DEF IInv, TypeOK, Idle
    <3>2. CASE \E at \in {"writePrivate", "public", "writePublic"} : op' = [op EXCEPT ![p].at = at]
      BY <3>2 DEF IInv, TypeOK
    <3> QED BY <3>1, <3>2 DEF Within
  <2> QED BY <2>1, <2>2 DEF Within, IInv, TypeOK
<1>7. OperationsOK'
  <2>1. Idle.does = "idle"
    BY DEF Idle
  <2> QED BY <1>2, <1>3, <2>1 DEF IInv, OperationsOK
<1>8. Ownership'
  <2>1. Idle.does = "idle"
    BY DEF Idle
  <2> QED BY <1>2, <1>3, <2>1 DEF IInv, Ownership, AloneIsAlone, Settled, Active, Within
<1>9. Known'
  <2>1. \A s \in Refs : s = ref => last'[s] \notin Keys /\ last'[s] # "deleted"
    BY <1>5, KeyAssumption DEF Within
  <2>2. StoredFile'
    BY <2>1, <1>4 DEF IInv, Known, StoredFile, Within
  <2>3. DeletedFiles'
    BY <2>1, <1>4 DEF IInv, Known, DeletedFiles, Within
  <2> QED BY <2>2, <2>3 DEF Known
<1>10. HalfDone'
  <2> SUFFICES ASSUME NEW q \in Processes, op'[q].alone
               PROVE  /\ op'[q].does = "store" /\ op'[q].at \in {"public", "writePublic"} =>
                           files'[StorePath(op'[q].ref)] = Private(op'[q].key)
                      /\ op'[q].does = "delete" /\ op'[q].at = "public" =>
                           files'[StorePath(op'[q].ref)] = Absent
    BY DEF HalfDone
  <2>1. CASE q = p
    BY <2>1
  <2>2. CASE q # p /\ Active(q)
    <3>1. op[q].ref \in Refs /\ op[q].ref # ref /\ op'[q] = op[q]
      BY <2>2, <1>2 DEF IInv, OperationsOK, TypeOK, Ownership, AloneIsAlone, Active
    <3> QED BY <3>1, <1>4 DEF IInv, HalfDone
  <2>3. CASE q # p /\ ~Active(q)
    BY <2>3, <1>2 DEF Active
  <2> QED BY <2>1, <2>2, <2>3
<1> QED BY <1>6, <1>7, <1>8, <1>9, <1>10 DEF IInv

(* The end of an operation with success: if it was undisturbed, its files   *)
(* are as it reports.                                                       *)
LEMMA StepEnds ==
  ASSUME IInv, NEW p \in Processes, Active(p), NEW what \in Keys \union {"deleted"},
         Succeed(p, what), NEW c \in Contents,
         files' = [files EXCEPT ![PublicPath(op[p].ref)] = c],
         op[p].alone => /\ what \in Keys => files'[StorePath(op[p].ref)] = Private(what)
                        /\ what = "deleted" => /\ files'[StorePath(op[p].ref)] = Absent
                                               /\ files'[PublicPath(op[p].ref)] = Absent
  PROVE  IInv'
<1> DEFINE ref == op[p].ref
<1>1. ref \in Refs
  BY DEF IInv, TypeOK, OperationsOK, Active
<1>2. /\ op'[p] = Idle /\ \A q \in Processes : q # p => op'[q] = op[q]
      /\ Idle.does = "idle"
  BY DEF Succeed, IInv, TypeOK, Idle
<1>3. \A s \in Refs : s # ref => /\ files'[StorePath(s)] = files[StorePath(s)]
                                 /\ files'[PublicPath(s)] = files[PublicPath(s)]
  BY <1>1, WriteElsewhere DEF IInv
<1>4. /\ last'[ref] = IF op[p].alone THEN what ELSE "unknown"
      /\ \A s \in Refs : s # ref => last'[s] = last[s]
  BY <1>1 DEF Succeed, IInv, TypeOK
<1>5. TypeOK'
  <2>1. files' \in [Names -> Contents]
    BY <1>1, WriteHere DEF IInv
  <2>2. last' \in [Refs -> Keys \union {"unknown", "deleted"}]
    BY <1>1 DEF Succeed, IInv, TypeOK
  <2>3. op' \in [Processes -> [does : {"idle", "store", "delete"},
                           at : {"start", "private", "writePrivate", "public", "writePublic"},
                           ref : Refs \union {<<>>}, key : Keys \union {NoKey},
                           alone : BOOLEAN]]
    BY DEF Succeed, IInv, TypeOK, Idle
  <2> QED BY <2>1, <2>2, <2>3 DEF TypeOK
<1>6. OperationsOK'
  BY <1>2 DEF IInv, OperationsOK
<1>7. AloneIsAlone'
  BY <1>2 DEF IInv, Ownership, AloneIsAlone, Active
<1>8. Settled'
  <2> SUFFICES ASSUME NEW r \in Refs, NEW q \in Processes, last'[r] # "unknown", Active(q)'
               PROVE  op'[q].ref # r
    BY DEF Settled
  <2>1. q # p /\ op'[q] = op[q] /\ Active(q)
    BY <1>2 DEF Active
  <2>2. CASE r = ref
    <3>1. op[p].alone
      BY <2>2, <1>4
    <3> QED BY <3>1, <2>1, <2>2 DEF IInv, Ownership, AloneIsAlone
  <2>3. CASE r # ref
    BY <2>1, <2>3, <1>4 DEF IInv, Ownership, Settled
  <2> QED BY <2>2, <2>3
<1>9. Known'
  <2>1. StoredFile'
    BY <1>3, <1>4, KeyAssumption DEF IInv, Known, StoredFile
  <2>2. DeletedFiles'
    BY <1>3, <1>4, KeyAssumption DEF IInv, Known, DeletedFiles
  <2> QED BY <2>1, <2>2 DEF Known
<1>10. HalfDone'
  <2> SUFFICES ASSUME NEW q \in Processes, op'[q].alone
               PROVE  /\ op'[q].does = "store" /\ op'[q].at \in {"public", "writePublic"} =>
                           files'[StorePath(op'[q].ref)] = Private(op'[q].key)
                      /\ op'[q].does = "delete" /\ op'[q].at = "public" =>
                           files'[StorePath(op'[q].ref)] = Absent
    BY DEF HalfDone
  <2>1. CASE q # p /\ Active(q)
    <3>1. op[q].ref \in Refs /\ op[q].ref # ref /\ op'[q] = op[q]
      BY <2>1, <1>2 DEF IInv, OperationsOK, TypeOK, Ownership, AloneIsAlone, Active
    <3> QED BY <3>1, <1>3 DEF IInv, HalfDone
  <2>2. CASE q = p \/ ~Active(q)
    BY <2>2, <1>2 DEF Active
  <2> QED BY <2>1, <2>2
<1> QED BY <1>5, <1>6, <1>7, <1>8, <1>9, <1>10 DEF IInv, Ownership

(* The start of an operation: from now on nothing is known of its reference. *)
LEMMA StepBegins ==
  ASSUME IInv, NEW p \in Processes, NEW what \in {"store", "delete"}, NEW ref \in Refs,
         NEW key \in Keys \union {NoKey}, what = "store" => key \in Keys,
         Begin(p, what, ref, key, "private")
  PROVE  IInv'
<1> DEFINE others == {q \in Processes : op[q].does # "idle" /\ op[q].ref = ref}
<1>1. op[p].does = "idle" /\ p \notin others /\ files' = files
  BY DEF Begin
<1>2. op'[p] = [does |-> what, at |-> "private", ref |-> ref, key |-> key, alone |-> others = {}]
  BY DEF Begin
<1>3. ASSUME NEW q \in Processes, q # p
      PROVE  /\ op'[q].does = op[q].does /\ op'[q].at = op[q].at /\ op'[q].ref = op[q].ref
             /\ op'[q].key = op[q].key
             /\ op'[q].alone => op[q].alone /\ q \notin others
  <2>1. op'[q] = IF q \in others THEN [op[q] EXCEPT !.alone = FALSE] ELSE op[q]
    BY <1>3 DEF Begin
  <2>2. op[q] \in [does : {"idle", "store", "delete"},
                   at : {"start", "private", "writePrivate", "public", "writePublic"},
                   ref : Refs \union {<<>>}, key : Keys \union {NoKey}, alone : BOOLEAN]
    BY DEF IInv, TypeOK
  <2>3. CASE q \in others
    BY <2>1, <2>2, <2>3
  <2>4. CASE q \notin others
    BY <2>1, <2>4
  <2> QED BY <2>3, <2>4
<1>4. /\ last'[ref] = "unknown"
      /\ \A s \in Refs : s # ref => last'[s] = last[s]
  BY DEF Begin, IInv, TypeOK
<1>5. TypeOK'
  <2>1. last' \in [Refs -> Keys \union {"unknown", "deleted"}]
    BY DEF Begin, IInv, TypeOK
  <2>2. op' \in [Processes -> [does : {"idle", "store", "delete"},
                           at : {"start", "private", "writePrivate", "public", "writePublic"},
                           ref : Refs \union {<<>>}, key : Keys \union {NoKey},
                           alone : BOOLEAN]]
    <3>1. (others = {}) \in BOOLEAN
      OBVIOUS
    <3> QED BY <3>1 DEF Begin, IInv, TypeOK
  <2> QED BY <2>1, <2>2, <1>1 DEF IInv, TypeOK
<1>6. OperationsOK'
  BY <1>2, <1>3 DEF IInv, OperationsOK
<1>7. AloneIsAlone'
  <2> SUFFICES ASSUME NEW a \in Processes, NEW b \in Processes, a # b,
                      op'[a].does # "idle", op'[b].does # "idle", op'[a].alone
               PROVE  op'[b].ref # op'[a].ref
    BY DEF AloneIsAlone, Active
  <2>1. CASE a = p
    <3>1. PICK lone : /\ lone = (others = {})
                      /\ op'[p] = [does |-> what, at |-> "private", ref |-> ref, key |-> key,
                                   alone |-> lone]
      BY <1>2
    <3>2. op'[a].ref = ref /\ op'[a].alone = lone
      <4>1. op'[a] = [does |-> what, at |-> "private", ref |-> ref, key |-> key, alone |-> lone]
        BY <2>1, <3>1, Zenon
      <4> HIDE DEF others
      <4> QED BY ONLY <4>1
    <3>3. others = {}
      BY <3>1, <3>2, Zenon
    <3> QED BY <2>1, <3>2, <3>3, <1>3
  <2>2. CASE b = p
    <3>1. a \notin others /\ op'[b].ref = ref /\ op[a].does # "idle" /\ op'[a].ref = op[a].ref
      BY <2>2, <1>2, <1>3
    <3> QED BY <3>1
  <2>3. CASE a # p /\ b # p
    BY <2>3, <1>3 DEF IInv, Ownership, AloneIsAlone, Active
  <2> QED BY <2>1, <2>2, <2>3
<1>8. Settled'
  BY <1>2, <1>3, <1>4 DEF IInv, Ownership, Settled, Active
<1>9. Known'
  BY <1>1, <1>4, KeyAssumption DEF IInv, Known, StoredFile, DeletedFiles
<1>10. HalfDone'
  BY <1>1, <1>2, <1>3 DEF IInv, HalfDone
<1> QED BY <1>5, <1>6, <1>7, <1>8, <1>9, <1>10 DEF IInv, Ownership

-----------------------------------------------------------------------------
LEMMA InitHolds == Init => IInv
<1> SUFFICES ASSUME Init PROVE IInv
  OBVIOUS
<1>1. TypeOK
  BY KeyAssumption, ContentTypes DEF Init, TypeOK, Idle
<1>2. \A p \in Processes : op[p].does = "idle"
  BY DEF Init, Idle
<1>3. \A r \in Refs : last[r] = "unknown"
  BY DEF Init
<1>4. OperationsOK /\ Ownership /\ HalfDone
  BY <1>2 DEF OperationsOK, Ownership, AloneIsAlone, Settled, HalfDone, Active
<1>5. Known
  BY <1>3, KeyAssumption DEF Known, StoredFile, DeletedFiles
<1> QED BY <1>1, <1>4, <1>5 DEF IInv

(* Every action keeps the invariant. *)
LEMMA NextHolds == IInv /\ [Next]_vars => IInv'
<1> SUFFICES ASSUME IInv, [Next]_vars PROVE IInv'
  OBVIOUS
<1>1. CASE UNCHANGED vars
  BY <1>1 DEF vars, IInv, TypeOK, OperationsOK, Ownership, AloneIsAlone, Settled, Known,
              StoredFile, DeletedFiles, HalfDone, Active, PublicPath, StorePath
<1>2. ASSUME NEW p \in Processes, NEW r \in Refs, NEW k \in Keys, StoreKey(p, r, k)
      PROVE  IInv'
  BY <1>2, StepBegins DEF StoreKey
<1>3. ASSUME NEW p \in Processes, NEW r \in Refs, DeleteKey(p, r)
      PROVE  IInv'
  BY <1>3, StepBegins DEF DeleteKey
<1>4. ASSUME NEW p \in Processes, Active(p), Fail(p)
      PROVE  IInv'
  <2>1. op'[p] = Idle /\ Idle.does = "idle"
    BY <1>4 DEF Fail, IInv, TypeOK, Idle
  <2>2. Within(p, StorePath(op[p].ref))
    BY <1>4 DEF Fail, Within
  <2> QED BY <1>4, <2>1, <2>2, StepWithin
<1>5. ASSUME NEW p \in Processes, Active(p), NEW name, NEW c \in Contents,
             NEW at \in {"writePrivate", "public", "writePublic"},
             files' = [files EXCEPT ![name] = c], Goto(p, at), UNCHANGED last
      PROVE  Within(p, name)
  BY <1>5 DEF Within, Goto
<1>6. ASSUME NEW p \in Processes, NEW at, Goto(p, at)
      PROVE  /\ op'[p].at = at /\ op'[p].does = op[p].does /\ op'[p].ref = op[p].ref
             /\ op'[p].key = op[p].key /\ op'[p].alone = op[p].alone
  BY <1>6 DEF Goto, IInv, TypeOK
<1>7. ASSUME NEW p \in Processes, OpenPrivate(p)
      PROVE  IInv'
  <2>1. op[p].does = "store" /\ op[p].at = "private" /\ Active(p)
    BY <1>7 DEF OpenPrivate, EmptyFile, Active
  <2>2. CASE files' = [files EXCEPT ![StorePath(op[p].ref)] = Torn]
             /\ Goto(p, "writePrivate") /\ UNCHANGED last
    <3>1. Within(p, StorePath(op[p].ref))
      BY <2>1, <2>2, <1>5, ContentTypes
    <3>2. op'[p].at = "writePrivate" /\ op'[p].does = "store"
      BY <2>1, <2>2, <1>6
    <3> QED BY <2>1, <3>1, <3>2, StepWithin
  <2> QED BY <1>4, <1>7, <2>1, <2>2 DEF OpenPrivate, EmptyFile
<1>8. ASSUME NEW p \in Processes, WritePrivate(p)
      PROVE  IInv'
  <2>1. op[p].does = "store" /\ op[p].at = "writePrivate" /\ Active(p)
    BY <1>8 DEF WritePrivate, Active
  <2>2. op[p].ref \in Refs /\ op[p].key \in Keys
    BY <2>1 DEF IInv, OperationsOK
  <2>3. CASE files' = [files EXCEPT ![StorePath(op[p].ref)] = Private(op[p].key)]
             /\ Goto(p, "public") /\ UNCHANGED last
    <3>1. Within(p, StorePath(op[p].ref))
      BY <2>1, <2>2, <2>3, <1>5, ContentTypes
    <3>2. /\ op'[p].at = "public" /\ op'[p].does = "store" /\ op'[p].ref = op[p].ref
          /\ op'[p].key = op[p].key
      BY <2>1, <2>3, <1>6
    <3>3. files'[StorePath(op[p].ref)] = Private(op[p].key)
      BY <2>2, <2>3, WriteHere DEF IInv
    <3> QED BY <2>1, <3>1, <3>2, <3>3, StepWithin
  <2> QED BY <1>4, <1>8, <2>1, <2>3 DEF WritePrivate
<1>9. ASSUME NEW p \in Processes, OpenPublic(p)
      PROVE  IInv'
  <2>1. op[p].does = "store" /\ op[p].at = "public" /\ Active(p) /\ op[p].ref \in Refs
    BY <1>9 DEF OpenPublic, EmptyFile, Active, IInv, OperationsOK
  <2>2. CASE files' = [files EXCEPT ![PublicPath(op[p].ref)] = Torn]
             /\ Goto(p, "writePublic") /\ UNCHANGED last
    <3>1. Within(p, PublicPath(op[p].ref))
      BY <2>1, <2>2, <1>5, ContentTypes
    <3>2. /\ op'[p].at = "writePublic" /\ op'[p].does = "store" /\ op'[p].ref = op[p].ref
          /\ op'[p].key = op[p].key /\ op'[p].alone = op[p].alone
      BY <2>1, <2>2, <1>6
    <3>3. files'[StorePath(op[p].ref)] = files[StorePath(op[p].ref)]
      BY <2>1, <2>2, WriteHere DEF IInv
    <3>4. op[p].alone => files[StorePath(op[p].ref)] = Private(op[p].key)
      BY <2>1 DEF IInv, HalfDone
    <3> QED BY <2>1, <3>1, <3>2, <3>3, <3>4, StepWithin
  <2> QED BY <1>4, <1>9, <2>1, <2>2 DEF OpenPublic, EmptyFile
<1>10. ASSUME NEW p \in Processes, WritePublic(p)
       PROVE  IInv'
  <2>1. /\ op[p].does = "store" /\ op[p].at = "writePublic" /\ Active(p)
        /\ op[p].ref \in Refs /\ op[p].key \in Keys
    BY <1>10 DEF WritePublic, Active, IInv, OperationsOK
  <2>2. CASE files' = [files EXCEPT ![PublicPath(op[p].ref)] = Public(op[p].key)]
             /\ Succeed(p, op[p].key)
    <3>1. files'[StorePath(op[p].ref)] = files[StorePath(op[p].ref)]
      BY <2>1, <2>2, ContentTypes, WriteHere DEF IInv
    <3>2. op[p].alone => files[StorePath(op[p].ref)] = Private(op[p].key)
      BY <2>1 DEF IInv, HalfDone
    <3>3. op[p].key # "deleted" /\ Public(op[p].key) \in Contents
      BY <2>1, KeyAssumption, ContentTypes
    <3> QED BY <2>1, <2>2, <3>1, <3>2, <3>3, StepEnds
  <2> QED BY <1>4, <1>10, <2>1, <2>2 DEF WritePublic
<1>11. ASSUME NEW p \in Processes, RemovePrivate(p)
       PROVE  IInv'
  <2>1. op[p].does = "delete" /\ op[p].at = "private" /\ Active(p) /\ op[p].ref \in Refs
    BY <1>11 DEF RemovePrivate, Active, IInv, OperationsOK
  <2>2. CASE files' = [files EXCEPT ![StorePath(op[p].ref)] = Absent]
             /\ Goto(p, "public") /\ UNCHANGED last
    <3>1. Within(p, StorePath(op[p].ref))
      BY <2>1, <2>2, <1>5, ContentTypes
    <3>2. op'[p].at = "public" /\ op'[p].does = "delete" /\ op'[p].ref = op[p].ref
      BY <2>1, <2>2, <1>6
    <3>3. files'[StorePath(op[p].ref)] = Absent
      BY <2>1, <2>2, WriteHere DEF IInv
    <3> QED BY <2>1, <3>1, <3>2, <3>3, StepWithin
  <2> QED BY <1>4, <1>11, <2>1, <2>2 DEF RemovePrivate
<1>12. ASSUME NEW p \in Processes, RemovePublic(p)
       PROVE  IInv'
  <2>1. op[p].does = "delete" /\ op[p].at = "public" /\ Active(p) /\ op[p].ref \in Refs
    BY <1>12 DEF RemovePublic, Active, IInv, OperationsOK
  <2>2. CASE files' = [files EXCEPT ![PublicPath(op[p].ref)] = Absent]
             /\ Succeed(p, "deleted")
    <3>1. /\ files'[StorePath(op[p].ref)] = files[StorePath(op[p].ref)]
          /\ files'[PublicPath(op[p].ref)] = Absent
      BY <2>1, <2>2, WriteHere DEF IInv
    <3>2. op[p].alone => files[StorePath(op[p].ref)] = Absent
      BY <2>1 DEF IInv, HalfDone
    <3>3. "deleted" \notin Keys
      BY KeyAssumption
    <3> QED BY <2>1, <2>2, <3>1, <3>2, <3>3, ContentTypes, StepEnds
  <2> QED BY <1>4, <1>12, <2>1, <2>2 DEF RemovePublic
<1>13. ASSUME NEW p \in Processes, Crash(p)
       PROVE  IInv'
  BY <1>4, <1>13 DEF Crash, Active
<1> QED BY <1>1, <1>2, <1>3, <1>7, <1>8, <1>9, <1>10, <1>11, <1>12, <1>13 DEF Next

(* What the operations in progress own and what is known of a reference     *)
(* stays in the files, whatever the other operations do.                    *)
THEOREM Invariance == Spec => []IInv
<1>1. Init => IInv
  BY InitHolds
<1>2. IInv /\ [Next]_vars => IInv'
  BY NextHolds
<1> QED BY <1>1, <1>2, PTL DEF Spec

-----------------------------------------------------------------------------
(* The public key of a reference is read from its private file first. *)
LEMMA PublicFollowsPrivate ==
  ASSUME NEW r \in Refs
  PROVE  GetPrivateKey(r) # NoKey => GetPublicKey(r) = GetPrivateKey(r)
BY RefsAreSequences DEF GetPublicKey

LEMMA StoredIsFound ==
  ASSUME IInv, NEW r \in Refs, Bare(r), last[r] \in Keys
  PROVE  GetPrivateKey(r) = last[r] /\ GetPublicKey(r) = last[r] /\ r \in ListKeys
<1>1. files[StorePath(r)] = Private(last[r])
  BY DEF IInv, Known, StoredFile
<1>2. GetPrivateKey(r) = last[r]
  BY <1>1, BareNames, ContentFacts, RefsAreSequences DEF GetPrivateKey
<1>3. last[r] # NoKey
  BY KeyAssumption
<1>4. r \in ListKeys
  BY <1>1, <1>2, <1>3, BareNames, ContentFacts, PathsAreNames DEF ListKeys
<1> QED BY <1>2, <1>3, <1>4, PublicFollowsPrivate

LEMMA DeletedIsNotFound ==
  ASSUME IInv, NEW r \in Refs, Bare(r), last[r] = "deleted"
  PROVE  GetPrivateKey(r) = NoKey /\ GetPublicKey(r) = NoKey /\ r \notin ListKeys
<1>1. files[StorePath(r)] = Absent /\ files[PublicPath(r)] = Absent
  BY DEF IInv, Known, DeletedFiles
<1>2. GetPrivateKey(r) = NoKey
  BY <1>1, BareNames, ContentFacts DEF GetPrivateKey
<1>3. PublicFile(r) = NoKey
  <2>1. PublicPaths(r) = <<PublicPath(r), PublicPath(r), PublicPath(r)>>
    BY BareNames
  <2>2. \A i \in DOMAIN PublicPaths(r) : PublicPaths(r)[i] = PublicPath(r)
    BY <2>1
  <2> QED BY <2>2, <1>1, ContentFacts DEF PublicFile
<1>4. r \notin ListKeys
  BY <1>2 DEF ListKeys
<1> QED BY <1>2, <1>3, <1>4 DEF GetPublicKey

(* StoreKey, DeleteKey, GetPublicKey and ListKeys keep their word, for any   *)
(* number of commands that overlap, fail or are killed anywhere: KeysAreKept. *)
THEOREM KeysAreKeptAlways == Spec => []KeysAreKept
<1>1. IInv => KeysAreKept
  BY PublicFollowsPrivate, StoredIsFound, DeletedIsNotFound
     DEF KeysAreKept, SignedCanBeVerified, StoredIsThere, DeletedIsGone
<1> QED BY <1>1, Invariance, PTL

-----------------------------------------------------------------------------
(* The least and the greatest of the positions of a part of an image.       *)
LEMMA LeastNat ==
  ASSUME NEW S \in SUBSET Nat, S # {}
  PROVE  Min(S) \in S /\ \A j \in S : Min(S) <= j
<1>1. PICK i \in S : \A j \in S : ~ (<<j, i>> \in OpToRel(<, Nat))
  BY WFMin, NatLessThanWellFounded
<1>2. \A j \in S : ~ (j < i)
  BY <1>1 DEF OpToRel
<1>3. \A j \in S : i <= j
  BY <1>2
<1> QED BY <1>3 DEF Min

LEMMA GreatestBelow ==
  ASSUME NEW n \in Nat, NEW S \in SUBSET (1 .. n), S # {}
  PROVE  Max(S) \in S /\ \A j \in S : j <= Max(S)
<1> DEFINE T == {n - i : i \in S}
<1>1. T \in SUBSET Nat /\ T # {}
  <2>1. \A i \in S : n - i \in Nat
    OBVIOUS
  <2>2. PICK i \in S : TRUE
    OBVIOUS
  <2>3. n - i \in T
    BY <2>2
  <2> QED BY <2>1, <2>3
<1>2. Min(T) \in T /\ \A u \in T : Min(T) <= u
  BY <1>1, LeastNat
<1>3. PICK i \in S : Min(T) = n - i
  BY <1>2
<1>4. \A j \in S : Min(T) <= n - j
  BY <1>2
<1>5. \A j \in S : j <= i
  <2>1. \A j \in S : n - i <= n - j
    BY <1>3, <1>4
  <2> QED BY <2>1
<1> QED BY <1>5 DEF Max

(* StripTag takes off what the grammar of references calls the tag. *)
LEMMA TagIsStripped ==
  ASSUME NEW image \in Images
  PROVE  StripTag(image) = Repository(image)
<1> DEFINE n == Len(image)
           colons == Positions(":", image)
           slashes == Positions("/", image)
           start == IF slashes = {} THEN 0 ELSE Max(slashes)
           after == {i \in colons : i > start}
<1>1. image \in Seq(STRING) /\ n \in Nat /\ DOMAIN image = 1 .. n
  BY ImageAssumption
<1>2. colons \subseteq 1 .. n /\ slashes \subseteq 1 .. n
  BY <1>1 DEF Positions
<1>3. start \in Nat /\ \A k \in slashes : k <= start
  <2>1. CASE slashes = {}
    BY <2>1
  <2>2. CASE slashes # {}
    <3>1. Max(slashes) \in slashes /\ \A k \in slashes : k <= Max(slashes)
      BY <2>2, <1>1, <1>2, GreatestBelow
    <3>2. start = Max(slashes) /\ Max(slashes) \in 1 .. n
      BY <2>2, <3>1, <1>2
    <3> QED BY <3>1, <3>2
  <2> QED BY <2>1, <2>2
<1>4. CASE colons = {}
  BY <1>4 DEF StripTag, Repository
<1>5. CASE colons # {} /\ \A k \in slashes : k < Max(colons)
  <2>1. Max(colons) \in colons /\ \A j \in colons : j <= Max(colons)
    BY <1>1, <1>2, <1>5, GreatestBelow
  <2>2. start < Max(colons)
    <3>1. CASE slashes = {}
      BY <3>1, <2>1, <1>2
    <3>2. CASE slashes # {}
      BY <3>2, <1>1, <1>2, <1>5, GreatestBelow
    <3> QED BY <3>1, <3>2
  <2>3. \A j \in after : j = Max(colons)
    <3> SUFFICES ASSUME NEW j \in after, j # Max(colons) PROVE FALSE
      OBVIOUS
    <3>1. j \in 1 .. n /\ Max(colons) \in 1 .. n /\ j < Max(colons)
      BY <1>2, <2>1
    <3>2. image[j] = ":" /\ image[Max(colons)] = ":"
      BY <2>1 DEF Positions
    <3>3. PICK k \in j .. Max(colons) : image[k] = "/"
      BY <3>1, <3>2, <1>1, ImageAssumption
    <3>4. k \in slashes
      BY <3>1, <3>3, <1>1 DEF Positions
    <3> QED BY <3>1, <3>3, <3>4, <1>3
  <2>4. after = {Max(colons)}
    BY <2>1, <2>2, <2>3
  <2>5. Min(after) = Max(colons)
    <3>1. after \in SUBSET Nat /\ after # {}
      BY <2>4, <2>1, <1>2
    <3> QED BY <3>1, <2>4, LeastNat
  <2>6. StripTag(image) = SubSeq(image, 1, Max(colons) - 1)
    BY <1>5 DEF StripTag
  <2>7. Repository(image) = SubSeq(image, 1, Min(after) - 1)
    BY <2>4 DEF Repository
  <2> QED BY <2>5, <2>6, <2>7
<1>6. CASE colons # {} /\ ~ \A k \in slashes : k < Max(colons)
  <2>1. \A j \in colons : j <= Max(colons)
    BY <1>1, <1>2, <1>6, GreatestBelow
  <2>2. Max(colons) \in 1 .. n
    BY <1>1, <1>2, <1>6, GreatestBelow
  <2>3. PICK k \in slashes : Max(colons) <= k
    BY <1>2, <1>6, <2>2
  <2>4. after = {}
    BY <2>1, <2>2, <2>3, <1>2, <1>3
  <2>5. StripTag(image) = image
    BY <1>6 DEF StripTag
  <2>6. Repository(image) = image
    BY <2>4 DEF Repository
  <2> QED BY <2>5, <2>6
<1> QED BY <1>4, <1>5, <1>6

(* What the verifier looks up has one "@", so it parses. *)
LEMMA LookupParses ==
  ASSUME NEW image \in Images
  PROVE  \A i, j \in Positions("@", StripTag(image) \o <<"@", Digest>>) : i = j
<1> DEFINE s == StripTag(image)
<1>1. image \in Seq(STRING) /\ \A i \in DOMAIN image : image[i] # "@"
  BY ImageAssumption
<1>2. s \in Seq(STRING) /\ \A i \in DOMAIN s : s[i] # "@"
  <2>1. CASE s = image
    BY <2>1, <1>1
  <2>2. CASE s # image
    <3> DEFINE m == Max(Positions(":", image))
    <3>1. Positions(":", image) # {} /\ s = SubSeq(image, 1, m - 1)
      BY <2>2 DEF StripTag
    <3>2. Positions(":", image) \in SUBSET (1 .. Len(image)) /\ Len(image) \in Nat
      BY <1>1 DEF Positions
    <3>3. m \in 1 .. Len(image)
      BY <3>1, <3>2, GreatestBelow
    <3> HIDE DEF m
    <3>4. \A i \in 1 .. (m - 1) : i \in DOMAIN image /\ SubSeq(image, 1, m - 1)[i] = image[i]
      BY <3>3, <1>1
    <3>5. SubSeq(image, 1, m - 1) \in Seq(STRING) /\ Len(SubSeq(image, 1, m - 1)) = m - 1
      BY <3>3, <1>1
    <3> QED BY <3>1, <3>4, <3>5, <1>1
  <2> QED BY <2>1, <2>2
<1> HIDE DEF s
<1>3. /\ Len(s \o <<"@", Digest>>) = Len(s) + 2
      /\ \A i \in 1 .. Len(s) : (s \o <<"@", Digest>>)[i] = s[i]
      /\ (s \o <<"@", Digest>>)[Len(s) + 2] = Digest
      /\ DOMAIN (s \o <<"@", Digest>>) = 1 .. (Len(s) + 2)
  BY <1>2
<1>4. \A i \in Positions("@", s \o <<"@", Digest>>) : i = Len(s) + 1
  <2>0. Len(s) \in Nat /\ DOMAIN s = 1 .. Len(s)
    BY <1>2
  <2> SUFFICES ASSUME NEW i \in 1 .. (Len(s) + 2), (s \o <<"@", Digest>>)[i] = "@"
              PROVE i = Len(s) + 1
    BY <1>3 DEF Positions
  <2>1. i \notin 1 .. Len(s)
    BY <2>0, <1>2, <1>3
  <2>2. i # Len(s) + 2
    BY <1>3, ImageAssumption
  <2> QED BY <2>0, <2>1, <2>2
<1> QED BY <1>4 DEF s

LEMMA ImagesVerify == SignedImagesVerify
<1> SUFFICES ASSUME NEW r \in RefsGiven, NEW image \in Images, Sign(image, Digest, r).ok
             PROVE  /\ Verify(image, Digest, r).ok
                    /\ Verify(image, Digest, r).payload
                         = Repository(image) \o <<"@", Digest>>
  BY DEF SignedImagesVerify
<1>1. image # NoImage /\ Digest # "" /\ GetPrivateKey(r) # NoKey
  BY DEF Sign, Refused
<1>2. r # NoRef /\ GetPublicKey(r) # NoKey
  BY <1>1 DEF GetPublicKey, GetPrivateKey, NoRef
<1>3. Verify(image, Digest, r)
        = [ok |-> TRUE, payload |-> StripTag(image) \o <<"@", Digest>>]
  BY <1>1, <1>2, LookupParses DEF Verify
<1> QED BY <1>3, TagIsStripped

(* The signature of a statement is made with the key of the reference. *)
KeyOf(r) == IF r = NoRef THEN Key0 ELSE GetPublicKey(r)

LEMMA GeneratedIsValid ==
  ASSUME NEW req, GenerateAttestation(req).ok
  PROVE  LET a == GenerateAttestation(req).attestation
         IN  /\ ValidateAttestation(a, KeyOf(req.keyRef))
             /\ req.keyRef # NoRef =>
                  /\ a.signature.algorithm = SigningAlgorithm(KeyOf(req.keyRef))
                  /\ a.signature # NoSignature
<1> DEFINE a == GenerateAttestation(req).attestation
           r == req.keyRef
<1>1. req.subject # "" /\ req.predicateType # "" /\ req.predicate # "nil"
  BY DEF GenerateAttestation, Refused
<1>2. CASE r = NoRef
  <2>1. a = Statement(req)
    BY <1>1, <1>2 DEF GenerateAttestation
  <2>2. KeyOf(r) # NoKey
    BY <1>2, KeyAssumption DEF KeyOf
  <2>3. /\ a.signature = NoSignature
        /\ a.type = "Statement/v0.1" /\ a.subject = req.subject
        /\ a.digests = {"sha256"} /\ a.predicateType = req.predicateType
        /\ a.predicate = req.predicate
    BY <2>1 DEF Statement
  <2>4. ValidStructure(a)
    BY <1>1, <2>3 DEF ValidStructure
  <2> QED BY <1>2, <2>2, <2>3, <2>4 DEF ValidateAttestation
<1>3. CASE r # NoRef
  <2>1. req.predicate # "func" /\ SignBlob("statement", r).ok
    BY <1>1, <1>3 DEF GenerateAttestation, Refused
  <2>2. GetPrivateKey(r) # NoKey /\ r # <<>>
    BY <2>1, <1>3 DEF SignBlob, Refused, NoRef
  <2>3. KeyOf(r) = GetPrivateKey(r) /\ KeyOf(r) # NoKey
    BY <1>3, <2>2 DEF KeyOf, GetPublicKey
  <2>4. a = [Statement(req) EXCEPT !.signature = SignBlob("statement", r).signature]
    BY <1>1, <1>3, <2>1 DEF GenerateAttestation
  <2>5. SignBlob("statement", r).signature
          = [keyID |-> r, payload |-> "statement", algorithm |-> SigningAlgorithm(KeyOf(r))]
    BY <1>3, <2>2, <2>3 DEF SignBlob
  <2>6. /\ a.signature = SignBlob("statement", r).signature
        /\ a.type = "Statement/v0.1" /\ a.subject = req.subject
        /\ a.digests = {"sha256"} /\ a.predicateType = req.predicateType
        /\ a.predicate = req.predicate
    BY <2>4 DEF Statement
  <2>7. a.signature.algorithm = SigningAlgorithm(KeyOf(r)) /\ a.signature.payload # "none"
    BY <2>5, <2>6
  <2>8. a.signature # NoSignature
    BY <2>7 DEF NoSignature
  <2>9. ValidStructure(a)
    BY <1>1, <2>6 DEF ValidStructure
  <2> QED BY <1>3, <2>1, <2>3, <2>6, <2>7, <2>8, <2>9
          DEF ValidateAttestation, VerifyBlob
<1> QED BY <1>2, <1>3

LEMMA ValidAttestations == AttestationsValidate
<1>1. ASSUME NEW subject \in {"", "image"}, NEW type \in {"", "sbom"},
             NEW predicate \in {"nil", "data", "func"}, NEW r \in RefsGiven
      PROVE  LET g == GenerateAttestation([subject |-> subject, predicateType |-> type,
                                           predicate |-> predicate, keyRef |-> r])
                 key == IF r = NoRef THEN Key0 ELSE GetPublicKey(r)
             IN  g.ok => /\ ValidateAttestation(g.attestation, key)
                         /\ r # NoRef => g.attestation.signature.algorithm = SigningAlgorithm(key)
  <2> DEFINE req == [subject |-> subject, predicateType |-> type, predicate |-> predicate,
                     keyRef |-> r]
  <2>1. req.keyRef = r
    OBVIOUS
  <2> HIDE DEF req
  <2>2. GenerateAttestation(req).ok =>
          /\ ValidateAttestation(GenerateAttestation(req).attestation, KeyOf(r))
          /\ r # NoRef => GenerateAttestation(req).attestation.signature.algorithm
                            = SigningAlgorithm(KeyOf(r))
    BY <2>1, GeneratedIsValid
  <2> QED BY <2>2 DEF req, KeyOf
<1>2. ASSUME NEW r \in RefsGiven, NEW subject \in {"", "image"}, NEW type \in {"sbom", "slsa"}
      PROVE  LET g == GeneratePredicate(subject, type, r)
             IN  g.ok => g.attestation.signature # NoSignature
  <2> DEFINE req == [subject |-> subject, predicateType |-> type, predicate |-> "data",
                     keyRef |-> r]
  <2>1. CASE r = NoRef
    BY <2>1 DEF GeneratePredicate, Refused
  <2>2. CASE r # NoRef
    <3>1. GeneratePredicate(subject, type, r) = GenerateAttestation(req) /\ req.keyRef = r
      BY <2>2 DEF GeneratePredicate
    <3> HIDE DEF req
    <3>2. GenerateAttestation(req).ok =>
            GenerateAttestation(req).attestation.signature # NoSignature
      BY <2>2, <3>1, GeneratedIsValid
    <3> QED BY <3>1, <3>2
  <2> QED BY <2>1, <2>2
<1> QED BY <1>1, <1>2 DEF AttestationsValidate

(* The verifier and the validator accept what the signer and the generators *)
(* made, with the key of the same reference and whatever other commands do  *)
(* to the key files meanwhile: SignaturesAreAccepted.                       *)
THEOREM SignaturesAreAlwaysAccepted == Spec => []SignaturesAreAccepted
<1>1. SignaturesAreAccepted
  BY ImagesVerify, ValidAttestations DEF SignaturesAreAccepted
<1> QED BY <1>1, PTL

-----------------------------------------------------------------------------
(* SBOM.                                                                    *)

(* The elements of a set of numbers by rank. *)
UpTo(S, i) == {j \in S : j <= i}

LEMMA Ranks ==
  ASSUME NEW n \in Nat, NEW S \in SUBSET (1 .. n)
  PROVE  /\ Cardinality(S) \in Nat
         /\ \A i \in S : Cardinality(UpTo(S, i)) \in 1 .. Cardinality(S)
         /\ \A i, j \in S : Cardinality(UpTo(S, i)) = Cardinality(UpTo(S, j)) => i = j
         /\ \A k \in 1 .. Cardinality(S) : \E i \in S : Cardinality(UpTo(S, i)) = k
<1>1. IsFiniteSet(S) /\ Cardinality(S) \in Nat
  <2>1. IsFiniteSet(1 .. n)
    BY FS_Interval
  <2>2. IsFiniteSet(S)
    BY <2>1, FS_Subset
  <2> QED BY <2>2, FS_CardinalityType
<1>2. \A i \in S : /\ UpTo(S, i) \in SUBSET S /\ i \in UpTo(S, i) /\ IsFiniteSet(UpTo(S, i))
                   /\ Cardinality(UpTo(S, i)) \in Nat
                   /\ Cardinality(UpTo(S, i)) \in 1 .. Cardinality(S)
  <2> SUFFICES ASSUME NEW i \in S
               PROVE  /\ UpTo(S, i) \in SUBSET S /\ i \in UpTo(S, i) /\ IsFiniteSet(UpTo(S, i))
                      /\ Cardinality(UpTo(S, i)) \in Nat
                      /\ Cardinality(UpTo(S, i)) \in 1 .. Cardinality(S)
    OBVIOUS
  <2>1. UpTo(S, i) \in SUBSET S /\ i \in UpTo(S, i)
    BY DEF UpTo
  <2>2. IsFiniteSet(UpTo(S, i)) /\ Cardinality(UpTo(S, i)) <= Cardinality(S)
    BY <1>1, <2>1, FS_Subset
  <2>3. Cardinality(UpTo(S, i)) \in Nat /\ Cardinality(UpTo(S, i)) # 0
    BY <2>1, <2>2, FS_CardinalityType, FS_EmptySet
  <2> QED BY <1>1, <2>1, <2>2, <2>3
<1>3. ASSUME NEW i \in S, NEW j \in S, i < j
      PROVE  Cardinality(UpTo(S, i)) # Cardinality(UpTo(S, j))
  <2>1. UpTo(S, i) \in SUBSET UpTo(S, j) /\ j \in UpTo(S, j) /\ j \notin UpTo(S, i)
    <3>1. \A k \in S : k <= i => k <= j
      BY <1>3
    <3>2. j <= j /\ ~(j <= i)
      BY <1>3
    <3> HIDE <1>3
    <3> QED BY <3>1, <3>2 DEF UpTo
  <2> QED BY <1>2, <2>1, FS_Subset
<1>4. \A i, j \in S : Cardinality(UpTo(S, i)) = Cardinality(UpTo(S, j)) => i = j
  <2>1. \A i, j \in S : i < j \/ j < i \/ i = j
    OBVIOUS
  <2> QED BY <1>3, <2>1
<1> DEFINE f == [i \in S |-> Cardinality(UpTo(S, i))]
           K == 1 .. Cardinality(S)
<1>5. f \in Injection(S, K)
  BY <1>2, <1>4, Fun_IsInj
<1>6. IsFiniteSet(K) /\ Cardinality(K) = Cardinality(S)
  BY <1>1, FS_Interval
<1>7. f \in Surjection(S, K)
  BY <1>5, <1>6, FS_Injection
<1>8. \A k \in K : \E i \in S : f[i] = k
  <2> HIDE DEF f, K
  <2> QED BY <1>7, Fun_SurjectionProperties
<1>9. \A i \in S : f[i] = Cardinality(UpTo(S, i))
  OBVIOUS
<1> HIDE DEF f
<1> QED BY <1>1, <1>2, <1>4, <1>8, <1>9

-----------------------------------------------------------------------------
(* A list put together from parts: each place is of one of them, and they   *)
(* come in order.                                                           *)
ListedFrom(list, parts, n, from) ==
  /\ from \in [DOMAIN list -> 1 .. n]
  /\ \A p, q \in DOMAIN list : p < q => from[p] <= from[q]
  /\ \A p \in DOMAIN list : list[p] \in ToSet(parts[from[p]])
  /\ \A i \in 1 .. n : \A a \in ToSet(parts[i]) :
       \E p \in DOMAIN list : list[p] = a /\ from[p] = i

LEMMA FirstPart ==
  ASSUME NEW S, NEW parts \in Seq(Seq(S)), Len(parts) >= 1
  PROVE  \E from : ListedFrom(parts[1], parts, 1, from)
<1>1. parts[1] \in Seq(S)
  BY ElementOfSeq, LenProperties
<1> DEFINE from == [p \in DOMAIN parts[1] |-> 1]
<1>2. ListedFrom(parts[1], parts, 1, from)
  BY <1>1 DEF ListedFrom, ToSet
<1> QED BY <1>2

LEMMA NextPart ==
  ASSUME NEW S, NEW parts \in Seq(Seq(S)), NEW n \in Nat \ {0}, n + 1 <= Len(parts),
         NEW list \in Seq(S), NEW from, ListedFrom(list, parts, n, from)
  PROVE  /\ list \o parts[n+1] \in Seq(S)
         /\ \E new : ListedFrom(list \o parts[n+1], parts, n + 1, new)
<1> DEFINE part == parts[n+1]
           longer == list \o part
           new == [p \in DOMAIN longer |-> IF p <= Len(list) THEN from[p] ELSE n + 1]
<1>0. n + 1 \in 1 .. Len(parts)
  BY LenProperties
<1>1. part \in Seq(S)
  BY <1>0, ElementOfSeq
<1> HIDE DEF part
<1>2. /\ longer \in Seq(S) /\ Len(longer) = Len(list) + Len(part)
      /\ \A p \in 1 .. Len(list) + Len(part) :
           longer[p] = IF p <= Len(list) THEN list[p] ELSE part[p - Len(list)]
  BY <1>1, ConcatProperties
<1>3. /\ DOMAIN list = 1 .. Len(list) /\ DOMAIN part = 1 .. Len(part)
      /\ Len(list) \in Nat /\ Len(part) \in Nat
      /\ DOMAIN longer = 1 .. Len(list) + Len(part)
  BY <1>1, <1>2, LenProperties
<1> HIDE DEF longer
<1>4. \A p \in DOMAIN list : from[p] \in 1 .. n
  BY DEF ListedFrom
<1>11. \A p \in DOMAIN longer : new[p] = IF p <= Len(list) THEN from[p] ELSE n + 1
  OBVIOUS
<1>6. new \in [DOMAIN longer -> 1 .. n + 1]
  BY <1>3, <1>4
<1> HIDE DEF new
<1>5. /\ \A p \in DOMAIN list : p \in DOMAIN longer /\ new[p] = from[p] /\ longer[p] = list[p]
      /\ \A q \in DOMAIN part : /\ q + Len(list) \in DOMAIN longer
                                /\ new[q + Len(list)] = n + 1 /\ longer[q + Len(list)] = part[q]
      /\ \A p \in DOMAIN longer :
           \/ p \in DOMAIN list
           \/ p > Len(list) /\ p - Len(list) \in DOMAIN part /\ new[p] = n + 1
              /\ longer[p] = part[p - Len(list)]
  <2>1. \A p \in DOMAIN list : p \in DOMAIN longer /\ p <= Len(list)
    BY <1>3
  <2>2. \A q \in DOMAIN part : \A p : p = q + Len(list) =>
          p \in DOMAIN longer /\ ~(p <= Len(list)) /\ p - Len(list) = q
    BY <1>3
  <2>3. \A p \in DOMAIN longer :
          p \in DOMAIN list \/ (p > Len(list) /\ ~(p <= Len(list)) /\ p - Len(list) \in DOMAIN part)
    BY <1>3
  <2>4. \A p \in DOMAIN longer :
          longer[p] = IF p <= Len(list) THEN list[p] ELSE part[p - Len(list)]
    BY <1>2, <1>3
  <2>5. \A p \in DOMAIN list : p \in DOMAIN longer /\ new[p] = from[p] /\ longer[p] = list[p]
    BY <1>11, <2>1, <2>4
  <2>6. \A q \in DOMAIN part : LET p == q + Len(list) IN
          p \in DOMAIN longer /\ new[p] = n + 1 /\ longer[p] = part[q]
    <3> SUFFICES ASSUME NEW q \in DOMAIN part, NEW p, p = q + Len(list)
                 PROVE  p \in DOMAIN longer /\ new[p] = n + 1 /\ longer[p] = part[q]
      OBVIOUS
    <3>1. p \in DOMAIN longer /\ ~(p <= Len(list)) /\ p - Len(list) = q
      BY <2>2, Zenon
    <3>2. new[p] = n + 1
      BY <1>11, <3>1, Zenon
    <3>3. longer[p] = part[p - Len(list)]
      BY <2>4, <3>1, Zenon
    <3> QED BY <3>1, <3>2, <3>3, Zenon
  <2>7. \A p \in DOMAIN longer :
          \/ p \in DOMAIN list
          \/ p > Len(list) /\ p - Len(list) \in DOMAIN part /\ new[p] = n + 1
             /\ longer[p] = part[p - Len(list)]
    BY <1>11, <2>3, <2>4
  <2> QED BY <2>5, <2>6, <2>7
<1>7. \A p, q \in DOMAIN longer : p < q => new[p] <= new[q]
  <2> SUFFICES ASSUME NEW p \in DOMAIN longer, NEW q \in DOMAIN longer, p < q
               PROVE  new[p] <= new[q]
    OBVIOUS
  <2>1. CASE q \in DOMAIN list
    <3>1. p \in DOMAIN list
      BY <1>3, <2>1
    <3> QED BY <1>5, <2>1, <3>1 DEF ListedFrom
  <2>2. CASE q \notin DOMAIN list
    BY <1>5, <1>6, <2>2
  <2> QED BY <2>1, <2>2
<1>8. \A p \in DOMAIN longer : longer[p] \in ToSet(parts[new[p]])
  <2> SUFFICES ASSUME NEW p \in DOMAIN longer
               PROVE  longer[p] \in ToSet(parts[new[p]])
    OBVIOUS
  <2>1. CASE p \in DOMAIN list
    BY <1>5, <2>1 DEF ListedFrom
  <2>2. CASE p \notin DOMAIN list
    BY <1>5, <2>2 DEF ToSet, part
  <2> QED BY <2>1, <2>2
<1>9. \A i \in 1 .. n + 1 : \A a \in ToSet(parts[i]) :
        \E p \in DOMAIN longer : longer[p] = a /\ new[p] = i
  <2> SUFFICES ASSUME NEW i \in 1 .. n + 1, NEW a \in ToSet(parts[i])
               PROVE  \E p \in DOMAIN longer : longer[p] = a /\ new[p] = i
    OBVIOUS
  <2>1. CASE i \in 1 .. n
    <3>1. PICK p \in DOMAIN list : list[p] = a /\ from[p] = i
      BY <2>1 DEF ListedFrom
    <3> QED BY <1>5, <3>1
  <2>2. CASE i = n + 1
    BY <1>5, <2>2 DEF ToSet, part
  <2> QED BY <2>1, <2>2
<1>10. ListedFrom(longer, parts, n + 1, new)
  BY <1>6, <1>7, <1>8, <1>9 DEF ListedFrom
<1> QED BY <1>2, <1>10 DEF longer, part

(* What FlattenSeq makes of two or three parts. *)
LEMMA Unfolded ==
  ASSUME NEW parts, Len(parts) = 2 \/ Len(parts) = 3
  PROVE  /\ Len(parts) = 2 => FlattenSeq(parts) = parts[1] \o parts[2]
         /\ Len(parts) = 3 => FlattenSeq(parts) = (parts[1] \o parts[2]) \o parts[3]
<1> DEFINE N == Len(parts)
           two == parts[1] \o parts[2]
           three == two \o parts[3]
           F(f) == [i \in 1 .. N |-> IF i = 1 THEN parts[i] ELSE f[i-1] \o parts[i]]
           flatten == CHOOSE f : f = F(f)
           g == [i \in 1 .. N |-> IF i = 1 THEN parts[1] ELSE IF i = 2 THEN two ELSE three]
<1>0. N = 2 \/ N = 3
  OBVIOUS
<1>10. FlattenSeq(parts) = flatten[N]
  BY DEF FlattenSeq
<1> HIDE DEF flatten, N
<1>1. 1 \in 1 .. N /\ 2 \in 1 .. N /\ (N = 3 => 3 \in 1 .. N)
  BY <1>0
<1> HIDE DEF two, three
<1>2. g[1] = parts[1] /\ g[2] = two /\ (N = 3 => g[3] = three)
  BY <1>1
<1>3. g = F(g)
  <2>1. g = [i \in 1 .. N |-> g[i]]
    OBVIOUS
  <2> HIDE DEF g
  <2>2. \A i \in 1 .. N : g[i] = IF i = 1 THEN parts[i] ELSE g[i-1] \o parts[i]
    <3> SUFFICES ASSUME NEW i \in 1 .. N
                 PROVE  g[i] = IF i = 1 THEN parts[i] ELSE g[i-1] \o parts[i]
      OBVIOUS
    <3>1. i \in Int /\ (i = 1 \/ i = 2 \/ (i = 3 /\ N = 3))
      BY <1>0
    <3>2. CASE i = 1
      BY <1>2, <3>2
    <3>3. CASE i = 2
      <4>1. i - 1 = 1 /\ i # 1
        BY <3>3
      <4> QED BY <1>2, <3>3, <4>1 DEF two
    <3>4. CASE i = 3 /\ N = 3
      <4>1. i - 1 = 2 /\ i # 1
        BY <3>4
      <4> QED BY <1>2, <3>4, <4>1 DEF three
    <3> QED BY <3>1, <3>2, <3>3, <3>4
  <2> QED BY <2>1, <2>2
<1>4. flatten = F(flatten)
  <2> HIDE DEF g, F
  <2> QED BY <1>3 DEF flatten
<1>5. \A i \in 1 .. N : flatten[i] = IF i = 1 THEN parts[i] ELSE flatten[i-1] \o parts[i]
  BY <1>4
<1>9. 2 - 1 = 1 /\ 3 - 1 = 2 /\ 2 # 1 /\ 3 # 1
  OBVIOUS
<1>6. flatten[1] = parts[1]
  BY <1>1, <1>5, Zenon
<1>7. flatten[2] = two
  <2>1. flatten[2] = flatten[2-1] \o parts[2]
    BY <1>1, <1>5, <1>9, Zenon
  <2> QED BY <1>6, <1>9, <2>1 DEF two
<1>8. N = 3 => flatten[3] = three
  <2>1. N = 3 => flatten[3] = flatten[3-1] \o parts[3]
    BY <1>1, <1>5, <1>9, Zenon
  <2> QED BY <1>7, <1>9, <2>1 DEF three
<1> QED BY <1>7, <1>8, <1>10 DEF two, three, N

LEMMA Flattened ==
  ASSUME NEW S, NEW parts \in Seq(Seq(S)), NEW n \in {2, 3}, Len(parts) = n
  PROVE  /\ FlattenSeq(parts) \in Seq(S)
         /\ \E from : ListedFrom(FlattenSeq(parts), parts, n, from)
<1> DEFINE two == parts[1] \o parts[2]
           three == two \o parts[3]
<1>1. /\ n = 2 => FlattenSeq(parts) = two
      /\ n = 3 => FlattenSeq(parts) = three
  <2>1. Len(parts) = 2 \/ Len(parts) = 3
    OBVIOUS
  <2>2. /\ Len(parts) = 2 => FlattenSeq(parts) = parts[1] \o parts[2]
        /\ Len(parts) = 3 => FlattenSeq(parts) = (parts[1] \o parts[2]) \o parts[3]
    <3> HIDE DEF two, three
    <3> QED BY ONLY <2>1, Unfolded, Zenon
  <2> QED BY <2>2, Zenon
<1>2. parts[1] \in Seq(S) /\ 1 + 1 = 2 /\ 2 + 1 = 3 /\ Len(parts) >= 1
  BY ElementOfSeq, LenProperties
<1>3. /\ two \in Seq(S)
      /\ \E from : ListedFrom(two, parts, 2, from)
  <2>1. PICK from : ListedFrom(parts[1], parts, 1, from)
    BY <1>2, FirstPart
  <2>2. 1 + 1 <= Len(parts)
    OBVIOUS
  <2> QED BY <1>2, <2>1, <2>2, NextPart
<1> HIDE DEF two
<1>4. n = 3 => /\ three \in Seq(S)
               /\ \E from : ListedFrom(three, parts, 3, from)
  <2> SUFFICES ASSUME n = 3
               PROVE  three \in Seq(S) /\ \E from : ListedFrom(three, parts, 3, from)
    OBVIOUS
  <2>1. PICK from : ListedFrom(two, parts, 2, from)
    BY <1>3
  <2>2. 2 + 1 <= Len(parts)
    OBVIOUS
  <2>3. 2 \in Nat \ {0}
    OBVIOUS
  <2>4. /\ two \o parts[2 + 1] \in Seq(S)
        /\ \E new : ListedFrom(two \o parts[2 + 1], parts, 2 + 1, new)
    BY <1>3, <2>1, <2>2, <2>3, NextPart, Zenon
  <2> QED BY <1>2, <2>4
<1> HIDE DEF three
<1> QED BY <1>1, <1>3, <1>4

-----------------------------------------------------------------------------
(* A heap that only grows and only completes descriptions. *)
Grows(heap, later) ==
  /\ DOMAIN heap \subseteq DOMAIN later
  /\ \A a \in DOMAIN heap :
       /\ later[a].id = heap[a].id
       /\ heap[a].description # "" => later[a].description = heap[a].description

DescribedBy(doc) == {r.object : r \in {s \in doc.relationships : s.type = "describes"}}

(* A document that is right by itself, and one that has what it merges. *)
EachIDOnce(packages, heap) ==
  \A i, j \in DOMAIN packages : heap[packages[i]].id = heap[packages[j]].id => i = j
SaysSo(doc, heap) ==
  \A a \in ToSet(doc.packages) :
    LET said == doc.said[heap[a].id] IN said # "" => heap[a].description = said

WellMade(doc, heap) ==
  /\ doc.packages \in Seq(DOMAIN heap)
  /\ EachIDOnce(doc.packages, heap)
  /\ SaysSo(doc, heap)
  /\ DescribedBy(doc) = IDs(ToSet(doc.packages), heap)

HasMerged(doc, made, heap) ==
  doc.merged # <<>> =>
    /\ ToSet(doc.merged) \subseteq DOMAIN made
    /\ IDs(ToSet(doc.packages), heap)
         = UNION {IDs(ToSet(made[m].packages), heap) : m \in ToSet(doc.merged)}

MadeRight(made, heap) ==
  \A d \in DOMAIN made : WellMade(made[d], heap) /\ HasMerged(made[d], made, heap)

DocumentsInv ==
  /\ pkgs \in Seq(Package)
  /\ docs \in Seq(ToSet(docs))
  /\ MadeRight(docs, pkgs)

LEMMA InvSuffices == DocumentsInv => DocumentsAreRight
<1> SUFFICES ASSUME DocumentsInv PROVE DocumentsAreRight
  OBVIOUS
<1>1. \A d \in ToSet(docs) : WellMade(d, pkgs) /\ HasMerged(d, docs, pkgs)
  BY DEF DocumentsInv, MadeRight, ToSet
<1>2. EachPackageOnce
  <2> SUFFICES ASSUME NEW d \in ToSet(docs)
               PROVE  /\ \A i, j \in DOMAIN d.packages :
                           pkgs[d.packages[i]].id = pkgs[d.packages[j]].id => i = j
                      /\ d.merged # <<>> =>
                           IDs(ToSet(d.packages), pkgs)
                             = UNION {IDs(ToSet(docs[m].packages), pkgs) : m \in ToSet(d.merged)}
    BY Zenon DEF EachPackageOnce
  <2> QED BY <1>1, Zenon DEF WellMade, HasMerged, EachIDOnce
<1>3. DescriptionsStay
  BY <1>1, Zenon DEF DescriptionsStay, WellMade, SaysSo
<1>4. EveryPackageDescribed
  BY <1>1, Zenon DEF EveryPackageDescribed, WellMade, DescribedBy
<1> QED BY <1>2, <1>3, <1>4 DEF DocumentsAreRight

LEMMA Members ==
  ASSUME NEW S, NEW s \in Seq(S)
  PROVE  ToSet(s) \subseteq S /\ \A i \in DOMAIN s : s[i] \in S /\ s[i] \in ToSet(s)
BY ElementOfSeq, LenProperties DEF ToSet

(* Documents made stay right while the heap grows. *)
LEMMA StaysRight ==
  ASSUME NEW heap, NEW later, Grows(heap, later), NEW doc, WellMade(doc, heap)
  PROVE  /\ IDs(ToSet(doc.packages), later) = IDs(ToSet(doc.packages), heap)
         /\ WellMade(doc, later)
<1>1. /\ ToSet(doc.packages) \subseteq DOMAIN heap
      /\ \A i \in DOMAIN doc.packages : doc.packages[i] \in DOMAIN heap
  BY Members DEF WellMade
<1>2. \A a \in ToSet(doc.packages) : later[a].id = heap[a].id
  BY <1>1 DEF Grows
<1>3. IDs(ToSet(doc.packages), later) = IDs(ToSet(doc.packages), heap)
  BY <1>2 DEF IDs
<1>4. doc.packages \in Seq(DOMAIN later)
  BY SeqMonotonic DEF WellMade, Grows
<1>5. EachIDOnce(doc.packages, later)
  <2>1. \A i \in DOMAIN doc.packages : later[doc.packages[i]].id = heap[doc.packages[i]].id
    BY <1>1 DEF Grows
  <2> QED BY <2>1 DEF EachIDOnce, WellMade
<1>6. SaysSo(doc, later)
  <2> SUFFICES ASSUME NEW a \in ToSet(doc.packages), doc.said[later[a].id] # ""
               PROVE  later[a].description = doc.said[later[a].id]
    BY DEF SaysSo
  <2>1. later[a].id = heap[a].id /\ a \in DOMAIN heap
    BY <1>1, <1>2
  <2>2. heap[a].description = doc.said[heap[a].id]
    BY <2>1, Zenon DEF WellMade, SaysSo
  <2> QED BY <2>1, <2>2 DEF Grows
<1> QED BY <1>3, <1>4, <1>5, <1>6 DEF WellMade

LEMMA Added ==
  ASSUME NEW heap, NEW later, Grows(heap, later), NEW made, made \in Seq(ToSet(made)),
         MadeRight(made, heap),
         NEW doc, WellMade(doc, later), HasMerged(doc, made, later)
  PROVE  /\ Append(made, doc) \in Seq(ToSet(Append(made, doc)))
         /\ MadeRight(Append(made, doc), later)
<1> DEFINE more == Append(made, doc)
<1>1. made \in Seq(ToSet(made) \union {doc})
  BY SeqMonotonic
<1>2. /\ more \in Seq(ToSet(made) \union {doc})
      /\ Len(more) = Len(made) + 1
      /\ \A i \in 1 .. Len(made) : more[i] = made[i]
      /\ more[Len(made) + 1] = doc
  BY <1>1, AppendProperties
<1>3. DOMAIN made = 1 .. Len(made) /\ DOMAIN more = 1 .. Len(made) + 1 /\ Len(made) \in Nat
  BY <1>1, <1>2, LenProperties
<1> HIDE DEF more
<1>4. \A i \in DOMAIN more : i \in DOMAIN made \/ i = Len(made) + 1
  BY <1>3
<1>5. DOMAIN made \subseteq DOMAIN more /\ Len(made) + 1 \in DOMAIN more
  BY <1>3
<1>6. \A i \in DOMAIN made : more[i] = made[i]
  BY <1>2, <1>3
<1>7. ToSet(made) \union {doc} \subseteq ToSet(more)
  <2>1. \A i \in DOMAIN made : made[i] \in ToSet(more)
    BY <1>5, <1>6 DEF ToSet
  <2>2. doc \in ToSet(more)
    BY <1>2, <1>5, Zenon DEF ToSet
  <2> QED BY <2>1, <2>2 DEF ToSet
<1>8. more \in Seq(ToSet(more))
  BY <1>2, <1>7, SeqMonotonic
<1>9. \A d \in DOMAIN made : /\ WellMade(made[d], later)
                             /\ IDs(ToSet(made[d].packages), later) = IDs(ToSet(made[d].packages), heap)
  BY StaysRight DEF MadeRight
<1>10. \A d \in DOMAIN made : HasMerged(made[d], made, later)
  <2> SUFFICES ASSUME NEW d \in DOMAIN made, made[d].merged # <<>>
               PROVE  /\ ToSet(made[d].merged) \subseteq DOMAIN made
                      /\ IDs(ToSet(made[d].packages), later)
                           = UNION {IDs(ToSet(made[m].packages), later) : m \in ToSet(made[d].merged)}
    BY DEF HasMerged
  <2>1. /\ ToSet(made[d].merged) \subseteq DOMAIN made
        /\ IDs(ToSet(made[d].packages), heap)
             = UNION {IDs(ToSet(made[m].packages), heap) : m \in ToSet(made[d].merged)}
    BY DEF MadeRight, HasMerged
  <2>2. \A m \in ToSet(made[d].merged) :
          IDs(ToSet(made[m].packages), later) = IDs(ToSet(made[m].packages), heap)
    BY <1>9, <2>1
  <2> QED BY <1>9, <2>1, <2>2
<1>11. ASSUME NEW d, HasMerged(d, made, later)
       PROVE  HasMerged(d, more, later)
  <2>1. ToSet(d.merged) \subseteq DOMAIN made =>
          /\ ToSet(d.merged) \subseteq DOMAIN more
          /\ \A m \in ToSet(d.merged) : more[m] = made[m]
    BY <1>5, <1>6
  <2>2. (\A m \in ToSet(d.merged) : more[m] = made[m]) =>
          UNION {IDs(ToSet(more[m].packages), later) : m \in ToSet(d.merged)}
            = UNION {IDs(ToSet(made[m].packages), later) : m \in ToSet(d.merged)}
    OBVIOUS
  <2> QED BY <1>11, <2>1, <2>2 DEF HasMerged
<1>12. MadeRight(more, later)
  <2> SUFFICES ASSUME NEW d \in DOMAIN more
               PROVE  WellMade(more[d], later) /\ HasMerged(more[d], more, later)
    BY DEF MadeRight
  <2>1. CASE d \in DOMAIN made
    BY <1>6, <1>9, <1>10, <1>11, <2>1
  <2>2. CASE d = Len(made) + 1
    BY <1>2, <1>11, <2>2
  <2> QED BY <1>4, <2>1, <2>2
<1> QED BY <1>8, <1>12 DEF more

-----------------------------------------------------------------------------
(* Packages put into memory one after the other. *)
LEMMA NewBlock ==
  ASSUME NEW heap \in Seq(Package), NEW block \in Seq(Package),
         \A i, j \in DOMAIN block : block[i].id = block[j].id => i = j
  PROVE  LET later == heap \o block
             addresses == [i \in DOMAIN block |-> Len(heap) + i]
         IN  /\ later \in Seq(Package) /\ Grows(heap, later)
             /\ addresses \in Seq(DOMAIN later)
             /\ EachIDOnce(addresses, later)
             /\ \A a \in ToSet(addresses) :
                  Said(ToSet(addresses), later)[later[a].id] = later[a].description
             /\ IDs(ToSet(addresses), later) = {block[i].id : i \in DOMAIN block}
<1> DEFINE later == heap \o block
           addresses == [i \in DOMAIN block |-> Len(heap) + i]
<1>1. /\ later \in Seq(Package) /\ Len(later) = Len(heap) + Len(block)
      /\ \A i \in 1 .. Len(heap) + Len(block) :
           later[i] = IF i <= Len(heap) THEN heap[i] ELSE block[i - Len(heap)]
  BY ConcatProperties
<1>2. /\ DOMAIN heap = 1 .. Len(heap) /\ DOMAIN block = 1 .. Len(block)
      /\ Len(heap) \in Nat /\ Len(block) \in Nat
      /\ DOMAIN later = 1 .. Len(heap) + Len(block)
  BY <1>1, LenProperties
<1> HIDE DEF later
<1>3. /\ DOMAIN heap \subseteq DOMAIN later
      /\ \A a \in DOMAIN heap : later[a] = heap[a]
  <2>1. \A a \in DOMAIN heap : a \in DOMAIN later /\ a <= Len(heap)
    BY <1>2
  <2> QED BY <1>1, <1>2, <2>1
<1>4. \A i \in DOMAIN block : /\ addresses[i] = Len(heap) + i
                              /\ addresses[i] \in DOMAIN later
                              /\ later[addresses[i]] = block[i]
  <2> SUFFICES ASSUME NEW i \in DOMAIN block, NEW a, a = Len(heap) + i
               PROVE  a \in DOMAIN later /\ later[a] = block[i]
    OBVIOUS
  <2>1. a \in DOMAIN later /\ ~(a <= Len(heap)) /\ a - Len(heap) = i
    BY <1>2
  <2>2. later[a] = IF a <= Len(heap) THEN heap[a] ELSE block[a - Len(heap)]
    BY <1>1, <1>2, <2>1, Zenon
  <2> QED BY <2>1, <2>2, Zenon
<1>5. DOMAIN addresses = DOMAIN block /\ addresses \in [1 .. Len(block) -> DOMAIN later]
  BY <1>2, <1>4
<1> HIDE DEF addresses
<1>6. addresses \in Seq(DOMAIN later)
  BY <1>2, <1>5, SeqDef
<1>7. EachIDOnce(addresses, later)
  BY <1>4, <1>5 DEF EachIDOnce
<1>8. ToSet(addresses) = {addresses[i] : i \in DOMAIN block}
  BY <1>5 DEF ToSet
<1>9. IDs(ToSet(addresses), later) = {block[i].id : i \in DOMAIN block}
  BY <1>4, <1>8 DEF IDs
<1>10. \A a \in ToSet(addresses) :
         Said(ToSet(addresses), later)[later[a].id] = later[a].description
  <2> SUFFICES ASSUME NEW a \in ToSet(addresses)
               PROVE  Said(ToSet(addresses), later)[later[a].id] = later[a].description
    OBVIOUS
  <2>1. later[a].id \in IDs(ToSet(addresses), later)
    BY DEF IDs
  <2>2. \A b \in ToSet(addresses) : later[b].id = later[a].id => b = a
    BY <1>7, <1>5, <1>8 DEF EachIDOnce
  <2>3. (CHOOSE b \in ToSet(addresses) : later[b].id = later[a].id) = a
    BY <2>2
  <2> QED BY <2>1, <2>3 DEF Said
<1>11. Grows(heap, later)
  BY <1>3 DEF Grows
<1> QED BY <1>1, <1>6, <1>7, <1>9, <1>10, <1>11 DEF later, addresses

-----------------------------------------------------------------------------
(* What a merge keeps of a list. *)
LEMMA FirstPlaces ==
  ASSUME NEW list \in Seq(DOMAIN pkgs), NEW id
  PROVE  /\ Places(list, id) \in SUBSET (1 .. Len(list))
         /\ \A i \in Places(list, id) :
              /\ pkgs[list[i]].id = id
              /\ Min(Places(list, id)) \in Places(list, id)
              /\ Min(Places(list, id)) <= i
<1>1. DOMAIN list = 1 .. Len(list)
  BY LenProperties
<1>2. Places(list, id) \in SUBSET (1 .. Len(list))
  BY <1>1 DEF Places
<1>3. \A i \in Places(list, id) : pkgs[list[i]].id = id
  BY DEF Places
<1>4. Places(list, id) \in SUBSET Nat
  BY <1>2
<1> QED BY <1>2, <1>3, <1>4, LeastNat

LEMMA KeptPackages ==
  ASSUME NEW list \in Seq(DOMAIN pkgs)
  PROVE  /\ Kept(list) \in Seq(DOMAIN pkgs)
         /\ EachIDOnce(Kept(list), pkgs)
         /\ \A a \in ToSet(Kept(list)) :
              \E i \in DOMAIN list : list[i] = a /\ IsFirst(list, i)
         /\ IDs(ToSet(Kept(list)), pkgs) = IDs(ToSet(list), pkgs)
<1> DEFINE first == {i \in DOMAIN list : IsFirst(list, i)}
           at(k) == CHOOSE i \in first : Cardinality(UpTo(first, i)) = k
           n == Cardinality(first)
<1>1. DOMAIN list = 1 .. Len(list) /\ Len(list) \in Nat
  BY LenProperties
<1>2. first \in SUBSET (1 .. Len(list))
  BY <1>1
<1>3. \A i \in first : i \in DOMAIN list /\ IsFirst(list, i)
  OBVIOUS
<1>4. \A i \in DOMAIN list : IsFirst(list, i) => i \in first
  OBVIOUS
<1>5. Kept(list) = [k \in 1 .. n |-> list[at(k)]]
  BY Zenon DEF Kept, UpTo
<1> HIDE DEF first
<1>6. /\ n \in Nat
      /\ \A i \in first : Cardinality(UpTo(first, i)) \in 1 .. n
      /\ \A i, j \in first : Cardinality(UpTo(first, i)) = Cardinality(UpTo(first, j)) => i = j
      /\ \A k \in 1 .. n : \E i \in first : Cardinality(UpTo(first, i)) = k
  BY <1>1, <1>2, Ranks, Zenon
<1>7. \A k \in 1 .. n : at(k) \in first /\ Cardinality(UpTo(first, at(k))) = k
  BY <1>6, Zenon
<1>8. \A i \in first : at(Cardinality(UpTo(first, i))) = i
  BY <1>6, Zenon
<1> HIDE DEF at, n
<1>9. \A i \in DOMAIN list : list[i] \in DOMAIN pkgs
  BY Members
<1>10. Kept(list) \in [1 .. n -> DOMAIN pkgs] /\ DOMAIN Kept(list) = 1 .. n
  BY <1>3, <1>5, <1>7, <1>9
<1>11. Kept(list) \in Seq(DOMAIN pkgs)
  BY <1>6, <1>10, SeqDef
<1>12. \A k \in 1 .. n : Kept(list)[k] = list[at(k)]
  BY <1>5
<1>13. EachIDOnce(Kept(list), pkgs)
  <2> SUFFICES ASSUME NEW k \in 1 .. n, NEW l \in 1 .. n,
                      pkgs[list[at(k)]].id = pkgs[list[at(l)]].id
               PROVE  k = l
    BY <1>10, <1>12 DEF EachIDOnce
  <2>1. IsFirst(list, at(k)) /\ IsFirst(list, at(l))
    BY <1>3, <1>7
  <2>2. at(k) = at(l)
    BY <2>1, Zenon DEF IsFirst
  <2> QED BY <1>7, <2>2
<1>14. ToSet(Kept(list)) = {list[at(k)] : k \in 1 .. n}
  BY <1>10, <1>12 DEF ToSet
<1>15. \A a \in ToSet(Kept(list)) : \E i \in DOMAIN list : list[i] = a /\ IsFirst(list, i)
  BY <1>3, <1>7, <1>14
<1>16. \A i \in DOMAIN list : \E a \in ToSet(Kept(list)) : pkgs[a].id = pkgs[list[i]].id
  <2> SUFFICES ASSUME NEW i \in DOMAIN list
               PROVE  \E a \in ToSet(Kept(list)) : pkgs[a].id = pkgs[list[i]].id
    OBVIOUS
  <2> DEFINE id == pkgs[list[i]].id
             j == Min(Places(list, id))
  <2>1. i \in Places(list, id)
    BY DEF Places
  <2>2. j \in Places(list, id) /\ pkgs[list[j]].id = id
    BY <2>1, FirstPlaces
  <2>3. j \in DOMAIN list /\ IsFirst(list, j)
    BY <2>2 DEF Places, IsFirst
  <2> HIDE DEF j
  <2>4. j \in first
    BY <1>4, <2>3
  <2>5. Cardinality(UpTo(first, j)) \in 1 .. n /\ at(Cardinality(UpTo(first, j))) = j
    BY <1>6, <1>8, <2>4
  <2> QED BY <1>14, <2>2, <2>5
<1>17. IDs(ToSet(Kept(list)), pkgs) = IDs(ToSet(list), pkgs)
  <2>1. ToSet(list) = {list[i] : i \in DOMAIN list}
    BY DEF ToSet
  <2>2. \A a \in ToSet(Kept(list)) : a \in ToSet(list)
    BY <1>15, <2>1
  <2>3. \A b \in ToSet(list) : \E a \in ToSet(Kept(list)) : pkgs[a].id = pkgs[b].id
    BY <1>16, <2>1
  <2> QED BY <2>2, <2>3 DEF IDs
<1> QED BY <1>11, <1>13, <1>15, <1>17

(* The places of an ID whose package has a description. *)
Given(list, id) == {i \in Places(list, id) : pkgs[list[i]].description # ""}

(* A description that is completed is one that was not given, and becomes   *)
(* the first one given for the ID.                                         *)
LEMMA CompletedPackages ==
  ASSUME pkgs \in Seq(Package), NEW list \in Seq(DOMAIN pkgs)
  PROVE  /\ Completed(list) \in Seq(Package) /\ Grows(pkgs, Completed(list))
         /\ \A a \in ToSet(Kept(list)) :
              Given(list, pkgs[a].id) # {} =>
                Completed(list)[a].description = pkgs[list[Min(Given(list, pkgs[a].id))]].description
<1> DEFINE given(a) == {i \in Places(list, pkgs[a].id) : pkgs[list[i]].description # ""}
           new(a) == IF a \notin ToSet(Kept(list)) \/ pkgs[a].description # "" \/ given(a) = {}
                       THEN pkgs[a]
                       ELSE [pkgs[a] EXCEPT !.description = pkgs[list[Min(given(a))]].description]
<1>1. Completed(list) = [a \in DOMAIN pkgs |-> new(a)]
  BY Zenon DEF Completed
<1>2. \A i \in DOMAIN list : list[i] \in DOMAIN pkgs
  BY Members
<1>3. \A a \in DOMAIN pkgs : pkgs[a] \in Package
  BY Members
<1>4. ASSUME NEW a, given(a) # {}
      PROVE  /\ Min(given(a)) \in given(a) /\ \A i \in given(a) : Min(given(a)) <= i
             /\ Min(given(a)) \in DOMAIN list
  <2>2. given(a) \subseteq Places(list, pkgs[a].id)
    OBVIOUS
  <2> HIDE DEF given
  <2>1. given(a) \in SUBSET Nat /\ given(a) \subseteq DOMAIN list
    <3>1. Places(list, pkgs[a].id) \in SUBSET (1 .. Len(list))
      BY FirstPlaces
    <3>2. DOMAIN list = 1 .. Len(list)
      BY LenProperties
    <3> QED BY <2>2, <3>1, <3>2
  <2> QED BY <1>4, <2>1, LeastNat
<1>5. ASSUME NEW a \in DOMAIN pkgs
      PROVE  /\ new(a) \in Package /\ new(a).id = pkgs[a].id
             /\ pkgs[a].description # "" => new(a).description = pkgs[a].description
             /\ a \in ToSet(Kept(list)) /\ pkgs[a].description = "" /\ given(a) # {} =>
                  new(a).description = pkgs[list[Min(given(a))]].description
  <2>1. given(a) # {} => pkgs[list[Min(given(a))]] \in Package
    BY <1>2, <1>3, <1>4
  <2> HIDE DEF given
  <2> QED BY <1>3, <2>1 DEF Package
<1>6. DOMAIN Completed(list) = DOMAIN pkgs /\ \A a \in DOMAIN pkgs : Completed(list)[a] = new(a)
  BY <1>1
<1>7. Completed(list) \in Seq(Package)
  <2>1. DOMAIN pkgs = 1 .. Len(pkgs) /\ Len(pkgs) \in Nat
    BY LenProperties
  <2>2. Completed(list) \in [1 .. Len(pkgs) -> Package]
    <3> HIDE DEF new
    <3> QED BY <1>1, <1>5, <2>1
  <2> QED BY <2>1, <2>2, SeqDef
<1>8. Grows(pkgs, Completed(list))
  <2> HIDE DEF new
  <2> QED BY <1>5, <1>6 DEF Grows
<1>9. ASSUME NEW a \in ToSet(Kept(list)), given(a) # {}
      PROVE  Completed(list)[a].description = pkgs[list[Min(given(a))]].description
  <2>1. a \in DOMAIN pkgs
    BY KeptPackages, Members
  <2>2. CASE pkgs[a].description = ""
    <3> HIDE DEF new, given
    <3> QED BY <1>5, <1>6, <1>9, <2>1, <2>2
  <2>3. CASE pkgs[a].description # ""
    <3>1. PICK i \in DOMAIN list : list[i] = a /\ IsFirst(list, i)
      BY KeptPackages
    <3>2. i = Min(Places(list, pkgs[a].id)) /\ i \in given(a)
      BY <2>3, <3>1 DEF IsFirst, Places
    <3>3. Min(given(a)) \in Places(list, pkgs[a].id)
      BY <1>4, <1>9
    <3>4. i <= Min(given(a))
      BY <3>2, <3>3, FirstPlaces
    <3>5. Min(given(a)) <= i
      BY <1>4, <1>9, <3>2
    <3>6. i \in Nat /\ Min(given(a)) \in Nat
      <4>1. DOMAIN list = 1 .. Len(list)
        BY LenProperties
      <4>2. Min(given(a)) \in DOMAIN list
        BY <1>4, <1>9
      <4> HIDE DEF given
      <4> QED BY <4>1, <4>2
    <3>7. Min(given(a)) = i
      <4> HIDE DEF given
      <4> QED BY <3>4, <3>5, <3>6
    <3>8. Completed(list)[a].description = pkgs[a].description
      <4> HIDE DEF new, given
      <4> QED BY <1>5, <1>6, <2>1, <2>3
    <3> QED BY <3>1, <3>7, <3>8
  <2> QED BY <2>2, <2>3
<1> QED BY <1>7, <1>8, <1>9, Zenon DEF Given

(* What the documents to merge say of an ID, the first that says something, *)
(* is the first description found in the list of their packages.            *)
LEMMA FirstSaying ==
  ASSUME MadeRight(docs, pkgs),
         NEW n \in Nat, NEW ds, DOMAIN ds = 1 .. n, \A i \in 1 .. n : ds[i] \in DOMAIN docs,
         NEW list, DOMAIN list \subseteq Nat, NEW from,
         ListedFrom(list, [i \in DOMAIN ds |-> docs[ds[i]].packages], n, from),
         NEW id, SaidBefore(ds, id) # ""
  PROVE  /\ Given(list, id) # {}
         /\ SaidBefore(ds, id) = pkgs[list[Min(Given(list, id))]].description
<1> DEFINE parts == [i \in DOMAIN ds |-> docs[ds[i]].packages]
           given == {i \in Places(list, id) : pkgs[list[i]].description # ""}
           Sayings(i) == {pkgs[a].description : a \in {b \in ToSet(docs[ds[i]].packages) :
                                                         pkgs[b].id = id}} \ {""}
           sayers == {i \in DOMAIN ds : Sayings(i) # {}}
<1>0. DOMAIN ds = 1 .. n /\ n \in Nat
  OBVIOUS
<1>1. SaidBefore(ds, id) = IF sayers = {} THEN "" ELSE CHOOSE s \in Sayings(Min(sayers)) : TRUE
  BY Zenon DEF SaidBefore
<1>2. \A i, s : s \in Sayings(i) <=>
        s # "" /\ \E a \in ToSet(docs[ds[i]].packages) : pkgs[a].id = id /\ pkgs[a].description = s
  OBVIOUS
<1>3. \A i \in given : i \in DOMAIN list /\ pkgs[list[i]].id = id /\ pkgs[list[i]].description # ""
  BY DEF Places
<1>4. \A i \in DOMAIN list : pkgs[list[i]].id = id /\ pkgs[list[i]].description # "" => i \in given
  BY DEF Places
<1>5. \A i \in sayers : i \in DOMAIN ds /\ Sayings(i) # {}
  OBVIOUS
<1>6. \A i \in DOMAIN ds : Sayings(i) # {} => i \in sayers
  OBVIOUS
<1>7. \A i \in DOMAIN ds : parts[i] = docs[ds[i]].packages
  OBVIOUS
<1>8. /\ from \in [DOMAIN list -> 1 .. n]
      /\ \A p, q \in DOMAIN list : p < q => from[p] <= from[q]
      /\ \A p \in DOMAIN list : list[p] \in ToSet(parts[from[p]])
      /\ \A i \in 1 .. n : \A a \in ToSet(parts[i]) : \E p \in DOMAIN list : list[p] = a /\ from[p] = i
  BY Zenon DEF ListedFrom
<1> HIDE DEF parts, given, Sayings, sayers
<1>9. sayers # {} /\ SaidBefore(ds, id) = CHOOSE s \in Sayings(Min(sayers)) : TRUE
  BY <1>1
<1> DEFINE m == Min(sayers)
           g == Min(given)
<1>10. m \in sayers /\ \A i \in sayers : m <= i
  <2>1. sayers \in SUBSET Nat
    <3>1. sayers \subseteq 1 .. n
      BY ONLY <1>0, <1>5
    <3> QED BY ONLY <1>0, <3>1
  <2> QED BY <1>9, <2>1, LeastNat
<1>11. /\ m \in 1 .. n /\ SaidBefore(ds, id) \in Sayings(m)
  BY <1>5, <1>9, <1>10
<1> HIDE DEF m
<1>12. PICK b \in ToSet(docs[ds[m]].packages) :
         pkgs[b].id = id /\ pkgs[b].description = SaidBefore(ds, id)
  BY <1>2, <1>11
<1>13. PICK p \in DOMAIN list : list[p] = b /\ from[p] = m
  <2>1. m \in DOMAIN ds
    BY <1>11
  <2>2. b \in ToSet(parts[m])
    BY <1>7, <1>12, <2>1
  <2> QED BY <1>8, <1>11, <2>2
<1>14. p \in given
  BY <1>4, <1>12, <1>13
<1>15. g \in given /\ \A i \in given : g <= i
  <2>1. given \in SUBSET Nat
    BY <1>3
  <2> QED BY <1>14, <2>1, LeastNat
<1> HIDE DEF g
<1>16. g \in DOMAIN list /\ g <= p /\ pkgs[list[g]].id = id /\ pkgs[list[g]].description # ""
  BY <1>3, <1>14, <1>15
<1>20. g \in Nat /\ p \in Nat /\ g <= p
  BY <1>16
<1>17. from[g] = m
  <2>1. from[g] \in DOMAIN ds /\ list[g] \in ToSet(docs[ds[from[g]]].packages)
    BY <1>7, <1>8, <1>16
  <2>2. pkgs[list[g]].description \in Sayings(from[g])
    BY <1>2, <1>16, <2>1
  <2>3. m <= from[g]
    BY <1>6, <1>10, <2>1, <2>2
  <2>4. from[g] <= from[p]
    <3>2. g < p \/ g = p
      BY ONLY <1>20
    <3>3. CASE g < p
      BY <1>8, <1>16, <3>3, Zenon
    <3>4. CASE g = p
      <4>1. from[g] \in 1 .. n
        BY <1>8, <1>16
      <4> QED BY ONLY <1>0, <3>4, <4>1
    <3> QED BY <3>2, <3>3, <3>4
  <2>5. from[g] \in Nat /\ m \in Nat
    <3>1. from[g] \in 1 .. n /\ m \in 1 .. n
      BY <1>0, <1>11, <2>1
    <3> QED BY ONLY <1>0, <3>1
  <2>6. from[g] <= m
    BY <1>13, <2>4
  <2> QED BY ONLY <2>3, <2>5, <2>6
<1>18. list[g] = b
  <2>1. list[g] \in ToSet(docs[ds[m]].packages)
    BY <1>7, <1>8, <1>11, <1>16, <1>17
  <2>2. ds[m] \in DOMAIN docs
    BY <1>11
  <2>3. EachIDOnce(docs[ds[m]].packages, pkgs)
    BY <2>2 DEF MadeRight, WellMade
  <2> QED BY <1>12, <1>16, <2>1, <2>3 DEF EachIDOnce, ToSet
<1>19. given # {} /\ SaidBefore(ds, id) = pkgs[list[g]].description
  BY <1>12, <1>14, <1>18
<1> QED BY <1>19, Zenon DEF given, g, Given

LEMMA MergeStep ==
  ASSUME DocumentsInv, NEW ds \in Seq(DOMAIN docs), Len(ds) = 2 \/ Len(ds) = 3, Merge(ds)
  PROVE  DocumentsInv'
<1> DEFINE parts == [i \in DOMAIN ds |-> docs[ds[i]].packages]
           list == Listed(ds)
           n == Len(ds)
           doc == [packages |-> Kept(list),
                   relationships |-> UNION {docs[d].relationships : d \in ToSet(ds)},
                   files |-> UNION {docs[d].files : d \in ToSet(ds)},
                   merged |-> ds,
                   said |-> [id \in IDs(ToSet(list), pkgs) |-> SaidBefore(ds, id)]]
<1>1. pkgs \in Seq(Package) /\ docs \in Seq(ToSet(docs)) /\ MadeRight(docs, pkgs)
  BY DEF DocumentsInv
<1>2. pkgs' = Completed(list) /\ docs' = Append(docs, doc)
  BY DEF Merge
<1>3. /\ doc.packages = Kept(list) /\ doc.merged = ds
      /\ doc.relationships = UNION {docs[d].relationships : d \in ToSet(ds)}
      /\ doc.said = [id \in IDs(ToSet(list), pkgs) |-> SaidBefore(ds, id)]
  OBVIOUS
<1> HIDE DEF doc
<1>4. /\ DOMAIN ds = 1 .. n /\ n \in {2, 3} /\ ds # <<>> /\ ToSet(ds) \subseteq DOMAIN docs
      /\ \A i \in DOMAIN ds : ds[i] \in DOMAIN docs
  BY LenProperties, Members
<1>5. \A i \in DOMAIN ds : parts[i] = docs[ds[i]].packages /\ parts[i] \in Seq(DOMAIN pkgs)
  BY <1>1, <1>4 DEF MadeRight, WellMade
<1>6. parts \in Seq(Seq(DOMAIN pkgs)) /\ Len(parts) = n /\ DOMAIN parts = 1 .. n
  <2>1. parts \in [1 .. n -> Seq(DOMAIN pkgs)] /\ n \in Nat
    BY <1>4, <1>5
  <2> HIDE DEF parts
  <2>2. parts \in Seq(Seq(DOMAIN pkgs)) /\ DOMAIN parts = 1 .. n
    BY <2>1, SeqDef
  <2> QED BY <2>1, <2>2, LenProperties
<1>7. list = FlattenSeq(parts)
  BY Zenon DEF Listed
<1> HIDE DEF list, parts, n
<1>8. list \in Seq(DOMAIN pkgs) /\ \E from : ListedFrom(list, parts, n, from)
  BY <1>4, <1>6, <1>7, Flattened
<1>9. PICK from : ListedFrom(list, parts, n, from)
  BY <1>8
<1>10. pkgs' \in Seq(Package) /\ Grows(pkgs, pkgs')
  BY <1>1, <1>2, <1>8, CompletedPackages
<1>11. IDs(ToSet(list), pkgs) = UNION {IDs(ToSet(docs[m].packages), pkgs) : m \in ToSet(ds)}
  <2>1. \A p \in DOMAIN list : \E m \in ToSet(ds) : list[p] \in ToSet(docs[m].packages)
    <3> SUFFICES ASSUME NEW p \in DOMAIN list
                 PROVE  \E m \in ToSet(ds) : list[p] \in ToSet(docs[m].packages)
      OBVIOUS
    <3>1. from[p] \in DOMAIN ds /\ list[p] \in ToSet(docs[ds[from[p]]].packages)
      BY <1>4, <1>5, <1>9 DEF ListedFrom
    <3> QED BY <3>1, Members
  <2>2. \A m \in ToSet(ds) : \A a \in ToSet(docs[m].packages) : \E p \in DOMAIN list : list[p] = a
    <3> SUFFICES ASSUME NEW m \in ToSet(ds), NEW a \in ToSet(docs[m].packages)
                 PROVE  \E p \in DOMAIN list : list[p] = a
      OBVIOUS
    <3>1. PICK i \in DOMAIN ds : ds[i] = m
      BY DEF ToSet
    <3>2. i \in 1 .. n /\ a \in ToSet(parts[i])
      BY <1>4, <1>5, <3>1
    <3>3. \A k \in 1 .. n : \A b \in ToSet(parts[k]) : \E p \in DOMAIN list : list[p] = b /\ from[p] = k
      BY <1>9, Zenon DEF ListedFrom
    <3> QED BY <3>2, <3>3, Zenon
  <2>3. \A a : a \in ToSet(list) <=> \E m \in ToSet(ds) : a \in ToSet(docs[m].packages)
    BY <2>1, <2>2 DEF ToSet
  <2>4. \A x : /\ x \in IDs(ToSet(list), pkgs) <=> \E a \in ToSet(list) : x = pkgs[a].id
               /\ \A m : x \in IDs(ToSet(docs[m].packages), pkgs) <=>
                           \E a \in ToSet(docs[m].packages) : x = pkgs[a].id
    BY Zenon DEF IDs
  <2>5. \A x : x \in IDs(ToSet(list), pkgs) <=>
               \E m \in ToSet(ds) : x \in IDs(ToSet(docs[m].packages), pkgs)
    <3>1. ASSUME NEW x, x \in IDs(ToSet(list), pkgs)
          PROVE  \E m \in ToSet(ds) : x \in IDs(ToSet(docs[m].packages), pkgs)
      <4>1. PICK a \in ToSet(list) : x = pkgs[a].id
        BY <2>4, <3>1, Zenon
      <4>2. PICK m \in ToSet(ds) : a \in ToSet(docs[m].packages)
        BY <2>3, <4>1, Zenon
      <4>3. x \in IDs(ToSet(docs[m].packages), pkgs)
        BY <2>4, <4>1, <4>2, Zenon
      <4> QED BY <4>3, Zenon
    <3>2. ASSUME NEW m \in ToSet(ds), NEW x, x \in IDs(ToSet(docs[m].packages), pkgs)
          PROVE  x \in IDs(ToSet(list), pkgs)
      <4>1. PICK a \in ToSet(docs[m].packages) : x = pkgs[a].id
        BY <2>4, <3>2, Zenon
      <4> QED BY <2>3, <2>4, <4>1, Zenon
    <3> QED BY <3>1, <3>2, Zenon
  <2> DEFINE all == UNION {IDs(ToSet(docs[m].packages), pkgs) : m \in ToSet(ds)}
  <2>6. \A x : x \in all <=> \E m \in ToSet(ds) : x \in IDs(ToSet(docs[m].packages), pkgs)
    BY Zenon
  <2> HIDE DEF all
  <2>7. \A x : x \in IDs(ToSet(list), pkgs) <=> x \in all
    BY <2>5, <2>6, Zenon
  <2>8. IDs(ToSet(list), pkgs) = all
    BY ONLY <2>7
  <2> QED BY <2>8 DEF all
<1>12. /\ Kept(list) \in Seq(DOMAIN pkgs) /\ EachIDOnce(Kept(list), pkgs)
       /\ IDs(ToSet(Kept(list)), pkgs) = IDs(ToSet(list), pkgs)
  BY <1>8, KeptPackages
<1>13. \A a \in ToSet(Kept(list)) : a \in DOMAIN pkgs /\ pkgs'[a].id = pkgs[a].id
  BY <1>10, <1>12, Members DEF Grows
<1>14. IDs(ToSet(Kept(list)), pkgs') = IDs(ToSet(Kept(list)), pkgs)
  BY <1>13 DEF IDs
<1>15. SaysSo(doc, pkgs')
  <2> SUFFICES ASSUME NEW a \in ToSet(Kept(list)), doc.said[pkgs'[a].id] # ""
               PROVE  pkgs'[a].description = doc.said[pkgs'[a].id]
    BY <1>3, Zenon DEF SaysSo
  <2>1. pkgs[a].id \in IDs(ToSet(list), pkgs)
    BY <1>12 DEF IDs
  <2>2. doc.said[pkgs'[a].id] = SaidBefore(ds, pkgs[a].id)
    BY <1>3, <1>13, <2>1
  <2>3. DOMAIN list \subseteq Nat /\ n \in Nat
    <3>1. DOMAIN list = 1 .. Len(list)
      BY <1>8, LenProperties
    <3> QED BY ONLY <1>4, <3>1
  <2>4. ListedFrom(list, [i \in DOMAIN ds |-> docs[ds[i]].packages], n, from)
    BY <1>9 DEF parts
  <2>5. /\ Given(list, pkgs[a].id) # {}
        /\ SaidBefore(ds, pkgs[a].id) = pkgs[list[Min(Given(list, pkgs[a].id))]].description
    <3>1. SaidBefore(ds, pkgs[a].id) # ""
      BY <2>2
    <3>2. DOMAIN ds = 1 .. n /\ \A i \in 1 .. n : ds[i] \in DOMAIN docs
      BY <1>4
    <3> QED BY <1>1, <2>3, <2>4, <3>1, <3>2, FirstSaying, Zenon
  <2>6. Given(list, pkgs[a].id) # {} =>
          pkgs'[a].description = pkgs[list[Min(Given(list, pkgs[a].id))]].description
    BY <1>1, <1>2, <1>8, CompletedPackages
  <2> QED BY <2>2, <2>5, <2>6
<1>16. DescribedBy(doc) = IDs(ToSet(Kept(list)), pkgs)
  <2>1. \A m \in ToSet(ds) : DescribedBy(docs[m]) = IDs(ToSet(docs[m].packages), pkgs)
    BY <1>1, <1>4 DEF MadeRight, WellMade
  <2>2. DescribedBy(doc) = UNION {DescribedBy(docs[m]) : m \in ToSet(ds)}
    <3>1. \A x : /\ x \in DescribedBy(doc) <=>
                       \E r \in doc.relationships : r.type = "describes" /\ x = r.object
                 /\ \A m : x \in DescribedBy(docs[m]) <=>
                       \E r \in docs[m].relationships : r.type = "describes" /\ x = r.object
      BY DEF DescribedBy
    <3>2. \A r : r \in doc.relationships <=> \E m \in ToSet(ds) : r \in docs[m].relationships
      BY <1>3
    <3>3. \A x : x \in DescribedBy(doc) <=> \E m \in ToSet(ds) : x \in DescribedBy(docs[m])
      <4>1. ASSUME NEW x, x \in DescribedBy(doc)
            PROVE  \E m \in ToSet(ds) : x \in DescribedBy(docs[m])
        <5>1. PICK r \in doc.relationships : r.type = "describes" /\ x = r.object
          BY <3>1, <4>1, Zenon
        <5>2. PICK m \in ToSet(ds) : r \in docs[m].relationships
          BY <3>2, <5>1, Zenon
        <5>3. x \in DescribedBy(docs[m])
          BY <3>1, <5>1, <5>2, Zenon
        <5> QED BY <5>3, Zenon
      <4>2. ASSUME NEW m \in ToSet(ds), NEW x, x \in DescribedBy(docs[m])
            PROVE  x \in DescribedBy(doc)
        <5>1. PICK r \in docs[m].relationships : r.type = "describes" /\ x = r.object
          BY <3>1, <4>2, Zenon
        <5> QED BY <3>1, <3>2, <5>1, Zenon
      <4> QED BY <4>1, <4>2, Zenon
    <3> DEFINE all == UNION {DescribedBy(docs[m]) : m \in ToSet(ds)}
    <3>4. \A x : x \in all <=> \E m \in ToSet(ds) : x \in DescribedBy(docs[m])
      BY Zenon
    <3> HIDE DEF all
    <3>5. \A x : x \in DescribedBy(doc) <=> x \in all
      BY <3>3, <3>4, Zenon
    <3>6. DescribedBy(doc) = all
      BY ONLY <3>5
    <3> QED BY <3>6 DEF all
  <2> QED BY <1>11, <1>12, <2>1, <2>2
<1>17. WellMade(doc, pkgs')
  <2>1. Kept(list) \in Seq(DOMAIN pkgs')
    BY <1>10, <1>12, SeqMonotonic DEF Grows
  <2>2. EachIDOnce(Kept(list), pkgs')
    <3>1. \A i \in DOMAIN Kept(list) : pkgs'[Kept(list)[i]].id = pkgs[Kept(list)[i]].id
      BY <1>13 DEF ToSet
    <3> QED BY <1>12, <3>1 DEF EachIDOnce
  <2> QED BY <1>3, <1>14, <1>15, <1>16, <2>1, <2>2 DEF WellMade
<1>18. HasMerged(doc, docs, pkgs')
  <2>1. \A m \in ToSet(ds) : IDs(ToSet(docs[m].packages), pkgs') = IDs(ToSet(docs[m].packages), pkgs)
    BY <1>1, <1>4, <1>10, StaysRight DEF MadeRight
  <2>2. IDs(ToSet(Kept(list)), pkgs') = UNION {IDs(ToSet(docs[m].packages), pkgs') : m \in ToSet(ds)}
    BY <1>11, <1>12, <1>14, <2>1
  <2> QED BY <1>3, <1>4, <2>2 DEF HasMerged
<1> QED BY <1>1, <1>2, <1>10, <1>17, <1>18, Added DEF DocumentsInv

LEMMA GenerateStep ==
  ASSUME DocumentsInv, NEW scan \in Scans, NEW includeFiles, Generate(scan, includeFiles)
  PROVE  DocumentsInv'
<1> DEFINE addresses == [i \in DOMAIN scan.packages |-> Len(pkgs) + i]
           doc == [packages |-> addresses,
                   relationships |-> createRelationships(scan, Len(docs) + 1),
                   files |-> IF includeFiles THEN scan.files ELSE {},
                   merged |-> <<>>, said |-> Said(ToSet(addresses), pkgs')]
<1>1. pkgs \in Seq(Package) /\ docs \in Seq(ToSet(docs)) /\ MadeRight(docs, pkgs)
  BY DEF DocumentsInv
<1>2. pkgs' = pkgs \o scan.packages /\ docs' = Append(docs, doc)
  BY DEF Generate
<1>3. /\ doc.packages = addresses /\ doc.merged = <<>>
      /\ doc.relationships = createRelationships(scan, Len(docs) + 1)
      /\ doc.said = Said(ToSet(addresses), pkgs')
  OBVIOUS
<1> HIDE DEF doc
<1>4. /\ scan.packages \in Seq(Package)
      /\ \A i, j \in DOMAIN scan.packages : scan.packages[i].id = scan.packages[j].id => i = j
  BY ScanAssumption
<1>5. /\ pkgs' \in Seq(Package) /\ Grows(pkgs, pkgs')
      /\ addresses \in Seq(DOMAIN pkgs')
      /\ EachIDOnce(addresses, pkgs')
      /\ \A a \in ToSet(addresses) :
           Said(ToSet(addresses), pkgs')[pkgs'[a].id] = pkgs'[a].description
      /\ IDs(ToSet(addresses), pkgs') = {scan.packages[i].id : i \in DOMAIN scan.packages}
  BY <1>1, <1>2, <1>4, NewBlock
<1> HIDE DEF addresses
<1>6. DescribedBy(doc) = {scan.packages[i].id : i \in DOMAIN scan.packages}
  <2> DEFINE own == {[subject |-> Len(docs) + 1, type |-> "describes", object |-> scan.packages[i].id] :
                        i \in DOMAIN scan.packages}
             found == {[subject |-> r.from, type |-> RelationshipType[r.type], object |-> r.to] :
                         r \in {s \in scan.relationships : s.type \in DOMAIN RelationshipType}}
  <2>1. doc.relationships = own \union found
    BY <1>3, Zenon DEF createRelationships
  <2>2. \A r \in own : r.type = "describes" /\ \E i \in DOMAIN scan.packages : r.object = scan.packages[i].id
    OBVIOUS
  <2>3. \A i \in DOMAIN scan.packages : \E r \in own : r.object = scan.packages[i].id
    <3> SUFFICES ASSUME NEW i \in DOMAIN scan.packages
                 PROVE  \E r \in own : r.object = scan.packages[i].id
      OBVIOUS
    <3> DEFINE r == [subject |-> Len(docs) + 1, type |-> "describes", object |-> scan.packages[i].id]
    <3>1. r \in own
      BY Zenon
    <3>2. r.object = scan.packages[i].id
      OBVIOUS
    <3> HIDE DEF own, r
    <3> QED BY <3>1, <3>2
  <2>4. \A r \in found : r.type # "describes"
    <3>1. \A t \in DOMAIN RelationshipType : RelationshipType[t] # "describes"
      BY DEF RelationshipType
    <3>2. \A r \in found : \E t \in DOMAIN RelationshipType : r.type = RelationshipType[t]
      OBVIOUS
    <3> HIDE DEF found
    <3> QED BY <3>1, <3>2
  <2> HIDE DEF own, found
  <2> QED BY <2>1, <2>2, <2>3, <2>4 DEF DescribedBy
<1>7. WellMade(doc, pkgs')
  BY <1>3, <1>5, <1>6 DEF WellMade, SaysSo
<1>8. HasMerged(doc, docs, pkgs')
  BY <1>3 DEF HasMerged
<1> QED BY <1>1, <1>2, <1>5, <1>7, <1>8, Added DEF DocumentsInv

LEMMA ReloadStep ==
  ASSUME DocumentsInv, NEW d \in DOMAIN docs, Reload(d)
  PROVE  DocumentsInv'
<1> DEFINE old == docs[d].packages
           block == [i \in DOMAIN old |-> pkgs[old[i]]]
           addresses == [i \in DOMAIN old |-> Len(pkgs) + i]
           doc == [packages |-> addresses,
                   relationships |-> docs[d].relationships,
                   files |-> docs[d].files,
                   merged |-> docs[d].merged, said |-> Said(ToSet(addresses), pkgs')]
<1>1. pkgs \in Seq(Package) /\ docs \in Seq(ToSet(docs)) /\ MadeRight(docs, pkgs)
  BY DEF DocumentsInv
<1>2. pkgs' = pkgs \o block /\ docs' = Append(docs, doc)
  BY DEF Reload
<1>3. /\ doc.packages = addresses /\ doc.merged = docs[d].merged
      /\ doc.relationships = docs[d].relationships
      /\ doc.said = Said(ToSet(addresses), pkgs')
  OBVIOUS
<1> HIDE DEF doc
<1>4. WellMade(docs[d], pkgs) /\ HasMerged(docs[d], docs, pkgs)
  BY <1>1 DEF MadeRight
<1>5. /\ DOMAIN block = DOMAIN old /\ \A i \in DOMAIN old : block[i] = pkgs[old[i]]
  OBVIOUS
<1>6. block \in Seq(Package)
  <2>1. old \in Seq(DOMAIN pkgs)
    BY <1>4 DEF WellMade
  <2>2. DOMAIN old = 1 .. Len(old) /\ Len(old) \in Nat
    BY <2>1, LenProperties
  <2>3. \A i \in DOMAIN old : pkgs[old[i]] \in Package
    BY <1>1, <2>1, Members
  <2>4. block \in [1 .. Len(old) -> Package]
    BY <2>2, <2>3
  <2> HIDE DEF block
  <2> QED BY <2>2, <2>4, SeqDef
<1> HIDE DEF block
<1>7. \A i, j \in DOMAIN block : block[i].id = block[j].id => i = j
  BY <1>4, <1>5 DEF WellMade, EachIDOnce
<1>8. addresses = [i \in DOMAIN block |-> Len(pkgs) + i]
  BY <1>5
<1> HIDE DEF addresses
<1>9. /\ pkgs' \in Seq(Package) /\ Grows(pkgs, pkgs')
      /\ addresses \in Seq(DOMAIN pkgs')
      /\ EachIDOnce(addresses, pkgs')
      /\ \A a \in ToSet(addresses) :
           Said(ToSet(addresses), pkgs')[pkgs'[a].id] = pkgs'[a].description
      /\ IDs(ToSet(addresses), pkgs') = {block[i].id : i \in DOMAIN block}
  BY <1>1, <1>2, <1>6, <1>7, <1>8, NewBlock
<1>10. {block[i].id : i \in DOMAIN block} = IDs(ToSet(old), pkgs)
  BY <1>5 DEF IDs, ToSet
<1>11. DescribedBy(doc) = IDs(ToSet(addresses), pkgs')
  BY <1>3, <1>4, <1>9, <1>10 DEF DescribedBy, WellMade
<1>12. WellMade(doc, pkgs')
  BY <1>3, <1>9, <1>11 DEF WellMade, SaysSo
<1>13. HasMerged(doc, docs, pkgs')
  <2> SUFFICES ASSUME docs[d].merged # <<>>
               PROVE  /\ ToSet(docs[d].merged) \subseteq DOMAIN docs
                      /\ IDs(ToSet(addresses), pkgs')
                           = UNION {IDs(ToSet(docs[m].packages), pkgs') : m \in ToSet(docs[d].merged)}
    BY <1>3 DEF HasMerged
  <2>1. /\ ToSet(docs[d].merged) \subseteq DOMAIN docs
        /\ IDs(ToSet(old), pkgs)
             = UNION {IDs(ToSet(docs[m].packages), pkgs) : m \in ToSet(docs[d].merged)}
    BY <1>4 DEF HasMerged
  <2>2. \A m \in ToSet(docs[d].merged) :
          IDs(ToSet(docs[m].packages), pkgs') = IDs(ToSet(docs[m].packages), pkgs)
    BY <1>1, <1>9, <2>1, StaysRight DEF MadeRight
  <2>3. UNION {IDs(ToSet(docs[m].packages), pkgs') : m \in ToSet(docs[d].merged)}
          = UNION {IDs(ToSet(docs[m].packages), pkgs) : m \in ToSet(docs[d].merged)}
    BY <2>2
  <2> QED BY <1>9, <1>10, <2>1, <2>3, Zenon
<1> QED BY <1>1, <1>2, <1>9, <1>12, <1>13, Added DEF DocumentsInv

(* SyftGenerator: whatever is generated, merged and read again, and however *)
(* documents share packages, each document has each of its packages once,   *)
(* keeps what it said of them and describes them all.                       *)
THEOREM DocumentsStayRight == SBOMSpec => []DocumentsAreRight
<1>1. SBOMInit => DocumentsInv
  <2> SUFFICES ASSUME SBOMInit PROVE DocumentsInv
    OBVIOUS
  <2>1. pkgs = <<>> /\ docs = <<>>
    BY DEF SBOMInit
  <2>2. <<>> \in Seq(Package) /\ <<>> \in Seq(ToSet(<<>>)) /\ DOMAIN <<>> = {}
    BY EmptySeq
  <2> QED BY <2>1, <2>2 DEF DocumentsInv, MadeRight
<1>2. DocumentsInv /\ [SBOMNext]_sbomVars => DocumentsInv'
  <2> SUFFICES ASSUME DocumentsInv, [SBOMNext]_sbomVars PROVE DocumentsInv'
    OBVIOUS
  <2>1. CASE UNCHANGED sbomVars
    BY <2>1 DEF DocumentsInv, sbomVars
  <2>2. ASSUME NEW scan \in Scans, NEW includeFiles \in BOOLEAN, Generate(scan, includeFiles)
        PROVE  DocumentsInv'
    BY <2>2, GenerateStep
  <2>3. ASSUME NEW a \in DOMAIN docs, NEW b \in DOMAIN docs, Merge(<<a, b>>)
        PROVE  DocumentsInv'
    <3>1. <<a, b>> \in Seq(DOMAIN docs) /\ Len(<<a, b>>) = 2
      OBVIOUS
    <3> QED BY <2>3, <3>1, MergeStep
  <2>4. ASSUME NEW a \in DOMAIN docs, NEW b \in DOMAIN docs, NEW c \in DOMAIN docs,
               Merge(<<a, b, c>>)
        PROVE  DocumentsInv'
    <3>1. <<a, b, c>> \in Seq(DOMAIN docs) /\ Len(<<a, b, c>>) = 3
      OBVIOUS
    <3> QED BY <2>4, <3>1, MergeStep
  <2>5. ASSUME NEW d \in DOMAIN docs, Reload(d) PROVE DocumentsInv'
    BY <2>5, ReloadStep
  <2> QED BY <2>1, <2>2, <2>3, <2>4, <2>5 DEF SBOMNext
<1> QED BY <1>1, <1>2, InvSuffices, PTL DEF SBOMSpec
==============================================================================
