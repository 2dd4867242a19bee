-------------------------------- MODULE Signing --------------------------------
(***************************************************************************)
(* CosignSigner, CosignVerifier (pkg/signing/cosign.go) and the generators *)
(* and the validator of attestations (attestation.go), over the key store: *)
(* what they answer in a state of the store, also one in the middle of     *)
(* another command's work.  The cryptography is a placeholder in the code: *)
(* a signature is checked for being there, with a key that can be read.    *)
(*                                                                         *)
(* An image reference is the sequence of its parts, <<"reg", ":", "5000",  *)
(* "/", "app", ":", "v1">>; a predicate is "nil", "data" or "func", which  *)
(* json.Marshal refuses; the empty string is what was not given.           *)
(***************************************************************************)
EXTENDS KeyStore

CONSTANTS
  Images,      \* image references
  Digest       \* the digest of the image

\* A reference has a tag or none, and not a digest already: between two of
\* its colons, that of a port and that of a tag, there is a slash.
ASSUME ImageAssumption ==
  /\ Digest # "@"
  /\ \A image \in Images :
       /\ image \in Seq(STRING)
       /\ \A i \in DOMAIN image : image[i] # "@"
       /\ \A i, j \in DOMAIN image : i < j /\ image[i] = ":" /\ image[j] = ":" =>
            \E k \in i .. j : image[k] = "/"

Refused == [ok |-> FALSE]

NoRef    == <<>>
NoImage  == <<>>
RefsGiven == Refs \union {NoRef}

\* getSigningAlgorithm, of the signer and of the key provider.
SigningAlgorithm(k) ==
  CASE KeyType[k] = "ecdsa"   -> "ECDSA-P256"
    [] KeyType[k] = "ed25519" -> "Ed25519"
    [] KeyType[k] = "rsa"     -> "RSA-PSS"

NoSignature == [keyID |-> NoRef, algorithm |-> "none", payload |-> "none"]

-----------------------------------------------------------------------------
(***************************************************************************)
(* Images.                                                                 *)
(***************************************************************************)
Sign(image, digest, ref) ==
  IF image = NoImage \/ digest = "" \/ GetPrivateKey(ref) = NoKey THEN Refused
  ELSE [ok |-> TRUE, keyID |-> ref, algorithm |-> SigningAlgorithm(GetPrivateKey(ref)),
        payload |-> image \o <<"@", digest>>]

Positions(part, image) == {i \in DOMAIN image : image[i] = part}

(* Mutant: whatever follows the last colon is a tag. *)
CutAtLastColon(image) ==
  LET colons == Positions(":", image)
  IN  IF colons = {} THEN image ELSE SubSeq(image, 1, Max(colons) - 1)

\* The tag goes when a digest comes, but not the port of a registry.
StripTag(image) ==
  LET colons == Positions(":", image)
  IN  IF colons # {} /\ \A i \in Positions("/", image) : i < Max(colons)
        THEN SubSeq(image, 1, Max(colons) - 1)
        ELSE image

\* getImageSignatures finds a signature for every reference that parses.
Verify(image, digest, ref) ==
  LET lookup == IF digest = "" THEN image ELSE StripTag(image) \o <<"@", digest>>
  IN  IF image = NoImage \/ ref = NoRef \/ GetPublicKey(ref) = NoKey
           \/ \E i, j \in Positions("@", lookup) : i # j
        THEN Refused
        ELSE [ok |-> TRUE, payload |-> lookup]

-----------------------------------------------------------------------------
(***************************************************************************)
(* Blobs and attestations.                                                 *)
(***************************************************************************)
SignBlob(data, ref) ==
  IF ref = NoRef \/ GetPrivateKey(ref) = NoKey THEN Refused
  ELSE [ok |-> TRUE, signature |-> [keyID |-> ref, payload |-> data,
                                    algorithm |-> SigningAlgorithm(GetPrivateKey(ref))]]

VerifyBlob(signature, key) == signature # NoSignature /\ key # NoKey

(* Mutant: the subject's digest is left to whoever attaches the attestation. *)
StatementWithoutDigest(req) ==
  [type |-> "Statement/v0.1", subject |-> req.subject, digests |-> {},
   predicateType |-> req.predicateType, predicate |-> req.predicate,
   signature |-> NoSignature]

Statement(req) ==
  [type |-> "Statement/v0.1", subject |-> req.subject, digests |-> {"sha256"},
   predicateType |-> req.predicateType, predicate |-> req.predicate,
   signature |-> NoSignature]

\* The statement is put into JSON only to be signed.
GenerateAttestation(req) ==
  LET signed == SignBlob("statement", req.keyRef)
  IN  IF req.subject = "" \/ req.predicateType = "" \/ req.predicate = "nil" THEN Refused
      ELSE IF req.keyRef = NoRef
             THEN [ok |-> TRUE, attestation |-> Statement(req)]
      ELSE IF req.predicate = "func" \/ ~signed.ok THEN Refused
      ELSE [ok |-> TRUE,
            attestation |-> [Statement(req) EXCEPT !.signature = signed.signature]]

(* Mutant: without a key the attestation is made all the same. *)
UnsignedIfNeedBe(subject, predicateType, ref) ==
  GenerateAttestation([subject |-> subject, predicateType |-> predicateType,
                       predicate |-> "data",
                       keyRef |-> IF GetPrivateKey(ref) = NoKey THEN NoRef ELSE ref])

\* GenerateSBOMAttestation and GenerateProvenanceAttestation ask for a key.
GeneratePredicate(subject, predicateType, ref) ==
  IF ref = NoRef THEN Refused
  ELSE GenerateAttestation([subject |-> subject, predicateType |-> predicateType,
                            predicate |-> "data", keyRef |-> ref])

ValidStructure(a) ==
  /\ a.type = "Statement/v0.1"
  /\ a.subject # "" /\ a.digests # {}
  /\ a.predicateType # "" /\ a.predicate # "nil"

\* An attestation that is not signed is valid when its structure is.
ValidateAttestation(a, key) ==
  /\ key # NoKey
  /\ ValidStructure(a)
  /\ a.signature # NoSignature => a.predicate # "func" /\ VerifyBlob(a.signature, key)

-----------------------------------------------------------------------------
\* The part of a reference before its tag, by the grammar of references.
Repository(image) ==
  LET slashes == Positions("/", image)
      start == IF slashes = {} THEN 0 ELSE Max(slashes)
      colons == {i \in Positions(":", image) : i > start}
  IN  IF colons = {} THEN image ELSE SubSeq(image, 1, Min(colons) - 1)

(* What the signer signed the verifier accepts with the same key reference, *)
(* in every state of the key store, half-written pairs included, and looks  *)
(* for at the same repository and digest, ports and tags notwithstanding.   *)
SignedImagesVerify ==
  \A r \in RefsGiven, image \in Images :
    LET s == Sign(image, Digest, r)
        v == Verify(image, Digest, r)
    IN  s.ok => v.ok /\ v.payload = Repository(image) \o <<"@", Digest>>

(* An attestation that was generated is valid for the validator, with the   *)
(* public key of the reference it was signed under, and carries the         *)
(* algorithm of that key.  One for an SBOM or a build is always signed.     *)
AttestationsValidate ==
  /\ \A subject \in {"", "image"}, type \in {"", "sbom"}, predicate \in {"nil", "data", "func"},
        r \in RefsGiven :
       LET g == GenerateAttestation([subject |-> subject, predicateType |-> type,
                                     predicate |-> predicate, keyRef |-> r])
           key == IF r = NoRef THEN Key0 ELSE GetPublicKey(r)
       IN  g.ok => /\ ValidateAttestation(g.attestation, key)
                   /\ r # NoRef => g.attestation.signature.algorithm = SigningAlgorithm(key)
  /\ \A r \in RefsGiven, subject \in {"", "image"}, type \in {"sbom", "slsa"} :
       LET g == GeneratePredicate(subject, type, r)
       IN  g.ok => g.attestation.signature # NoSignature

(* Signatures are accepted where they were made. *)
SignaturesAreAccepted == SignedImagesVerify /\ AttestationsValidate
==============================================================================
