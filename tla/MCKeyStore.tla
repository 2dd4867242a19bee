---------------------------- MODULE MCKeyStore ----------------------------
(* Small instances of what is made of a finished build: the key store with  *)
(* the signer above it, and the SBOM documents.  Each behaviour runs one.   *)
EXTENDS Signing, SBOM

CONSTANTS p1, p2, k1, k2

VARIABLE machine   \* the one that runs

MCInit == Init /\ SBOMInit /\ machine \in {"keys", "sbom"}

MCNext ==
  /\ UNCHANGED machine
  /\ \/ machine = "keys" /\ Next /\ UNCHANGED sbomVars
     \/ machine = "sbom" /\ SBOMNext /\ UNCHANGED vars

MCSpec == MCInit /\ [][MCNext]_<<vars, sbomVars, machine>>

\* Two references whose names meet: StoreKey(a) writes the file that
\* GetPrivateKey(a.key) reads.
MeetingRefs == {<<"a">>, <<"a", "key">>}

\* A key pair's file the user put there, and no StoreKey ever writes.
PemFile  == {<<"c", "pem">>}

MCKeyType == [k \in {k1, k2} |-> IF k = k1 THEN "ecdsa" ELSE "rsa"]

\* With and without registry, port and tag.
MCImages ==
  {<<"app">>, <<"app", ":", "v1">>, <<"reg", ":", "5000", "/", "app">>,
   <<"reg", ":", "5000", "/", "app", ":", "v1">>}

\* Scans that share a package and know less or more of it; the relationship
\* of the last one has no counterpart in a document.
Pkg(id, description) == [id |-> id, description |-> description]
MCScans ==
  {[packages |-> <<Pkg("a", ""), Pkg("b", "")>>, files |-> {"f"},
    relationships |-> {[from |-> "a", type |-> "dependency-of", to |-> "b"]}],
   [packages |-> <<Pkg("a", "x")>>, files |-> {"g"},
    relationships |-> {[from |-> "a", type |-> "contains", to |-> "g"]}],
   [packages |-> <<Pkg("b", ""), Pkg("a", "y")>>, files |-> {},
    relationships |-> {[from |-> "a", type |-> "evident-by", to |-> "f"]}]}
=============================================================================
