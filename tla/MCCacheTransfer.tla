-------------------------- MODULE MCCacheTransfer --------------------------
(* Small instance of CacheTransfer for TLC.                                 *)
EXTENDS CacheTransfer

CONSTANTS e1, e2, e3, i1, i2, main, other, l1

MCExporters == {e1, e2, e3}
MCImporters == {i1, i2}
MCCallers   == MCExporters \union MCImporters
MCTags      == {"latest", "invalid"}

MCRepository == [c \in MCCallers |-> main]
To(kind, repo, tag) == [kind |-> kind, repo |-> repo, tag |-> tag]

\* All but one use one tag, by its name, as the default or by its reference;
\* the third exporter's destination is in another repository.
MCPlace == [c \in MCCallers |-> CASE c \in {e1, i1} -> To("tag", main, "latest")
                                  [] c = e2 -> To("empty", main, "latest")
                                  [] c = i2 -> To("reference", main, "latest")
                                  [] c = e3 -> To("reference", other, "latest")]
MCOthers == {[cache |-> FALSE, config |-> "no blob", layers |-> {l1}],
             [cache |-> TRUE, config |-> "no blob", layers |-> {l1}]}

\* An exporter of another version writes the same tag.
MCVersion == [c \in MCCallers |-> IF c \in {e2, i2} THEN "v2" ELSE "v1"]
=============================================================================
