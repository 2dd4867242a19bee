----------------------------- MODULE MCRegistry -----------------------------
(* Instances of Registry: two pushers whose images share a layer and a tag.  *)
EXTENDS Registry

CONSTANTS p1, p2, b, cfg1, cfg2, t1, d1, u1, r1

MCLayers == [c \in Pushers |-> <<b>>]
MCConfig == [c \in Pushers |-> IF c = p1 THEN cfg1 ELSE cfg2]
MCBlob   == [c \in Putters \union Deleters |-> b]
MCTeams  == {{p1, p2, r1}, {p1, u1, d1}}
MCTag    == [c \in Pushers \union Pullers |-> t1]
=============================================================================
