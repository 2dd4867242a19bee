----------------------------- MODULE MCProgress -----------------------------
(* Small instances of Progress for TLC.                                     *)
EXTENDS Progress

CONSTANTS v1, v2

MCVertices == {v1, v2}

Snap(name) ==
  [started   |-> name # "queued",
   completed |-> name \in {"done", "failed", "cached"},
   failed    |-> name = "failed",
   cached    |-> name = "cached"]

Of(v, name) == [vertex |-> v, is |-> Snap(name)]
Names == {"queued", "started", "done", "failed", "cached"}

\* A status with a snapshot of each of two vertices and a log.
OnePerVertex ==
  {[vertexes |-> <<Of(v1, a), Of(v2, b)>>, updates |-> <<>>, logs |-> l] :
     a \in Names, b \in {"done", "failed"}, l \in {<<v2>>}}

\* Statuses with several snapshots of one vertex, an update, and logs only.
OneVertex ==
  {[vertexes |-> <<Of(v1, a), Of(v1, b)>>, updates |-> <<v1>>, logs |-> <<>>] :
     a \in {"done", "failed", "cached"}, b \in {"started", "done", "cached"}}
OnlyLogs == {[vertexes |-> <<>>, updates |-> <<v1>>, logs |-> <<v1, v1>>]}

MCStatuses == OnePerVertex \union OneVertex \union OnlyLogs
=============================================================================
