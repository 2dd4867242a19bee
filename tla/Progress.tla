------------------------------ MODULE Progress ------------------------------
(***************************************************************************)
(* The progress handler of pkg/builder/progress.go: one goroutine takes    *)
(* the solve statuses BuildKit sends, keeps what it learns of every vertex *)
(* (a build step) under a mutex, and offers events to the channel of the   *)
(* user interface without ever waiting for it; other goroutines read the   *)
(* statistics of the build under the same mutex.                           *)
(*                                                                         *)
(* A vertex digest is a member of Vertices.  A status is what              *)
(* client.SolveStatus carries: snapshots of vertices, in order, progress   *)
(* updates and log entries.  Times, names and log text are left out: the   *)
(* handler copies them.                                                    *)
(***************************************************************************)
EXTENDS Naturals, Sequences, SequencesExt, FiniteSets

CONSTANTS
  Vertices,         \* digests of the build's vertices
  Statuses,         \* the statuses BuildKit may send
  MaxStatuses,      \* bound: statuses of one build
  StatusCapacity,   \* capacity of the channel BuildKit sends statuses on
  EventCapacity     \* capacity of the user interface's channel

\* BuildKit's side: a completed vertex has been started (client.Vertex).
Snapshot ==
  {s \in [started : BOOLEAN, completed : BOOLEAN, failed : BOOLEAN, cached : BOOLEAN] :
     /\ s.completed => s.started
     /\ s.failed \/ s.cached => s.completed
     /\ ~(s.failed /\ s.cached)}

Status == [vertexes : Seq([vertex : Vertices, is : Snapshot]),
           updates  : Seq(Vertices),
           logs     : Seq(Vertices)]

ASSUME StatusAssumption == Statuses \subseteq Status
ASSUME BoundAssumption  == /\ MaxStatuses \in Nat
                           /\ StatusCapacity \in Nat \ {0}
                           /\ EventCapacity \in Nat \ {0}

VARIABLES
  vertexes,   \* [Vertices -> what the handler holds of it]
  logs,       \* [Vertices -> number of stored log entries]
  todo,       \* what is left of the status being processed
  pc,         \* the handler: "select", "working" (holding mu) or "done"
  ctx,        \* "live" or "done"
  statuses,   \* channel of statuses from BuildKit
  events,     \* channel of events to the user interface
  (* history *)
  sent,       \* statuses BuildKit has sent, in order
  taken,      \* how many of them the handler has taken
  shown,      \* [Vertices -> started and end events the interface received]
  read        \* what a reader got last, and the statuses finished by then

handler == <<vertexes, logs, todo>>
vars == <<vertexes, logs, todo, pc, ctx, statuses, events,
          sent, taken, shown, read>>

Unknown == [known |-> FALSE, started |-> FALSE, completed |-> FALSE,
            failed |-> FALSE, cached |-> FALSE]

BuildStats(vs) ==
  LET Count(P(_)) == Cardinality({v \in Vertices : P(vs[v])})
  IN [total     |-> Count(LAMBDA x : x.known),
      completed |-> Count(LAMBDA x : x.known /\ x.completed),
      cached    |-> Count(LAMBDA x : x.known /\ x.completed /\ x.cached),
      errored   |-> Count(LAMBDA x : x.known /\ x.failed)]

\* GetCompletedVertexes: which they are; their fields stay those of the handler.
CompletedVertexes(vs) == {v \in Vertices : vs[v].known /\ vs[v].completed}

Read(vs, ls, n) ==
  [stats |-> BuildStats(vs), completed |-> CompletedVertexes(vs), logs |-> ls, after |-> n]

Init ==
  /\ vertexes = [v \in Vertices |-> Unknown]
  /\ logs = [v \in Vertices |-> 0]
  /\ todo = <<>>
  /\ pc = "select"
  /\ ctx = "live"
  /\ statuses = <<>>
  /\ events = <<>>
  /\ sent = <<>>
  /\ taken = 0
  /\ shown = [v \in Vertices |-> <<>>]
  /\ read = Read(vertexes, logs, 0)

(***************************************************************************)
(* BuildKit: sends statuses; a log or an update names a vertex that this   *)
(* or an earlier status announced.                                         *)
(***************************************************************************)
Announced(seq) == UNION {{x.vertex : x \in ToSet(s.vertexes)} : s \in ToSet(seq)}

SendStatus ==
  /\ Len(sent) < MaxStatuses
  /\ Len(statuses) < StatusCapacity
  /\ \E s \in Statuses :
       /\ ToSet(s.logs) \union ToSet(s.updates) \subseteq Announced(Append(sent, s))
       /\ statuses' = Append(statuses, s)
       /\ sent' = Append(sent, s)
  /\ UNCHANGED <<handler, pc, ctx, events, taken, shown, read>>

CancelContext ==
  /\ ctx = "live"
  /\ ctx' = "done"
  /\ UNCHANGED <<handler, pc, statuses, events, sent, taken, shown, read>>

(***************************************************************************)
(* The handler: HandleProgress takes a status and processStatus handles    *)
(* its vertexes, then its updates, then its logs, holding mu throughout.   *)
(***************************************************************************)
(* Mutant: the logs of a status come first. *)
WorkLogsFirst(status) ==
  [i \in DOMAIN status.logs |-> [does |-> "log", vertex |-> status.logs[i]]]
  \o [i \in DOMAIN status.vertexes |-> [does |-> "vertex", vertex |-> status.vertexes[i].vertex,
                                        is |-> status.vertexes[i].is]]
  \o [i \in DOMAIN status.updates |-> [does |-> "update", vertex |-> status.updates[i]]]

Work(status) ==
  [i \in DOMAIN status.vertexes |-> [does |-> "vertex", vertex |-> status.vertexes[i].vertex,
                                     is |-> status.vertexes[i].is]]
  \o [i \in DOMAIN status.updates |-> [does |-> "update", vertex |-> status.updates[i]]]
  \o [i \in DOMAIN status.logs |-> [does |-> "log", vertex |-> status.logs[i]]]

TakeStatus ==
  /\ pc = "select"
  /\ statuses # <<>>
  /\ todo' = Work(Head(statuses))
  /\ statuses' = Tail(statuses)
  /\ taken' = taken + 1
  /\ pc' = "working"
  /\ UNCHANGED <<vertexes, logs, ctx, events, sent, shown, read>>

(* Mutant: the handler keeps the last snapshot of a vertex. *)
Overwritten(v, snap) ==
  [known |-> TRUE, started |-> snap.started, completed |-> snap.completed,
   failed |-> snap.failed, cached |-> snap.cached]

(* Mutant: a vertex that comes back uncached is no longer counted as cached. *)
UncachedAgain(v, snap) == [Overwritten(v, snap) EXCEPT
  !.started = @ \/ v.started, !.completed = @ \/ v.completed, !.failed = @ \/ v.failed]

\* processVertex: the first Started and the first Completed count.
Updated(v, snap) ==
  LET starts == snap.started /\ ~v.started
      ends   == snap.completed /\ ~v.completed
  IN [known     |-> TRUE,
      started   |-> v.started \/ starts,
      completed |-> v.completed \/ ends,
      failed    |-> v.failed \/ (ends /\ snap.failed),
      cached    |-> v.cached \/ snap.cached]

Event(v, kind) == [vertex |-> v, kind |-> kind]

\* The events processVertex sends when the snapshot takes v from old to new.
EventsOf(v, old, new) ==
  (IF new.started /\ ~old.started THEN <<Event(v, "started")>> ELSE <<>>)
  \o (IF new.completed /\ ~old.completed
      THEN <<Event(v, IF new.failed THEN "error" ELSE "completed")>> ELSE <<>>)

Doing(what) == pc = "working" /\ todo # <<>> /\ Head(todo).does = what

\* The events a step produces are sent one by one, before the next item.
ThenSend(es) ==
  todo' = [i \in DOMAIN es |-> [does |-> "send", event |-> es[i]]] \o Tail(todo)

Running(v) == IF vertexes[v].known THEN <<Event(v, "running")>> ELSE <<>>

ProcessVertex ==
  /\ Doing("vertex")
  /\ LET v   == Head(todo).vertex
         new == Updated(vertexes[v], Head(todo).is)
     IN /\ vertexes' = [vertexes EXCEPT ![v] = new]
        /\ ThenSend(EventsOf(v, vertexes[v], new))
  /\ UNCHANGED <<logs, pc, ctx, statuses, events, sent, taken, shown, read>>

\* An update or a log of a vertex the handler does not know is dropped.
ProcessStatusUpdate ==
  /\ Doing("update")
  /\ ThenSend(Running(Head(todo).vertex))
  /\ UNCHANGED <<vertexes, logs, pc, ctx, statuses, events, sent, taken,
                 shown, read>>

ProcessLog ==
  /\ Doing("log")
  /\ LET v == Head(todo).vertex
     IN /\ logs' = [logs EXCEPT ![v] = IF vertexes[v].known THEN @ + 1 ELSE @]
        /\ ThenSend(Running(v))
  /\ UNCHANGED <<vertexes, pc, ctx, statuses, events, sent, taken, shown, read>>

(* Mutant: events pile up beyond the channel's capacity. *)
PiledUp == Append(events, Head(todo).event)

\* The send takes what room there is and never waits.
Offered == IF Len(events) < EventCapacity THEN Append(events, Head(todo).event) ELSE events

(* Mutant: the send has no default branch and waits for room. *)
SendWaiting ==
  /\ Doing("send")
  /\ Len(events) < EventCapacity
  /\ events' = Offered
  /\ todo' = Tail(todo)
  /\ UNCHANGED <<vertexes, logs, pc, ctx, statuses, sent, taken, shown, read>>

SendProgress ==
  /\ Doing("send")
  /\ events' = Offered
  /\ todo' = Tail(todo)
  /\ UNCHANGED <<vertexes, logs, pc, ctx, statuses, sent, taken, shown, read>>

FinishStatus ==
  /\ pc = "working" /\ todo = <<>>
  /\ pc' = "select"
  /\ UNCHANGED <<handler, ctx, statuses, events, sent, taken, shown, read>>

\* HandleProgress returns: the context is done, or BuildKit closed the channel.
HandlerReturns ==
  /\ pc = "select"
  /\ \/ ctx = "done"
     \/ Len(sent) = MaxStatuses /\ statuses = <<>>
  /\ pc' = "done"
  /\ UNCHANGED <<handler, ctx, statuses, events, sent, taken, shown, read>>

(***************************************************************************)
(* The other goroutines: GetBuildStats, GetCompletedVertexes and           *)
(* GetVertexLogs take mu for reading, and one step stands for any of them; *)
(* the interface receives events when it likes.  The owner of the events'  *)
(* channel does not close it before the handler returned: a send would     *)
(* panic then.                                                             *)
(***************************************************************************)
(* Mutant: it is read without the lock. *)
GetBuildStatsUnlocked ==
  /\ read' = Read(vertexes, logs, taken)
  /\ UNCHANGED <<handler, pc, ctx, statuses, events, sent, taken, shown>>

GetBuildStats ==
  /\ pc # "working"
  /\ read' = Read(vertexes, logs, taken)
  /\ UNCHANGED <<handler, pc, ctx, statuses, events, sent, taken, shown>>

ReceiveEvent ==
  /\ events # <<>>
  /\ events' = Tail(events)
  /\ LET e == Head(events)
     IN shown' = IF e.kind = "running" THEN shown
                 ELSE [shown EXCEPT ![e.vertex] = Append(@, e.kind)]
  /\ UNCHANGED <<handler, pc, ctx, statuses, sent, taken, read>>

Handle == \/ TakeStatus \/ ProcessVertex \/ ProcessStatusUpdate \/ ProcessLog
          \/ SendProgress \/ FinishStatus \/ HandlerReturns

Next == SendStatus \/ CancelContext \/ Handle \/ GetBuildStats \/ ReceiveEvent

Spec == Init /\ [][Next]_vars

\* The goroutine of HandleProgress runs; nothing obliges the interface to read.
FairSpec == Spec /\ WF_vars(Handle)

-----------------------------------------------------------------------------
TypeOK ==
  /\ vertexes \in [Vertices -> [known : BOOLEAN, started : BOOLEAN, completed : BOOLEAN,
                                failed : BOOLEAN, cached : BOOLEAN]]
  /\ logs \in [Vertices -> Nat]
  /\ pc \in {"select", "working", "done"}
  /\ ctx \in {"live", "done"}
  /\ statuses \in Seq(Statuses) /\ Len(statuses) <= StatusCapacity
  /\ Len(events) <= EventCapacity
  /\ taken <= Len(sent) /\ Len(sent) <= MaxStatuses

(* What readers must be told once a sequence of statuses is handled, found  *)
(* without the handler: a vertex counts once announced, it is completed     *)
(* once a snapshot says so, it has failed when the first of these says so,  *)
(* it is cached when any snapshot of it was, and every log of it is there.  *)
(* A place is the number of a status and a position in it.                  *)
Snapshots(seq, v) ==
  {p \in UNION {{i} \X DOMAIN seq[i].vertexes : i \in DOMAIN seq} :
     seq[p[1]].vertexes[p[2]].vertex = v}
Logged(seq, v) ==
  {p \in UNION {{i} \X DOMAIN seq[i].logs : i \in DOMAIN seq} : seq[p[1]].logs[p[2]] = v}
Before(p, q) == p[1] < q[1] \/ (p[1] = q[1] /\ p[2] < q[2])

ReadOf(seq) ==
  LET Is(p) == seq[p[1]].vertexes[p[2]].is
      ends(v) == {p \in Snapshots(seq, v) : Is(p).completed}
      failed(v) == \E p \in ends(v) : Is(p).failed /\ \A q \in ends(v) : ~Before(q, p)
  IN [stats     |-> [total     |-> Cardinality({v \in Vertices : Snapshots(seq, v) # {}}),
                     completed |-> Cardinality({v \in Vertices : ends(v) # {}}),
                     cached    |-> Cardinality({v \in Vertices :
                                                  \E p \in Snapshots(seq, v) : Is(p).cached}),
                     errored   |-> Cardinality({v \in Vertices : failed(v)})],
      completed |-> {v \in Vertices : ends(v) # {}},
      logs      |-> [v \in Vertices |-> Cardinality(Logged(seq, v))],
      after     |-> Len(seq)]

(* The user interface sees of each vertex at most one start and one end, in *)
(* that order, whatever BuildKit repeats and whichever events are dropped.  *)
OneStartOneEnd ==
  \A v \in Vertices :
    shown[v] \in {<<>>} \union {s \o e : s \in {<<>>, <<"started">>},
                                         e \in {<<>>, <<"completed">>, <<"error">>}}

(* A status is taken in whole, its vertices, its updates and its logs: the  *)
(* statistics, the completed vertices and the logs that GetBuildStats,      *)
(* GetCompletedVertexes and GetVertexLogs return are what the statuses      *)
(* handled by then say, all of them and nothing else.  No log is lost, also *)
(* when its vertex was announced in the same status or its event dropped.   *)
StatusesAreTakenWhole == read = ReadOf(SubSeq(sent, 1, read.after))

(* Progress never holds up the build: whatever the interface does, a status *)
(* BuildKit has sent is handled, or the handler has returned (the select of *)
(* sendProgress has a default branch).                                      *)
StatusesAreHandled ==
  \A n \in 1 .. MaxStatuses :
    Len(sent) >= n ~> (taken >= n /\ todo = <<>>) \/ pc = "done"
=============================================================================
