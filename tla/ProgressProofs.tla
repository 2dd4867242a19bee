---------------------------- MODULE ProgressProofs ----------------------------
(***************************************************************************)
(* Proofs about Progress, for any vertices and statuses and every capacity *)
(* of the two channels: type correctness, one start and one end of each    *)
(* vertex for the user interface, and readers that are told what the       *)
(* handled statuses say.                                                   *)
(***************************************************************************)
EXTENDS Progress, SequenceTheorems, FiniteSetTheorems, TLAPS

Events == [vertex : Vertices, kind : {"started", "completed", "error", "running"}]

\* What the handler has to do: what a status says, and events to send.
Told  == [does : {"vertex"}, vertex : Vertices, is : Snapshot]
           \union [does : {"update", "log"}, vertex : Vertices]
Sends == [does : {"send"}, event : Events]
Items == Told \union Sends

Held == [known : BOOLEAN, started : BOOLEAN, completed : BOOLEAN,
         failed : BOOLEAN, cached : BOOLEAN]

-----------------------------------------------------------------------------
(* The inductive invariant.  Types: events are sent before anything else,   *)
(* so an item of a status is only looked at with no event left to send, and *)
(* a completed vertex has started, as BuildKit's snapshots have.            *)
Types ==
  /\ TypeOK
  /\ events \in Seq(Events)
  /\ todo \in Seq(Items)
  /\ sent \in Seq(Statuses)
  /\ taken \in Nat /\ taken + Len(statuses) = Len(sent)
  /\ pc # "working" => todo = <<>>
  /\ \A i, j \in 1 .. Len(todo) : i < j /\ todo[j].does = "send" => todo[i].does = "send"
  /\ \A v \in Vertices : vertexes[v].completed => vertexes[v].started

(* The events on their way to the interface: those in the channel, then     *)
(* those to be sent; an item that is no event is a silent place.            *)
Silent == [kind |-> "running"]
PendingOf(ev, td) ==
  [i \in 1 .. Len(ev) + Len(td) |->
     IF i <= Len(ev) THEN ev[i]
     ELSE IF td[i - Len(ev)].does = "send" THEN td[i - Len(ev)].event
     ELSE Silent]
Pending == PendingOf(events, todo)

Loud(e)   == e.kind # "running"
Opens(e)  == e.kind = "started"
Closes(e) == e.kind \in {"completed", "error"}

(* Of each vertex, an event on its way is the first the interface will see, *)
(* or an end after a start; and what was shown or is on its way has been    *)
(* noted in the vertex, so that it is not sent again.                       *)
Follows(e, vs, sh) ==
  /\ sh[e.vertex] = <<>> \/ (sh[e.vertex] = <<"started">> /\ Closes(e))
  /\ vs[e.vertex].started
  /\ Closes(e) => vs[e.vertex].completed

Ordered(q) ==
  \A i, j \in DOMAIN q :
    i < j /\ Loud(q[i]) /\ Loud(q[j]) /\ q[i].vertex = q[j].vertex =>
      Opens(q[i]) /\ Closes(q[j])

Stories == {<<>>, <<"started">>, <<"completed">>, <<"error">>,
            <<"started", "completed">>, <<"started", "error">>}

InOrder(q, vs, sh) ==
  /\ Ordered(q)
  /\ \A i \in DOMAIN q : Loud(q[i]) => Follows(q[i], vs, sh)
  /\ \A v \in Vertices : /\ sh[v] # <<>> => vs[v].started
                         /\ sh[v] \notin {<<>>, <<"started">>} => vs[v].completed

Inv == /\ Types
       /\ shown \in [Vertices -> Stories]
       /\ InOrder(Pending, vertexes, shown)

-----------------------------------------------------------------------------
(* What a status says is not an event. *)
LEMMA ToldIsNotSend == \A x \in Items : x.does = "send" <=> x \in Sends
BY DEF Items, Told, Sends

LEMMA MappedSeq ==
  ASSUME NEW T, NEW n \in Nat, NEW f \in [1 .. n -> T]
  PROVE  f \in Seq(T)
BY SeqDef

LEMMA WorkType == ASSUME NEW s \in Statuses PROVE Work(s) \in Seq(Told)
<1>0. /\ s.vertexes \in Seq([vertex : Vertices, is : Snapshot])
      /\ s.updates \in Seq(Vertices) /\ s.logs \in Seq(Vertices)
  BY StatusAssumption DEF Status
<1> DEFINE a == [i \in DOMAIN s.vertexes |-> [does |-> "vertex", vertex |-> s.vertexes[i].vertex,
                                              is |-> s.vertexes[i].is]]
           b == [i \in DOMAIN s.updates |-> [does |-> "update", vertex |-> s.updates[i]]]
           c == [i \in DOMAIN s.logs |-> [does |-> "log", vertex |-> s.logs[i]]]
<1>1. a \in Seq(Told)
  <2>1. \A i \in 1 .. Len(s.vertexes) : s.vertexes[i] \in [vertex : Vertices, is : Snapshot]
    BY <1>0, ElementOfSeq
  <2>2. DOMAIN s.vertexes = 1 .. Len(s.vertexes)
    BY <1>0, LenProperties
  <2>3. a \in [1 .. Len(s.vertexes) -> Told]
    BY <2>1, <2>2 DEF Told
  <2>4. Len(s.vertexes) \in Nat
    BY <1>0, LenProperties
  <2> HIDE DEF a
  <2> QED BY <2>3, <2>4, MappedSeq
<1>2. b \in Seq(Told)
  <2>1. \A i \in 1 .. Len(s.updates) : s.updates[i] \in Vertices
    BY <1>0, ElementOfSeq
  <2>2. DOMAIN s.updates = 1 .. Len(s.updates)
    BY <1>0, LenProperties
  <2>3. b \in [1 .. Len(s.updates) -> Told]
    BY <2>1, <2>2 DEF Told
  <2>4. Len(s.updates) \in Nat
    BY <1>0, LenProperties
  <2> HIDE DEF b
  <2> QED BY <2>3, <2>4, MappedSeq
<1>3. c \in Seq(Told)
  <2>1. \A i \in 1 .. Len(s.logs) : s.logs[i] \in Vertices
    BY <1>0, ElementOfSeq
  <2>2. DOMAIN s.logs = 1 .. Len(s.logs)
    BY <1>0, LenProperties
  <2>3. c \in [1 .. Len(s.logs) -> Told]
    BY <2>1, <2>2 DEF Told
  <2>4. Len(s.logs) \in Nat
    BY <1>0, LenProperties
  <2> HIDE DEF c
  <2> QED BY <2>3, <2>4, MappedSeq
<1>4. Work(s) = (a \o b) \o c
  BY DEF Work
<1> HIDE DEF a, b, c
<1>5. a \o b \in Seq(Told)
  BY <1>1, <1>2, ConcatProperties
<1>6. (a \o b) \o c \in Seq(Told)
  BY <1>3, <1>5, ConcatProperties
<1> QED BY <1>4, <1>6

(* The events of a vertex's change: at most a start, then an end, and only  *)
(* what is new.                                                             *)
LEMMA EventsOfFacts ==
  ASSUME NEW v \in Vertices, NEW old \in Held, NEW new \in Held
  PROVE  /\ EventsOf(v, old, new) \in Seq(Events)
         /\ \A i \in 1 .. Len(EventsOf(v, old, new)) :
              LET e == EventsOf(v, old, new)[i]
              IN  /\ e.vertex = v
                  /\ \/ Opens(e) /\ new.started /\ ~old.started
                     \/ Closes(e) /\ new.completed /\ ~old.completed
         /\ Ordered(EventsOf(v, old, new))
<1> DEFINE s == IF new.started /\ ~old.started THEN <<Event(v, "started")>> ELSE <<>>
           k == IF new.failed THEN "error" ELSE "completed"
           e == IF new.completed /\ ~old.completed THEN <<Event(v, k)>> ELSE <<>>
<1>0. EventsOf(v, old, new) = s \o e
  BY DEF EventsOf
<1>1. Event(v, "started") \in Events /\ Event(v, k) \in Events /\ k \in {"completed", "error"}
  BY DEF Events, Event
<1>2. s \in Seq(Events) /\ (Len(s) = 0 \/ (Len(s) = 1 /\ s[1] = Event(v, "started")
                                              /\ new.started /\ ~old.started))
  BY <1>1
<1>3. e \in Seq(Events) /\ (Len(e) = 0 \/ (Len(e) = 1 /\ e[1] = Event(v, k)
                                              /\ new.completed /\ ~old.completed))
  BY <1>1
<1> HIDE DEF s, e, k
<1>4. /\ s \o e \in Seq(Events) /\ Len(s \o e) = Len(s) + Len(e)
      /\ \A i \in 1 .. Len(s) + Len(e) : (s \o e)[i] = IF i <= Len(s) THEN s[i] ELSE e[i - Len(s)]
  BY <1>2, <1>3, ConcatProperties
<1>5. DOMAIN (s \o e) = 1 .. Len(s) + Len(e)
  BY <1>4, LenProperties
<1>6. /\ Event(v, "started").vertex = v /\ Opens(Event(v, "started"))
      /\ Event(v, k).vertex = v /\ Closes(Event(v, k))
  BY <1>1 DEF Event, Opens, Closes
<1>7. \A i \in 1 .. Len(s) + Len(e) :
        \/ /\ i = 1 /\ Len(s) = 1 /\ (s \o e)[i] = Event(v, "started")
           /\ new.started /\ ~old.started
        \/ /\ i = Len(s) + 1 /\ (s \o e)[i] = Event(v, k)
           /\ new.completed /\ ~old.completed
  BY <1>2, <1>3, <1>4
<1>8. \A i, j \in 1 .. Len(s) + Len(e) : i < j =>
        (s \o e)[i] = Event(v, "started") /\ (s \o e)[j] = Event(v, k)
  BY <1>2, <1>3, <1>7
<1>9. Ordered(s \o e)
  BY <1>5, <1>6, <1>8 DEF Ordered
<1> QED BY <1>0, <1>4, <1>6, <1>7, <1>9

(* A vertex keeps that it has started and ended, and ends started. *)
LEMMA UpdatedFacts ==
  ASSUME NEW v \in Held, NEW snap \in Snapshot, v.completed => v.started
  PROVE  /\ Updated(v, snap) \in Held
         /\ v.started => Updated(v, snap).started
         /\ v.completed => Updated(v, snap).completed
         /\ Updated(v, snap).completed => Updated(v, snap).started
<1>1. /\ v.started \in BOOLEAN /\ v.completed \in BOOLEAN /\ v.failed \in BOOLEAN
      /\ v.cached \in BOOLEAN
  BY DEF Held
<1>2. /\ snap.started \in BOOLEAN /\ snap.completed \in BOOLEAN /\ snap.failed \in BOOLEAN
      /\ snap.cached \in BOOLEAN
      /\ snap.completed => snap.started
  BY DEF Snapshot
<1> DEFINE st == v.started \/ (snap.started /\ ~v.started)
           co == v.completed \/ (snap.completed /\ ~v.completed)
           fa == v.failed \/ ((snap.completed /\ ~v.completed) /\ snap.failed)
           ca == v.cached \/ snap.cached
<1>3. Updated(v, snap) = [known |-> TRUE, started |-> st, completed |-> co,
                          failed |-> fa, cached |-> ca]
  BY DEF Updated
<1>4. st \in BOOLEAN /\ co \in BOOLEAN /\ fa \in BOOLEAN /\ ca \in BOOLEAN
  BY <1>1, <1>2
<1>5. (v.started => st) /\ (v.completed => co) /\ (co => st)
  <2>1. st <=> v.started \/ snap.started
    OBVIOUS
  <2>2. co => v.completed \/ snap.completed
    OBVIOUS
  <2>3. snap.completed => snap.started
    BY <1>2
  <2>4. v.completed => co
    OBVIOUS
  <2> HIDE DEF st, co
  <2> QED BY <2>1, <2>2, <2>3, <2>4
<1> HIDE DEF st, co, fa, ca
<1> QED BY <1>3, <1>4, <1>5 DEF Held

(* An item of a status is looked at when no event is left to be sent; what  *)
(* it makes is sent next.                                                   *)
LEMMA ThenSendFacts ==
  ASSUME Types, todo # <<>>, Head(todo).does # "send", NEW es \in Seq(Events), ThenSend(es)
  PROVE  /\ todo' \in Seq(Items)
         /\ \A i \in 1 .. Len(todo) : todo[i].does # "send"
         /\ Len(todo') = Len(es) + Len(todo) - 1
         /\ \A i \in 1 .. Len(todo') : todo'[i].does = "send" <=> i <= Len(es)
         /\ \A i \in 1 .. Len(es) : todo'[i].event = es[i]
         /\ \A i \in 1 .. Len(todo') : i > Len(es) => todo'[i] = todo[i - Len(es) + 1]
<1> DEFINE sends == [i \in DOMAIN es |-> [does |-> "send", event |-> es[i]]]
<1>1. todo \in Seq(Items) /\ todo' = sends \o Tail(todo)
  BY DEF Types, ThenSend
<1>2. Len(es) \in Nat /\ DOMAIN es = 1 .. Len(es) /\ \A i \in 1 .. Len(es) : es[i] \in Events
  BY LenProperties, ElementOfSeq
<1>3. sends \in [1 .. Len(es) -> Items] /\ DOMAIN sends = 1 .. Len(es)
  BY <1>2 DEF Items, Sends
<1>4. \A i \in 1 .. Len(es) : sends[i].does = "send" /\ sends[i].event = es[i]
  BY <1>2
<1> HIDE DEF sends
<1>5. sends \in Seq(Items) /\ Len(sends) = Len(es)
  <2>1. sends \in Seq(Items)
    BY <1>2, <1>3, MappedSeq
  <2> QED BY <1>2, <1>3, <2>1, LenProperties
<1>6. /\ Tail(todo) \in Seq(Items) /\ Len(Tail(todo)) = Len(todo) - 1
      /\ \A i \in 1 .. Len(Tail(todo)) : Tail(todo)[i] = todo[i + 1]
      /\ Len(todo) \in Nat \ {0} /\ Head(todo) = todo[1]
  BY <1>1, HeadTailProperties, EmptySeq
<1>7. \A i \in 1 .. Len(todo) : todo[i].does # "send"
  BY <1>6 DEF Types
<1>8. /\ todo' \in Seq(Items) /\ Len(todo') = Len(es) + Len(todo) - 1
      /\ \A i \in 1 .. Len(todo') : todo'[i] = IF i <= Len(es) THEN sends[i]
                                               ELSE Tail(todo)[i - Len(es)]
  <2>1. /\ sends \o Tail(todo) \in Seq(Items)
        /\ Len(sends \o Tail(todo)) = Len(sends) + Len(Tail(todo))
        /\ \A i \in 1 .. Len(sends) + Len(Tail(todo)) :
             (sends \o Tail(todo))[i] = IF i <= Len(sends) THEN sends[i]
                                        ELSE Tail(todo)[i - Len(sends)]
    BY <1>5, <1>6, ConcatProperties
  <2>2. Len(sends) + Len(Tail(todo)) = Len(es) + Len(todo) - 1
    BY <1>2, <1>5, <1>6
  <2> QED BY <1>1, <1>5, <2>1, <2>2
<1>9. \A i \in 1 .. Len(todo') : i > Len(es) => todo'[i] = todo[i - Len(es) + 1]
  <2> SUFFICES ASSUME NEW i \in 1 .. Len(todo'), i > Len(es)
               PROVE  todo'[i] = todo[i - Len(es) + 1]
    OBVIOUS
  <2>1. i - Len(es) \in 1 .. Len(Tail(todo))
    BY <1>2, <1>6, <1>8
  <2> QED BY <1>2, <1>6, <1>8, <2>1
<1>10. \A i \in 1 .. Len(todo') : todo'[i].does = "send" <=> i <= Len(es)
  <2> SUFFICES ASSUME NEW i \in 1 .. Len(todo')
               PROVE  todo'[i].does = "send" <=> i <= Len(es)
    OBVIOUS
  <2>1. CASE i <= Len(es)
    BY <1>2, <1>4, <1>8, <2>1
  <2>2. CASE i > Len(es)
    <3>1. i - Len(es) + 1 \in 1 .. Len(todo)
      BY <1>2, <1>6, <1>8, <2>2
    <3> QED BY <1>7, <1>9, <2>2, <3>1, <1>2
  <2> QED BY <1>2, <2>1, <2>2
<1>11. \A i \in 1 .. Len(es) : todo'[i].event = es[i]
  BY <1>2, <1>4, <1>6, <1>8
<1> QED BY <1>7, <1>8, <1>9, <1>10, <1>11

-----------------------------------------------------------------------------
LEMMA TypesInit == Init => Types
<1> SUFFICES ASSUME Init PROVE Types
  OBVIOUS
<1>1. TypeOK
  BY BoundAssumption DEF Init, TypeOK, Unknown
<1>2. /\ events \in Seq(Events) /\ todo \in Seq(Items) /\ sent \in Seq(Statuses)
      /\ taken + Len(statuses) = Len(sent) /\ Len(todo) = 0
  BY DEF Init
<1> QED BY <1>1, <1>2 DEF Init, Types, Unknown

(* The handler works on an item of a status. *)
LEMMA WorkTypes ==
  ASSUME Types, todo # <<>>, Head(todo).does # "send", NEW es \in Seq(Events), ThenSend(es),
         vertexes' \in [Vertices -> Held],
         \A v \in Vertices : vertexes'[v].completed => vertexes'[v].started,
         logs' \in [Vertices -> Nat],
         pc = "working", UNCHANGED <<pc, ctx, statuses, events, sent, taken>>
  PROVE  Types'
<1>1. /\ todo' \in Seq(Items)
      /\ \A i \in 1 .. Len(todo') : todo'[i].does = "send" <=> i <= Len(es)
  BY ThenSendFacts
<1>2. Len(es) \in Nat /\ Len(todo') \in Nat
  BY <1>1, LenProperties
<1>3. \A i, j \in 1 .. Len(todo') : i < j /\ todo'[j].does = "send" => todo'[i].does = "send"
  BY <1>1, <1>2
<1>4. TypeOK'
  BY DEF Types, TypeOK, Held
<1> QED BY <1>1, <1>3, <1>4 DEF Types

(* What ProcessVertex makes of the item at hand. *)
LEMMA ProcessVertexFacts ==
  ASSUME Types, ProcessVertex
  PROVE  \E v \in Vertices, new \in Held :
           /\ vertexes' = [vertexes EXCEPT ![v] = new]
           /\ ThenSend(EventsOf(v, vertexes[v], new))
           /\ vertexes[v].started => new.started
           /\ vertexes[v].completed => new.completed
           /\ new.completed => new.started
<1>1. todo \in Seq(Items) /\ todo # <<>> /\ Head(todo).does = "vertex"
  BY DEF ProcessVertex, Doing, Types
<1>2. Head(todo) \in Items
  BY <1>1, HeadTailProperties
<1>3. Head(todo).vertex \in Vertices /\ Head(todo).is \in Snapshot
  BY <1>1, <1>2 DEF Items, Told, Sends
<1> DEFINE v   == Head(todo).vertex
           new == Updated(vertexes[v], Head(todo).is)
<1>4. vertexes[v] \in Held /\ (vertexes[v].completed => vertexes[v].started)
  BY <1>3 DEF Types, TypeOK, Held
<1>5. /\ new \in Held
      /\ vertexes[v].started => new.started
      /\ vertexes[v].completed => new.completed
      /\ new.completed => new.started
  BY <1>3, <1>4, UpdatedFacts
<1>6. vertexes' = [vertexes EXCEPT ![v] = new] /\ ThenSend(EventsOf(v, vertexes[v], new))
  BY DEF ProcessVertex
<1> QED BY <1>3, <1>5, <1>6

(* An update or a log of a vertex that is known makes one event, which says *)
(* that it is running.                                                      *)
LEMMA RunningFacts ==
  ASSUME NEW v \in Vertices
  PROVE  /\ Running(v) \in Seq(Events)
         /\ \A i \in 1 .. Len(Running(v)) : ~Loud(Running(v)[i])
<1>1. Event(v, "running") \in Events /\ ~Loud(Event(v, "running"))
  BY DEF Event, Events, Loud
<1> QED BY <1>1 DEF Running

LEMMA QuietItemFacts ==
  ASSUME Types, ProcessStatusUpdate \/ ProcessLog
  PROVE  /\ todo # <<>> /\ Head(todo).does # "send"
         /\ Head(todo).vertex \in Vertices /\ ThenSend(Running(Head(todo).vertex))
         /\ pc = "working" /\ UNCHANGED <<vertexes, pc, ctx, statuses, events, sent, taken, shown>>
         /\ logs' \in [Vertices -> Nat]
<1>1. /\ todo \in Seq(Items) /\ todo # <<>> /\ Head(todo).does \in {"update", "log"}
      /\ pc = "working"
  BY DEF ProcessStatusUpdate, ProcessLog, Doing, Types
<1>2. Head(todo) \in Items
  BY <1>1, HeadTailProperties
<1>3. Head(todo).vertex \in Vertices
  BY <1>1, <1>2 DEF Items, Told, Sends
<1>4. /\ ThenSend(Running(Head(todo).vertex))
      /\ UNCHANGED <<vertexes, pc, ctx, statuses, events, sent, taken, shown>>
  BY DEF ProcessStatusUpdate, ProcessLog
<1>5. logs' \in [Vertices -> Nat]
  BY <1>3 DEF ProcessStatusUpdate, ProcessLog, Types, TypeOK
<1> QED BY <1>1, <1>3, <1>4, <1>5

(* The event at hand goes into the channel, or nowhere when that is full. *)
LEMMA SendFacts ==
  ASSUME Types, SendProgress
  PROVE  /\ todo[1].does = "send" /\ todo[1].event \in Events
         /\ Len(todo) \in Nat \ {0} /\ todo' \in Seq(Items) /\ Len(todo') = Len(todo) - 1
         /\ \A i \in 1 .. Len(todo') : todo'[i] = todo[i + 1]
         /\ events' \in Seq(Events) /\ Len(events') <= EventCapacity
         /\ \/ events' = events
            \/ /\ Len(events') = Len(events) + 1 /\ events'[Len(events) + 1] = todo[1].event
               /\ \A i \in 1 .. Len(events) : events'[i] = events[i]
         /\ pc = "working"
<1>1. /\ todo \in Seq(Items) /\ todo # <<>> /\ Head(todo).does = "send" /\ pc = "working"
      /\ todo' = Tail(todo) /\ events' = Offered
      /\ events \in Seq(Events) /\ Len(events) <= EventCapacity /\ EventCapacity \in Nat
  BY BoundAssumption DEF SendProgress, Doing, Types, TypeOK
<1>2. /\ Head(todo) \in Items /\ Tail(todo) \in Seq(Items) /\ Len(Tail(todo)) = Len(todo) - 1
      /\ \A i \in 1 .. Len(Tail(todo)) : Tail(todo)[i] = todo[i + 1]
      /\ Len(todo) \in Nat \ {0} /\ Head(todo) = todo[1]
  BY <1>1, HeadTailProperties, EmptySeq
<1>3. todo[1].does = "send" /\ todo[1].event \in Events
  BY <1>1, <1>2, ToldIsNotSend DEF Sends
<1>4. CASE Len(events) < EventCapacity
  <2>1. events' = Append(events, todo[1].event)
    BY <1>1, <1>2, <1>4 DEF Offered
  <2>2. /\ events' \in Seq(Events) /\ Len(events') = Len(events) + 1
        /\ events'[Len(events) + 1] = todo[1].event
        /\ \A i \in 1 .. Len(events) : events'[i] = events[i]
    BY <1>1, <1>3, <2>1, AppendProperties
  <2>3. Len(events) \in Nat
    BY <1>1, LenProperties
  <2> QED BY <1>1, <1>2, <1>3, <1>4, <2>2, <2>3
<1>5. CASE ~(Len(events) < EventCapacity)
  <2>1. events' = events
    BY <1>1, <1>5 DEF Offered
  <2> QED BY <1>1, <1>2, <1>3, <2>1
<1> QED BY <1>4, <1>5

LEMMA TypesStep == Types /\ [Next]_vars => Types'
<1> SUFFICES ASSUME Types, [Next]_vars PROVE Types'
  OBVIOUS
<1>0. /\ statuses \in Seq(Statuses) /\ sent \in Seq(Statuses) /\ events \in Seq(Events)
      /\ taken \in Nat /\ taken + Len(statuses) = Len(sent)
      /\ Len(statuses) \in Nat /\ Len(sent) \in Nat
  BY LenProperties DEF Types, TypeOK
<1>1. CASE SendStatus
  <2>1. PICK s \in Statuses : statuses' = Append(statuses, s) /\ sent' = Append(sent, s)
    BY <1>1 DEF SendStatus
  <2>2. /\ statuses' \in Seq(Statuses) /\ Len(statuses') = Len(statuses) + 1
        /\ sent' \in Seq(Statuses) /\ Len(sent') = Len(sent) + 1
    BY <1>0, <2>1, AppendProperties
  <2>3. Len(sent) < MaxStatuses /\ Len(statuses) < StatusCapacity
        /\ UNCHANGED <<vertexes, logs, todo, pc, ctx, events, taken>>
    BY <1>1 DEF SendStatus, handler
  <2>4. Len(sent') <= MaxStatuses /\ Len(statuses') <= StatusCapacity /\ taken' <= Len(sent')
        /\ taken' + Len(statuses') = Len(sent')
    <3>1. taken' = taken /\ MaxStatuses \in Nat /\ StatusCapacity \in Nat
      BY <2>3, BoundAssumption
    <3> QED BY <1>0, <2>2, <2>3, <3>1
  <2> QED BY <2>2, <2>3, <2>4 DEF Types, TypeOK
<1>2. CASE CancelContext
  BY <1>2 DEF CancelContext, Types, TypeOK, handler
<1>3. CASE TakeStatus
  <2>1. /\ statuses # <<>> /\ todo' = Work(Head(statuses)) /\ statuses' = Tail(statuses)
        /\ taken' = taken + 1 /\ pc' = "working"
        /\ UNCHANGED <<vertexes, logs, ctx, events, sent>>
    BY <1>3 DEF TakeStatus
  <2>2. /\ Head(statuses) \in Statuses /\ statuses' \in Seq(Statuses)
        /\ Len(statuses') = Len(statuses) - 1
    BY <1>0, <2>1, HeadTailProperties
  <2>3. todo' \in Seq(Told)
    BY <2>1, <2>2, WorkType
  <2>4. todo' \in Seq(Items)
    BY <2>3, SeqMonotonic DEF Items
  <2>5. \A i \in 1 .. Len(todo') : todo'[i].does # "send"
    BY <2>3, ElementOfSeq DEF Told
  <2>6. taken' \in Nat /\ taken' + Len(statuses') = Len(sent') /\ taken' <= Len(sent')
        /\ Len(statuses') <= StatusCapacity
    <3>1. Len(statuses') \in Nat
      BY <2>2, LenProperties
    <3> QED BY <1>0, <2>1, <2>2, <3>1, BoundAssumption DEF Types, TypeOK
  <2> QED BY <2>1, <2>2, <2>4, <2>5, <2>6 DEF Types, TypeOK
<1>4. CASE ProcessVertex
  <2>1. PICK v \in Vertices, new \in Held :
          /\ vertexes' = [vertexes EXCEPT ![v] = new]
          /\ ThenSend(EventsOf(v, vertexes[v], new))
          /\ new.completed => new.started
    BY <1>4, ProcessVertexFacts
  <2>2. vertexes \in [Vertices -> Held]
    BY DEF Types, TypeOK, Held
  <2>3. /\ vertexes' \in [Vertices -> Held]
        /\ \A w \in Vertices : vertexes'[w].completed => vertexes'[w].started
    BY <2>1, <2>2 DEF Types
  <2>4. EventsOf(v, vertexes[v], new) \in Seq(Events)
    BY <2>2, EventsOfFacts
  <2>5. /\ todo # <<>> /\ Head(todo).does # "send" /\ pc = "working"
        /\ UNCHANGED <<logs, pc, ctx, statuses, events, sent, taken>>
    BY <1>4 DEF ProcessVertex, Doing
  <2>6. logs' \in [Vertices -> Nat]
    BY <2>5 DEF Types, TypeOK
  <2> QED BY <2>1, <2>3, <2>4, <2>5, <2>6, WorkTypes
<1>5. CASE ProcessStatusUpdate \/ ProcessLog
  <2>1. Running(Head(todo).vertex) \in Seq(Events)
    BY <1>5, QuietItemFacts, RunningFacts
  <2>2. /\ vertexes' \in [Vertices -> Held]
        /\ \A v \in Vertices : vertexes'[v].completed => vertexes'[v].started
    BY <1>5, QuietItemFacts DEF Types, TypeOK, Held
  <2> QED BY <1>5, <2>1, <2>2, QuietItemFacts, WorkTypes
<1>6. CASE SendProgress
  <2>1. /\ Len(todo) \in Nat \ {0} /\ todo' \in Seq(Items) /\ Len(todo') = Len(todo) - 1
        /\ \A i \in 1 .. Len(todo') : todo'[i] = todo[i + 1]
        /\ events' \in Seq(Events) /\ Len(events') <= EventCapacity /\ pc = "working"
    BY <1>6, SendFacts
  <2>2. \A i, j \in 1 .. Len(todo') : i < j /\ todo'[j].does = "send" => todo'[i].does = "send"
    <3> SUFFICES ASSUME NEW i \in 1 .. Len(todo'), NEW j \in 1 .. Len(todo'), i < j,
                        todo'[j].does = "send"
                 PROVE  todo'[i].does = "send"
      OBVIOUS
    <3>1. /\ i + 1 \in 1 .. Len(todo) /\ j + 1 \in 1 .. Len(todo) /\ i + 1 < j + 1
          /\ todo'[i] = todo[i + 1] /\ todo'[j] = todo[j + 1]
      BY <2>1
    <3> QED BY <3>1 DEF Types
  <2>3. UNCHANGED <<vertexes, logs, pc, ctx, statuses, sent, taken>>
    BY <1>6 DEF SendProgress
  <2> QED BY <2>1, <2>2, <2>3 DEF Types, TypeOK
<1>7. CASE FinishStatus \/ HandlerReturns
  BY <1>7 DEF FinishStatus, HandlerReturns, handler, Types, TypeOK
<1>8. CASE GetBuildStats
  BY <1>8 DEF GetBuildStats, handler, Types, TypeOK
<1>9. CASE ReceiveEvent
  <2>1. /\ events # <<>> /\ events' = Tail(events)
        /\ UNCHANGED <<vertexes, logs, todo, pc, ctx, statuses, sent, taken>>
    BY <1>9 DEF ReceiveEvent, handler
  <2>2. events' \in Seq(Events) /\ Len(events') = Len(events) - 1
    BY <1>0, <2>1, HeadTailProperties
  <2>3. Len(events) \in Nat
    BY <1>0, LenProperties
  <2>4. Len(events') <= EventCapacity
    BY <2>2, <2>3, BoundAssumption DEF Types, TypeOK
  <2> QED BY <2>1, <2>2, <2>4 DEF Types, TypeOK
<1>10. CASE UNCHANGED vars
  BY <1>10 DEF vars, handler, Types, TypeOK
<1> QED BY <1>1, <1>2, <1>3, <1>4, <1>5, <1>6, <1>7, <1>8, <1>9, <1>10 DEF Next, Handle

-----------------------------------------------------------------------------
(* The places of the events on their way. *)
LEMMA PendingFacts ==
  ASSUME NEW ev \in Seq(Events), NEW td \in Seq(Items)
  PROVE  /\ Len(ev) \in Nat /\ Len(td) \in Nat
         /\ DOMAIN PendingOf(ev, td) = 1 .. Len(ev) + Len(td)
         /\ \A i \in 1 .. Len(ev) : PendingOf(ev, td)[i] = ev[i] /\ ev[i] \in Events
         /\ \A i \in 1 .. Len(td) :
              IF td[i].does = "send"
                THEN PendingOf(ev, td)[Len(ev) + i] = td[i].event /\ td[i].event \in Events
                ELSE ~Loud(PendingOf(ev, td)[Len(ev) + i])
<1>1. Len(ev) \in Nat /\ Len(td) \in Nat
  BY LenProperties
<1>2. DOMAIN PendingOf(ev, td) = 1 .. Len(ev) + Len(td)
  BY DEF PendingOf
<1>3. \A i \in 1 .. Len(ev) : PendingOf(ev, td)[i] = ev[i] /\ ev[i] \in Events
  BY <1>1, ElementOfSeq DEF PendingOf
<1>4. ASSUME NEW i \in 1 .. Len(td)
      PROVE  IF td[i].does = "send"
               THEN PendingOf(ev, td)[Len(ev) + i] = td[i].event /\ td[i].event \in Events
               ELSE ~Loud(PendingOf(ev, td)[Len(ev) + i])
  <2>1. td[i] \in Items
    BY ElementOfSeq
  <2>2. PendingOf(ev, td)[Len(ev) + i] = IF td[i].does = "send" THEN td[i].event ELSE Silent
    <3>1. /\ Len(ev) + i \in 1 .. Len(ev) + Len(td) /\ ~(Len(ev) + i <= Len(ev))
          /\ (Len(ev) + i) - Len(ev) = i
      BY <1>1
    <3> QED BY <3>1 DEF PendingOf
  <2>3. CASE td[i].does = "send"
    BY <2>1, <2>2, <2>3, ToldIsNotSend DEF Sends
  <2>4. CASE td[i].does # "send"
    BY <2>2, <2>4 DEF Silent, Loud
  <2> QED BY <2>3, <2>4
<1> QED BY <1>1, <1>2, <1>3, <1>4

(* Events may be dropped and silent places change. *)
LEMMA Fewer ==
  ASSUME NEW q, NEW r, NEW vs, NEW sh, InOrder(q, vs, sh), NEW m,
         \A i \in DOMAIN r : Loud(r[i]) => m[i] \in DOMAIN q /\ q[m[i]] = r[i],
         \A i, j \in DOMAIN r : i < j => m[i] < m[j]
  PROVE  InOrder(r, vs, sh)
<1>1. Ordered(r)
  <2> SUFFICES ASSUME NEW i \in DOMAIN r, NEW j \in DOMAIN r, i < j, Loud(r[i]), Loud(r[j]),
                      r[i].vertex = r[j].vertex
               PROVE  Opens(r[i]) /\ Closes(r[j])
    BY DEF Ordered
  <2>1. /\ m[i] \in DOMAIN q /\ q[m[i]] = r[i] /\ m[j] \in DOMAIN q /\ q[m[j]] = r[j]
        /\ m[i] < m[j]
    OBVIOUS
  <2> QED BY <2>1 DEF InOrder, Ordered
<1>2. \A i \in DOMAIN r : Loud(r[i]) => Follows(r[i], vs, sh)
  <2> SUFFICES ASSUME NEW i \in DOMAIN r, Loud(r[i]) PROVE Follows(r[i], vs, sh)
    OBVIOUS
  <2>1. m[i] \in DOMAIN q /\ q[m[i]] = r[i]
    OBVIOUS
  <2> QED BY <2>1 DEF InOrder
<1> QED BY <1>1, <1>2 DEF InOrder

(* The events an item makes come after those in the channel, and nothing    *)
(* loud comes after them.                                                   *)
LEMMA PendingAfterItem ==
  ASSUME Types, todo # <<>>, Head(todo).does # "send", NEW es \in Seq(Events), ThenSend(es),
         events' = events, NEW i \in DOMAIN PendingOf(events', todo'),
         Loud(PendingOf(events', todo')[i])
  PROVE  \/ /\ i \in 1 .. Len(events) /\ i \in DOMAIN Pending
            /\ PendingOf(events', todo')[i] = Pending[i]
         \/ /\ i > Len(events) /\ i - Len(events) \in 1 .. Len(es)
            /\ PendingOf(events', todo')[i] = es[i - Len(events)]
<1>1. /\ todo' \in Seq(Items)
      /\ \A k \in 1 .. Len(todo') : todo'[k].does = "send" <=> k <= Len(es)
      /\ \A k \in 1 .. Len(es) : todo'[k].event = es[k]
  BY ThenSendFacts
<1>2. /\ events \in Seq(Events) /\ todo \in Seq(Items) /\ events' \in Seq(Events)
      /\ Len(es) \in Nat
  BY LenProperties DEF Types
<1>3. i \in 1 .. Len(events) + Len(todo')
  BY <1>1, <1>2, PendingFacts
<1>4. CASE i <= Len(events)
  <2>1. /\ i \in 1 .. Len(events) /\ Len(events) \in Nat /\ Len(todo) \in Nat
        /\ DOMAIN Pending = 1 .. Len(events) + Len(todo)
    BY <1>2, <1>3, <1>4, PendingFacts DEF Pending
  <2>2. PendingOf(events', todo')[i] = events[i] /\ Pending[i] = events[i]
    BY <1>1, <1>2, <2>1, PendingFacts DEF Pending
  <2> QED BY <2>1, <2>2
<1>5. CASE i > Len(events)
  <2> DEFINE k == i - Len(events)
  <2>1. k \in 1 .. Len(todo') /\ i = Len(events) + k
    BY <1>2, <1>3, <1>5, LenProperties
  <2> HIDE DEF k
  <2>2. /\ todo'[k].does = "send" /\ PendingOf(events', todo')[i] = todo'[k].event
    BY <1>1, <1>2, <2>1, PendingFacts
  <2>3. k \in 1 .. Len(es)
    BY <1>1, <1>2, <2>1, <2>2
  <2> QED BY <1>1, <1>5, <2>2, <2>3 DEF k
<1> QED BY <1>3, <1>4, <1>5, <1>2, LenProperties

(* An update or a log: its event is silent. *)
LEMMA QuietItemOrder ==
  ASSUME Inv, ProcessStatusUpdate \/ ProcessLog
  PROVE  InOrder(Pending, vertexes, shown)'
<1> DEFINE es == Running(Head(todo).vertex)
           r  == PendingOf(events', todo')
<1>1. /\ todo # <<>> /\ Head(todo).does # "send" /\ ThenSend(es)
      /\ vertexes' = vertexes /\ shown' = shown /\ events' = events
      /\ es \in Seq(Events) /\ \A k \in 1 .. Len(es) : ~Loud(es[k])
  BY QuietItemFacts, RunningFacts DEF Inv
<1> HIDE DEF es
<1>2. \A i \in DOMAIN r : Loud(r[i]) => i \in DOMAIN Pending /\ Pending[i] = r[i]
  BY <1>1, PendingAfterItem DEF Inv
<1> DEFINE m == [i \in DOMAIN r |-> i]
<1>3. /\ \A i \in DOMAIN r : Loud(r[i]) => m[i] \in DOMAIN Pending /\ Pending[m[i]] = r[i]
      /\ \A i, j \in DOMAIN r : i < j => m[i] < m[j]
  BY <1>2
<1> HIDE DEF r, m
<1>4. InOrder(r, vertexes, shown)
  BY <1>3, Fewer DEF Inv
<1> QED BY <1>1, <1>4 DEF r, Pending

(* A snapshot: an event of a vertex is sent only for what was not noted     *)
(* before, so none of its kind was shown or is on its way.                  *)
LEMMA ProcessVertexOrder ==
  ASSUME Inv, ProcessVertex
  PROVE  InOrder(Pending, vertexes, shown)'
<1>1. PICK v \in Vertices, new \in Held :
         /\ vertexes' = [vertexes EXCEPT ![v] = new]
         /\ ThenSend(EventsOf(v, vertexes[v], new))
         /\ vertexes[v].started => new.started
         /\ vertexes[v].completed => new.completed
         /\ new.completed => new.started
  BY ProcessVertexFacts DEF Inv
<1> DEFINE es == EventsOf(v, vertexes[v], new)
           r  == PendingOf(events', todo')
<1>2. vertexes \in [Vertices -> Held] /\ shown \in [Vertices -> Stories]
  BY DEF Inv, Types, TypeOK, Held
<1>3. /\ es \in Seq(Events) /\ Ordered(es)
      /\ \A k \in 1 .. Len(es) :
           /\ es[k].vertex = v
           /\ \/ Opens(es[k]) /\ new.started /\ ~vertexes[v].started
              \/ Closes(es[k]) /\ new.completed /\ ~vertexes[v].completed
  BY <1>2, EventsOfFacts
<1>4. ThenSend(es) /\ todo # <<>> /\ Head(todo).does # "send" /\ UNCHANGED <<events, shown>>
  BY <1>1 DEF ProcessVertex, Doing
<1> HIDE DEF es
<1>5. \A i \in DOMAIN r : Loud(r[i]) =>
        \/ i \in 1 .. Len(events) /\ i \in DOMAIN Pending /\ r[i] = Pending[i]
        \/ /\ i > Len(events) /\ i - Len(events) \in 1 .. Len(es)
           /\ r[i] = es[i - Len(events)]
  BY <1>3, <1>4, PendingAfterItem DEF Inv
<1>6. /\ Len(events) \in Nat /\ Len(es) \in Nat /\ DOMAIN es = 1 .. Len(es)
      /\ DOMAIN r \subseteq Nat
  <2>1. events' \in Seq(Events) /\ todo' \in Seq(Items)
    BY <1>3, <1>4, ThenSendFacts DEF Inv, Types
  <2>2. DOMAIN r = 1 .. Len(events') + Len(todo') /\ Len(events') \in Nat /\ Len(todo') \in Nat
    BY <2>1, PendingFacts
  <2> QED BY <1>3, <1>4, <2>2, LenProperties
<1> HIDE DEF r
<1>7. \A w \in Vertices : /\ vertexes[w].started => vertexes'[w].started
                          /\ vertexes[w].completed => vertexes'[w].completed
                          /\ vertexes'[w].completed => vertexes'[w].started
  BY <1>1, <1>2 DEF Inv, Types
<1>8. InOrder(Pending, vertexes, shown)
  BY DEF Inv
<1>9. \A i \in DOMAIN Pending : Loud(Pending[i]) => Follows(Pending[i], vertexes, shown)
  BY <1>8 DEF InOrder
<1>a. \A i \in DOMAIN Pending : Loud(Pending[i]) => Pending[i] \in Events
  <2> SUFFICES ASSUME NEW i \in DOMAIN Pending, Loud(Pending[i]) PROVE Pending[i] \in Events
    OBVIOUS
  <2>1. events \in Seq(Events) /\ todo \in Seq(Items)
    BY DEF Inv, Types
  <2>2. i \in 1 .. Len(events) + Len(todo) /\ Len(todo) \in Nat
    BY <2>1, PendingFacts DEF Pending
  <2>3. CASE i <= Len(events)
    BY <1>6, <2>1, <2>2, <2>3, PendingFacts DEF Pending
  <2>4. CASE i > Len(events)
    <3> DEFINE k == i - Len(events)
    <3>1. k \in 1 .. Len(todo) /\ i = Len(events) + k
      BY <1>6, <2>2, <2>4
    <3> HIDE DEF k
    <3> QED BY <2>1, <3>1, PendingFacts DEF Pending
  <2> QED BY <1>6, <2>2, <2>3, <2>4
<1>b. Ordered(r)
  <2> SUFFICES ASSUME NEW i \in DOMAIN r, NEW j \in DOMAIN r, i < j, Loud(r[i]), Loud(r[j]),
                      r[i].vertex = r[j].vertex
               PROVE  Opens(r[i]) /\ Closes(r[j])
    BY DEF Ordered
  <2>1. CASE j \in 1 .. Len(events)
    <3>1. /\ i \in DOMAIN Pending /\ j \in DOMAIN Pending /\ r[i] = Pending[i] /\ r[j] = Pending[j]
      BY <1>5, <1>6, <2>1
    <3> QED BY <1>8, <3>1 DEF InOrder, Ordered
  <2>2. CASE i \in 1 .. Len(events) /\ j > Len(events)
    <3>1. /\ i \in DOMAIN Pending /\ r[i] = Pending[i] /\ Loud(Pending[i])
          /\ j - Len(events) \in 1 .. Len(es) /\ r[j] = es[j - Len(events)]
      BY <1>5, <1>6, <2>2
    <3>2. r[i].vertex = v /\ Follows(r[i], vertexes, shown) /\ r[i] \in Events
      BY <1>3, <1>9, <1>a, <3>1
    <3>3. Opens(r[i]) \/ Closes(r[i])
      BY <3>1, <3>2 DEF Opens, Closes, Loud, Events
    <3>4. vertexes[v].started /\ (Closes(r[i]) => vertexes[v].completed)
      BY <3>2 DEF Follows
    <3> QED BY <1>3, <3>1, <3>3, <3>4
  <2>3. CASE i > Len(events)
    <3>1. /\ i - Len(events) \in 1 .. Len(es) /\ r[i] = es[i - Len(events)]
          /\ j - Len(events) \in 1 .. Len(es) /\ r[j] = es[j - Len(events)]
          /\ i - Len(events) < j - Len(events)
      BY <1>5, <1>6, <2>3
    <3> QED BY <1>3, <1>6, <3>1 DEF Ordered
  <2> QED BY <1>5, <1>6, <2>1, <2>2, <2>3
<1>c. \A i \in DOMAIN r : Loud(r[i]) => Follows(r[i], vertexes', shown)
  <2> SUFFICES ASSUME NEW i \in DOMAIN r, Loud(r[i]) PROVE Follows(r[i], vertexes', shown)
    OBVIOUS
  <2>1. CASE i \in DOMAIN Pending /\ r[i] = Pending[i]
    <3>1. Follows(r[i], vertexes, shown) /\ r[i].vertex \in Vertices
      BY <1>9, <1>a, <2>1 DEF Events
    <3> QED BY <1>7, <3>1 DEF Follows
  <2>2. CASE i - Len(events) \in 1 .. Len(es) /\ r[i] = es[i - Len(events)]
    <3>1. /\ r[i].vertex = v
          /\ \/ Opens(r[i]) /\ new.started /\ ~vertexes[v].started
             \/ Closes(r[i]) /\ new.completed /\ ~vertexes[v].completed
      BY <1>3, <2>2
    <3>2. vertexes'[v] = new
      BY <1>1, <1>2
    <3>3. /\ shown[v] # <<>> => vertexes[v].started
          /\ shown[v] \notin {<<>>, <<"started">>} => vertexes[v].completed
      BY <1>8 DEF InOrder
    <3>4. vertexes[v].completed => vertexes[v].started
      BY DEF Inv, Types
    <3>5. CASE Opens(r[i]) /\ new.started /\ ~vertexes[v].started
      <4>1. ~Closes(r[i])
        BY <3>5 DEF Opens, Closes
      <4> QED BY <3>1, <3>2, <3>3, <3>5, <4>1 DEF Follows
    <3>6. CASE Closes(r[i]) /\ new.completed /\ ~vertexes[v].completed
      BY <1>1, <3>1, <3>2, <3>3, <3>6 DEF Follows
    <3> QED BY <3>1, <3>5, <3>6
  <2> QED BY <1>5, <2>1, <2>2
<1>d. InOrder(r, vertexes', shown)
  BY <1>7, <1>8, <1>b, <1>c DEF InOrder
<1> QED BY <1>4, <1>d DEF r, Pending

(* The handler takes a status when nothing is left to do; the status is     *)
(* silent.                                                                  *)
LEMMA TakeStatusOrder ==
  ASSUME Inv, TakeStatus
  PROVE  InOrder(Pending, vertexes, shown)'
<1> DEFINE r == PendingOf(events', todo')
<1>0. statuses \in Seq(Statuses) /\ statuses # <<>> /\ todo' = Work(Head(statuses))
      /\ vertexes' = vertexes /\ shown' = shown /\ events' = events /\ events \in Seq(Events)
      /\ todo \in Seq(Items)
  BY DEF TakeStatus, Inv, Types, TypeOK
<1>1. todo' \in Seq(Told)
  BY <1>0, HeadTailProperties, WorkType
<1>2. todo' \in Seq(Items) /\ \A k \in 1 .. Len(todo') : todo'[k].does # "send"
  BY <1>1, SeqMonotonic, ElementOfSeq DEF Items, Told
<1>3. ASSUME NEW i \in DOMAIN r, Loud(r[i])
      PROVE  i \in DOMAIN Pending /\ Pending[i] = r[i]
  <2>1. /\ i \in 1 .. Len(events) + Len(todo') /\ Len(events) \in Nat /\ Len(todo) \in Nat
        /\ Len(todo') \in Nat
        /\ DOMAIN Pending = 1 .. Len(events) + Len(todo)
    BY <1>0, <1>2, PendingFacts DEF Pending
  <2>2. CASE i <= Len(events)
    <3>1. i \in 1 .. Len(events)
      BY <2>1, <2>2
    <3>2. r[i] = events[i] /\ Pending[i] = events[i]
      BY <1>0, <1>2, <3>1, PendingFacts DEF Pending
    <3> QED BY <2>1, <3>1, <3>2
  <2>3. CASE i > Len(events)
    <3> DEFINE k == i - Len(events)
    <3>1. k \in 1 .. Len(todo') /\ i = Len(events) + k
      BY <2>1, <2>3
    <3> HIDE DEF k
    <3>2. ~Loud(r[i])
      BY <1>0, <1>2, <3>1, PendingFacts
    <3> QED BY <1>3, <3>2
  <2> QED BY <2>1, <2>2, <2>3
<1> DEFINE m == [i \in DOMAIN r |-> i]
<1>4. /\ \A i \in DOMAIN r : Loud(r[i]) => m[i] \in DOMAIN Pending /\ Pending[m[i]] = r[i]
      /\ \A i, j \in DOMAIN r : i < j => m[i] < m[j]
  BY <1>3
<1> HIDE DEF r, m
<1>5. InOrder(r, vertexes, shown)
  BY <1>4, Fewer DEF Inv
<1> QED BY <1>0, <1>5 DEF r, Pending

(* An event that is sent keeps its place, one that is dropped leaves it.    *)
LEMMA SendOrder ==
  ASSUME Inv, SendProgress
  PROVE  InOrder(Pending, vertexes, shown)'
<1> DEFINE r == PendingOf(events', todo')
<1>0. /\ events \in Seq(Events) /\ todo \in Seq(Items) /\ Len(events) \in Nat
      /\ vertexes' = vertexes /\ shown' = shown
  BY LenProperties DEF SendProgress, Inv, Types
<1>1. /\ todo[1].does = "send" /\ todo[1].event \in Events
      /\ Len(todo) \in Nat \ {0} /\ todo' \in Seq(Items) /\ Len(todo') = Len(todo) - 1
      /\ \A i \in 1 .. Len(todo') : todo'[i] = todo[i + 1]
      /\ events' \in Seq(Events)
      /\ \/ events' = events
         \/ /\ Len(events') = Len(events) + 1 /\ events'[Len(events) + 1] = todo[1].event
            /\ \A i \in 1 .. Len(events) : events'[i] = events[i]
  BY SendFacts DEF Inv
<1>2. DOMAIN Pending = 1 .. Len(events) + Len(todo)
  BY <1>0, PendingFacts DEF Pending
<1>3. DOMAIN r = 1 .. Len(events') + Len(todo')
  BY <1>1, PendingFacts
<1>4. ASSUME NEW k \in 1 .. Len(todo'), Loud(r[Len(events') + k])
      PROVE  /\ Len(events) + k + 1 \in DOMAIN Pending
             /\ Pending[Len(events) + k + 1] = r[Len(events') + k]
  <2>1. k + 1 \in 1 .. Len(todo) /\ todo'[k] = todo[k + 1]
    BY <1>1
  <2>2. todo'[k].does = "send" /\ r[Len(events') + k] = todo'[k].event
    BY <1>1, <1>4, PendingFacts
  <2>3. Pending[Len(events) + (k + 1)] = todo[k + 1].event
    BY <1>0, <2>1, <2>2, PendingFacts DEF Pending
  <2>4. /\ Len(events) + (k + 1) = Len(events) + k + 1
        /\ Len(events) + k + 1 \in 1 .. Len(events) + Len(todo)
    BY <1>0, <1>1, <2>1
  <2>5. Pending[Len(events) + k + 1] = r[Len(events') + k]
    BY <1>1, <2>1, <2>2, <2>3, <2>4
  <2> QED BY <1>2, <2>4, <2>5
<1>5. CASE events' = events
  <2> DEFINE m == [i \in DOMAIN r |-> IF i <= Len(events) THEN i ELSE i + 1]
  <2>1. ASSUME NEW i \in DOMAIN r, Loud(r[i]) PROVE m[i] \in DOMAIN Pending /\ Pending[m[i]] = r[i]
    <3>1. CASE i <= Len(events)
      <4>1. i \in 1 .. Len(events)
        BY <1>0, <1>3, <3>1
      <4>2. r[i] = events[i] /\ Pending[i] = events[i]
        BY <1>0, <1>1, <1>5, <4>1, PendingFacts DEF Pending
      <4> QED BY <1>0, <1>1, <1>2, <3>1, <4>1, <4>2
    <3>2. CASE i > Len(events)
      <4> DEFINE k == i - Len(events)
      <4>1. k \in 1 .. Len(todo') /\ i = Len(events') + k /\ m[i] = Len(events) + k + 1
        BY <1>0, <1>1, <1>3, <1>5, <3>2
      <4> HIDE DEF k, m
      <4> QED BY <1>4, <2>1, <4>1
    <3> QED BY <1>0, <1>3, <3>1, <3>2
  <2>2. \A i, j \in DOMAIN r : i < j => m[i] < m[j]
    BY <1>0, <1>1, <1>3, <1>5
  <2> HIDE DEF r, m
  <2>3. InOrder(r, vertexes, shown)
    BY <2>1, <2>2, Fewer DEF Inv
  <2> QED BY <1>0, <2>3 DEF r, Pending
<1>6. CASE /\ Len(events') = Len(events) + 1 /\ events'[Len(events) + 1] = todo[1].event
           /\ \A i \in 1 .. Len(events) : events'[i] = events[i]
  <2> DEFINE m == [i \in DOMAIN r |-> i]
  <2>1. ASSUME NEW i \in DOMAIN r, Loud(r[i]) PROVE m[i] \in DOMAIN Pending /\ Pending[m[i]] = r[i]
    <3>1. CASE i <= Len(events)
      <4>1. i \in 1 .. Len(events) /\ i \in 1 .. Len(events')
        BY <1>0, <1>3, <1>6, <3>1
      <4>2. r[i] = events[i] /\ Pending[i] = events[i]
        BY <1>0, <1>1, <1>6, <4>1, PendingFacts DEF Pending
      <4> QED BY <1>0, <1>1, <1>2, <4>1, <4>2
    <3>2. CASE i = Len(events) + 1
      <4>1. i \in 1 .. Len(events') /\ 1 \in 1 .. Len(todo)
        BY <1>0, <1>1, <1>6, <3>2
      <4>2. r[i] = todo[1].event
        BY <1>1, <1>6, <3>2, <4>1, PendingFacts
      <4>3. Pending[Len(events) + 1] = todo[1].event
        BY <1>0, <1>1, <4>1, PendingFacts DEF Pending
      <4>4. i \in DOMAIN Pending
        BY <1>0, <1>1, <1>2, <3>2
      <4> QED BY <3>2, <4>2, <4>3, <4>4
    <3>3. CASE i > Len(events) + 1
      <4> DEFINE k == i - Len(events')
      <4>1. k \in 1 .. Len(todo') /\ i = Len(events') + k /\ i = Len(events) + k + 1
        BY <1>0, <1>1, <1>3, <1>6, <3>3
      <4>2. m[i] = i
        OBVIOUS
      <4> HIDE DEF k, m
      <4> QED BY <1>4, <2>1, <4>1, <4>2
    <3> QED BY <1>0, <1>1, <1>3, <1>6, <3>1, <3>2, <3>3
  <2>2. \A i, j \in DOMAIN r : i < j => m[i] < m[j]
    OBVIOUS
  <2> HIDE DEF r, m
  <2>3. InOrder(r, vertexes, shown)
    BY <2>1, <2>2, Fewer DEF Inv
  <2> QED BY <1>0, <2>3 DEF r, Pending
<1> QED BY <1>1, <1>5, <1>6

LEMMA AppendToShort ==
  ASSUME NEW a, NEW b
  PROVE  Append(<<>>, b) = <<b>> /\ Append(<<a>>, b) = <<a, b>>
<1> DEFINE S == {a, b}
<1>1. Append(<<>>, b) = <<b>>
  <2>1. <<>> \in Seq(S) /\ <<b>> \in Seq(S) /\ b \in S
    OBVIOUS
  <2>2. Append(<<>>, b) = <<>> \o <<b>>
    BY <2>1, AppendIsConcat
  <2> QED BY <2>1, <2>2, ConcatEmptySeq
<1>2. Append(<<a>>, b) = <<a, b>>
  <2>1. <<a>> \in Seq(S) /\ <<a, b>> \in Seq(S) /\ b \in S /\ Len(<<a>>) = 1 /\ Len(<<a, b>>) = 2
    OBVIOUS
  <2>2. /\ Append(<<a>>, b) \in Seq(S) /\ Len(Append(<<a>>, b)) = 2
        /\ Append(<<a>>, b)[1] = a /\ Append(<<a>>, b)[2] = b
    <3>1. /\ Append(<<a>>, b) \in Seq(S) /\ Len(Append(<<a>>, b)) = Len(<<a>>) + 1
          /\ \A i \in 1 .. Len(<<a>>) : Append(<<a>>, b)[i] = <<a>>[i]
          /\ Append(<<a>>, b)[Len(<<a>>) + 1] = b
      BY <2>1, AppendProperties
    <3> QED BY <2>1, <3>1
  <2>3. \A i \in 1 .. Len(Append(<<a>>, b)) : Append(<<a>>, b)[i] = <<a, b>>[i]
    BY <2>2
  <2>4. Len(Append(<<a>>, b)) = Len(<<a, b>>)
    BY <2>1, <2>2
  <2> HIDE DEF S
  <2> QED BY <2>1, <2>2, <2>3, <2>4, SeqEqual
<1> QED BY <1>1, <1>2

(* The interface receives an event, which continues what it was shown.      *)
LEMMA ReceiveFacts ==
  ASSUME Inv, ReceiveEvent
  PROVE  /\ shown' \in [Vertices -> Stories]
         /\ InOrder(Pending, vertexes, shown)'
<1> DEFINE r == PendingOf(events', todo')
           e == events[1]
           v == e.vertex
<1>0. /\ events \in Seq(Events) /\ events # <<>> /\ todo \in Seq(Items)
      /\ shown \in [Vertices -> Stories] /\ InOrder(Pending, vertexes, shown)
      /\ events' = Tail(events) /\ vertexes' = vertexes /\ todo' = todo
  BY DEF ReceiveEvent, handler, Inv, Types
<1>1. /\ Len(events) \in Nat \ {0} /\ Head(events) = e /\ e \in Events
      /\ events' \in Seq(Events) /\ Len(events') = Len(events) - 1
      /\ \A i \in 1 .. Len(events') : events'[i] = events[i + 1]
  BY <1>0, HeadTailProperties, EmptySeq
<1>2. /\ DOMAIN Pending = 1 .. Len(events) + Len(todo) /\ Len(todo) \in Nat
      /\ DOMAIN r = 1 .. Len(events') + Len(todo)
      /\ Pending[1] = e
  <2>1. DOMAIN Pending = 1 .. Len(events) + Len(todo) /\ Len(todo) \in Nat
    BY <1>0, PendingFacts DEF Pending
  <2>2. DOMAIN r = 1 .. Len(events') + Len(todo)
    BY <1>0, <1>1, PendingFacts
  <2>3. 1 \in 1 .. Len(events)
    BY <1>1
  <2>4. Pending[1] = e
    BY <1>0, <2>3, PendingFacts DEF Pending
  <2> QED BY <2>1, <2>2, <2>4
<1>3. shown' = IF e.kind = "running" THEN shown
               ELSE [shown EXCEPT ![v] = Append(@, e.kind)]
  BY <1>1 DEF ReceiveEvent
<1>4. v \in Vertices /\ e.kind \in {"started", "completed", "error", "running"}
  BY <1>1 DEF Events
<1> HIDE DEF e, v
<1>5. ASSUME NEW i \in DOMAIN r, Loud(r[i])
      PROVE  i + 1 \in DOMAIN Pending /\ Pending[i + 1] = r[i]
  <2>1. CASE i <= Len(events')
    <3>1. i \in 1 .. Len(events') /\ i + 1 \in 1 .. Len(events)
      BY <1>1, <1>2, <2>1
    <3>2. r[i] = events[i + 1] /\ Pending[i + 1] = events[i + 1]
      BY <1>0, <1>1, <3>1, PendingFacts DEF Pending
    <3> QED BY <1>1, <1>2, <3>1, <3>2
  <2>2. CASE i > Len(events')
    <3> DEFINE k == i - Len(events')
    <3>1. k \in 1 .. Len(todo) /\ i = Len(events') + k /\ i + 1 = Len(events) + k
      BY <1>1, <1>2, <2>2
    <3> HIDE DEF k
    <3>2. todo[k].does = "send" /\ r[i] = todo[k].event
      BY <1>0, <1>1, <1>5, <3>1, PendingFacts
    <3>3. Pending[i + 1] = todo[k].event
      BY <1>0, <3>1, <3>2, PendingFacts DEF Pending
    <3> QED BY <1>1, <1>2, <3>1, <3>2, <3>3
  <2> QED BY <1>1, <1>2, <2>1, <2>2
<1> DEFINE m == [i \in DOMAIN r |-> i + 1]
<1>6. InOrder(r, vertexes, shown)
  <2>1. /\ \A i \in DOMAIN r : Loud(r[i]) => m[i] \in DOMAIN Pending /\ Pending[m[i]] = r[i]
        /\ \A i, j \in DOMAIN r : i < j => m[i] < m[j]
    BY <1>1, <1>2, <1>5
  <2> HIDE DEF r, m
  <2> QED BY <1>0, <2>1, Fewer
<1> HIDE DEF r
<1>7. CASE e.kind = "running"
  <2>1. shown' = shown
    BY <1>3, <1>7
  <2> QED BY <1>0, <1>6, <2>1 DEF r, Pending
<1>8. CASE e.kind # "running"
  <2>1. shown' = [shown EXCEPT ![v] = Append(shown[v], e.kind)]
    BY <1>3, <1>8
  <2>2. Loud(e) /\ 1 \in DOMAIN Pending
    BY <1>1, <1>2, <1>8 DEF Loud
  <2>3. Follows(e, vertexes, shown)
    BY <1>0, <1>2, <2>2 DEF InOrder
  <2>4. /\ shown[v] = <<>> \/ (shown[v] = <<"started">> /\ e.kind \in {"completed", "error"})
        /\ vertexes[v].started
        /\ e.kind \in {"completed", "error"} => vertexes[v].completed
    BY <2>3 DEF Follows, Closes, v
  <2>5. shown'[v] \in {<<e.kind>>, <<"started", e.kind>>}
        /\ (e.kind = "started" => shown'[v] = <<"started">>)
    <3>1. shown'[v] = Append(shown[v], e.kind)
      BY <1>0, <1>4, <2>1
    <3>2. Append(<<>>, e.kind) = <<e.kind>> /\ Append(<<"started">>, e.kind) = <<"started", e.kind>>
      BY AppendToShort
    <3>3. e.kind = "started" => shown[v] = <<>>
      BY <2>4
    <3> QED BY <2>4, <3>1, <3>2, <3>3
  <2>6. shown'[v] \in Stories
    <3>1. e.kind = "started" => shown'[v] = <<"started">>
      BY <2>5
    <3>2. e.kind \in {"completed", "error"} \/ e.kind = "started"
      BY <1>4, <1>8
    <3> QED BY <2>5, <3>1, <3>2 DEF Stories
  <2>7. shown' \in [Vertices -> Stories]
    BY <1>0, <1>4, <2>1, <2>6
  <2>8. \A w \in Vertices : w # v => shown'[w] = shown[w]
    BY <1>0, <2>1
  <2>9. \A w \in Vertices : /\ shown'[w] # <<>> => vertexes[w].started
                            /\ shown'[w] \notin {<<>>, <<"started">>} => vertexes[w].completed
    <3>1. shown'[v] \notin {<<>>, <<"started">>} => e.kind \in {"completed", "error"}
      BY <1>4, <1>8, <2>5
    <3> QED BY <1>6, <2>4, <2>8, <3>1 DEF InOrder
  <2>10. ASSUME NEW i \in DOMAIN r, Loud(r[i]) PROVE Follows(r[i], vertexes, shown')
    <3>1. Follows(r[i], vertexes, shown)
      BY <1>6, <2>10 DEF InOrder
    <3>2. CASE r[i].vertex = v
      <4>1. i + 1 \in DOMAIN Pending /\ Pending[i + 1] = r[i] /\ 1 < i + 1
        BY <1>1, <1>2, <1>5, <2>10
      <4>2. Opens(e) /\ Closes(r[i])
        <5>1. Ordered(Pending)
          BY <1>0 DEF InOrder
        <5> QED BY <1>2, <2>2, <2>10, <3>2, <4>1, <5>1 DEF Ordered, v
      <4>3. shown'[v] = <<"started">>
        BY <2>5, <4>2 DEF Opens
      <4> QED BY <3>1, <3>2, <4>2, <4>3 DEF Follows
    <3>3. CASE r[i].vertex # v
      <4>1. shown'[r[i].vertex] = shown[r[i].vertex]
        BY <1>0, <2>1, <3>3
      <4> QED BY <3>1, <4>1 DEF Follows
    <3> QED BY <3>2, <3>3
  <2>11. InOrder(r, vertexes, shown')
    BY <1>6, <2>9, <2>10 DEF InOrder
  <2> QED BY <1>0, <2>7, <2>11 DEF r, Pending
<1> QED BY <1>7, <1>8

-----------------------------------------------------------------------------
LEMMA InitInv == Init => Inv
<1> SUFFICES ASSUME Init PROVE Inv
  OBVIOUS
<1>1. Types
  BY TypesInit
<1>2. shown \in [Vertices -> Stories]
  BY DEF Init, Stories
<1>3. DOMAIN Pending = {}
  BY DEF Init, Pending, PendingOf
<1>4. InOrder(Pending, vertexes, shown)
  <2>1. \A v \in Vertices : shown[v] = <<>>
    BY DEF Init
  <2> QED BY <1>3, <2>1 DEF InOrder, Ordered
<1> QED BY <1>1, <1>2, <1>4 DEF Inv

LEMMA StepInv == Inv /\ [Next]_vars => Inv'
<1> SUFFICES ASSUME Inv, [Next]_vars PROVE Inv'
  OBVIOUS
<1>1. Types'
  BY TypesStep DEF Inv
<1>2. CASE ReceiveEvent
  BY <1>1, <1>2, ReceiveFacts DEF Inv
<1>3. CASE TakeStatus \/ ProcessVertex \/ ProcessStatusUpdate \/ ProcessLog \/ SendProgress
  <2>1. InOrder(Pending, vertexes, shown)'
    BY <1>3, TakeStatusOrder, ProcessVertexOrder, QuietItemOrder, SendOrder
  <2>2. shown' = shown
    BY <1>3 DEF TakeStatus, ProcessVertex, ProcessStatusUpdate, ProcessLog, SendProgress
  <2> QED BY <1>1, <2>1, <2>2 DEF Inv
<1>4. CASE \/ SendStatus \/ CancelContext \/ FinishStatus \/ HandlerReturns
           \/ GetBuildStats \/ UNCHANGED vars
  <2>1. UNCHANGED <<events, todo, vertexes, shown>>
    BY <1>4 DEF SendStatus, CancelContext, FinishStatus, HandlerReturns, GetBuildStats,
       vars, handler
  <2>2. Pending' = Pending
    BY <2>1 DEF Pending
  <2> QED BY <1>1, <2>1, <2>2 DEF Inv
<1> QED BY <1>2, <1>3, <1>4 DEF Next, Handle

(* The invariant holds in every reachable state. *)
THEOREM Invariance == Spec => []Inv
BY InitInv, StepInv, PTL DEF Spec

(* Every variable stays within its type; neither channel exceeds its        *)
(* capacity, whatever the capacity.                                         *)
THEOREM TypeCorrect == Spec => []TypeOK
<1>1. Inv => TypeOK
  BY DEF Inv, Types
<1> QED BY <1>1, Invariance, PTL

(* The interface sees of each vertex at most one start and one end, in that *)
(* order, for any vertices, statuses and capacities.                        *)
THEOREM OneStartOneEndAlways == Spec => []OneStartOneEnd
<1>1. ASSUME NEW v \in Vertices, shown[v] \in Stories
      PROVE  shown[v] \in {<<>>} \union {s \o e : s \in {<<>>, <<"started">>},
                                                  e \in {<<>>, <<"completed">>, <<"error">>}}
  <2>1. /\ <<"started">> = <<"started">> \o <<>>
        /\ <<"completed">> = <<>> \o <<"completed">>
        /\ <<"error">> = <<>> \o <<"error">>
        /\ <<"started", "completed">> = <<"started">> \o <<"completed">>
        /\ <<"started", "error">> = <<"started">> \o <<"error">>
    OBVIOUS
  <2> QED BY <1>1, <2>1 DEF Stories
<1>2. Inv => OneStartOneEnd
  BY <1>1 DEF Inv, OneStartOneEnd
<1> QED BY <1>2, Invariance, PTL

-----------------------------------------------------------------------------
(* What is handled of a sequence s of statuses: those before the n-th, and  *)
(* the first k items of the work of that one.                               *)
Tells(s, n, k, v, i, j) ==
  /\ i \in DOMAIN s /\ j \in DOMAIN s[i].vertexes
  /\ i < n \/ (i = n /\ j <= k)
  /\ s[i].vertexes[j].vertex = v
Ends(s, n, k, v, i, j) == Tells(s, n, k, v, i, j) /\ s[i].vertexes[j].is.completed
Earlier(x, y, i, j) == x < i \/ (x = i /\ y < j)
Fails(s, n, k, v) ==
  \E i, j : /\ Ends(s, n, k, v, i, j) /\ s[i].vertexes[j].is.failed
            /\ \A x, y : Ends(s, n, k, v, x, y) => ~Earlier(x, y, i, j)

(* What the handler holds of a vertex is what the handled snapshots say. *)
Knows(s, n, k, v, held) ==
  /\ held.known <=> \E i, j : Tells(s, n, k, v, i, j)
  /\ held.completed <=> \E i, j : Ends(s, n, k, v, i, j)
  /\ held.cached <=> \E i, j : Tells(s, n, k, v, i, j) /\ s[i].vertexes[j].is.cached
  /\ held.failed <=> Fails(s, n, k, v)

(* In the work of a status the logs come after the vertexes and updates. *)
LogAt(status, j) == Len(status.vertexes) + Len(status.updates) + j
Logs(s, n, k, v, i, j) ==
  /\ i \in DOMAIN s /\ j \in DOMAIN s[i].logs
  /\ i < n \/ (i = n /\ LogAt(s[i], j) <= k)
  /\ s[i].logs[j] = v
LogPlaces(s, n, k, v) == {p \in Nat \X Nat : Logs(s, n, k, v, p[1], p[2])}

Handled(s, n, k, vs, ls) ==
  \A v \in Vertices :
    /\ Knows(s, n, k, v, vs[v])
    /\ IsFiniteSet(LogPlaces(s, n, k, v)) /\ ls[v] = Cardinality(LogPlaces(s, n, k, v))

LEMMA StatusFacts ==
  ASSUME NEW s \in Seq(Statuses), NEW i \in DOMAIN s
  PROVE  /\ DOMAIN s = 1 .. Len(s) /\ Len(s) \in Nat /\ i \in Nat /\ s[i] \in Statuses
         /\ DOMAIN s[i].vertexes = 1 .. Len(s[i].vertexes) /\ Len(s[i].vertexes) \in Nat
         /\ DOMAIN s[i].logs = 1 .. Len(s[i].logs) /\ Len(s[i].logs) \in Nat
         /\ Len(s[i].updates) \in Nat
         /\ \A j \in DOMAIN s[i].vertexes : /\ s[i].vertexes[j].vertex \in Vertices
                                            /\ s[i].vertexes[j].is \in Snapshot
         /\ \A j \in DOMAIN s[i].logs : s[i].logs[j] \in Vertices
<1>1. DOMAIN s = 1 .. Len(s) /\ Len(s) \in Nat /\ i \in Nat /\ s[i] \in Statuses
  BY LenProperties, ElementOfSeq
<1>2. /\ s[i].vertexes \in Seq([vertex : Vertices, is : Snapshot])
      /\ s[i].updates \in Seq(Vertices) /\ s[i].logs \in Seq(Vertices)
  BY <1>1, StatusAssumption DEF Status
<1>3. /\ DOMAIN s[i].vertexes = 1 .. Len(s[i].vertexes) /\ Len(s[i].vertexes) \in Nat
      /\ DOMAIN s[i].logs = 1 .. Len(s[i].logs) /\ Len(s[i].logs) \in Nat
      /\ Len(s[i].updates) \in Nat
  BY <1>2, LenProperties
<1>4. /\ \A j \in 1 .. Len(s[i].vertexes) : s[i].vertexes[j] \in [vertex : Vertices, is : Snapshot]
      /\ \A j \in 1 .. Len(s[i].logs) : s[i].logs[j] \in Vertices
  BY <1>2, ElementOfSeq
<1> QED BY <1>1, <1>3, <1>4

LEMMA LogAtFacts ==
  ASSUME NEW s \in Seq(Statuses), NEW i \in DOMAIN s
  PROVE  LET a == Len(s[i].vertexes)
             b == Len(s[i].updates)
             c == Len(s[i].logs)
         IN  /\ a \in Nat /\ b \in Nat /\ c \in Nat
             /\ LogAt(s[i], c) = a + b + c
             /\ DOMAIN s[i].vertexes = 1 .. a /\ DOMAIN s[i].logs = 1 .. c
             /\ \A j \in 1 .. c : LogAt(s[i], j) = a + b + j
<1> DEFINE a == Len(s[i].vertexes)
           b == Len(s[i].updates)
           c == Len(s[i].logs)
<1>1. a \in Nat /\ b \in Nat /\ c \in Nat /\ DOMAIN s[i].vertexes = 1 .. a /\ DOMAIN s[i].logs = 1 .. c
  BY StatusFacts
<1>2. \A j : LogAt(s[i], j) = a + b + j
  BY DEF LogAt
<1> HIDE DEF a, b, c
<1>3. LogAt(s[i], c) = a + b + c /\ \A j \in 1 .. c : LogAt(s[i], j) = a + b + j
  BY <1>2
<1> QED BY <1>1, <1>3 DEF a, b, c

LEMMA Positive ==
  ASSUME NEW s \in Seq(Statuses), NEW i \in DOMAIN s
  PROVE  /\ \A j \in DOMAIN s[i].vertexes : ~(j <= 0)
         /\ \A j \in DOMAIN s[i].logs : ~(LogAt(s[i], j) <= 0)
<1> DEFINE a == Len(s[i].vertexes)
           b == Len(s[i].updates)
           c == Len(s[i].logs)
<1>1. /\ a \in Nat /\ b \in Nat /\ c \in Nat
      /\ DOMAIN s[i].vertexes = 1 .. a /\ DOMAIN s[i].logs = 1 .. c
      /\ \A j \in 1 .. c : LogAt(s[i], j) = a + b + j
  BY LogAtFacts
<1> HIDE DEF a, b, c
<1> QED BY <1>1

LEMMA SameHandled ==
  ASSUME NEW s, NEW n, NEW k, NEW t, NEW m, NEW l,
         \A v, i, j : Tells(s, n, k, v, i, j) <=> Tells(t, m, l, v, i, j),
         \A v, i, j : Tells(s, n, k, v, i, j) => t[i] = s[i],
         \A v, i, j : Logs(s, n, k, v, i, j) <=> Logs(t, m, l, v, i, j),
         NEW vs, NEW ls, Handled(s, n, k, vs, ls)
  PROVE  Handled(t, m, l, vs, ls)
<1>1. \A v, i, j : Ends(s, n, k, v, i, j) <=> Ends(t, m, l, v, i, j)
  BY DEF Ends
<1>2. ASSUME NEW v PROVE Fails(s, n, k, v) <=> Fails(t, m, l, v)
  <2>1. \A i, j : Ends(s, n, k, v, i, j) => t[i] = s[i]
    BY DEF Ends
  <2> QED BY <1>1, <2>1 DEF Fails
<1>3. ASSUME NEW v \in Vertices PROVE Knows(t, m, l, v, vs[v])
  <2>1. Knows(s, n, k, v, vs[v])
    BY DEF Handled
  <2>2. \A i, j : Tells(s, n, k, v, i, j) /\ s[i].vertexes[j].is.cached
                    <=> Tells(t, m, l, v, i, j) /\ t[i].vertexes[j].is.cached
    OBVIOUS
  <2> QED BY <1>1, <1>2, <2>1, <2>2 DEF Knows
<1>4. \A v : LogPlaces(s, n, k, v) = LogPlaces(t, m, l, v)
  BY DEF LogPlaces
<1> QED BY <1>3, <1>4 DEF Handled

LEMMA VertexStep ==
  ASSUME NEW s \in Seq(Statuses), NEW n \in DOMAIN s, NEW k \in Nat, k < Len(s[n].vertexes),
         NEW vs \in [Vertices -> Held], NEW ls, Handled(s, n, k, vs, ls)
  PROVE  LET x == s[n].vertexes[k + 1]
         IN  Handled(s, n, k + 1, [vs EXCEPT ![x.vertex] = Updated(vs[x.vertex], x.is)], ls)
<1> DEFINE x == s[n].vertexes[k + 1]
           w == x.vertex
           new == Updated(vs[w], x.is)
           ws == [vs EXCEPT ![w] = new]
<1>1. k + 1 \in DOMAIN s[n].vertexes /\ w \in Vertices /\ x.is \in Snapshot
  BY StatusFacts
<1>2. ASSUME NEW v, NEW i, NEW j
      PROVE  Tells(s, n, k + 1, v, i, j) <=>
               Tells(s, n, k, v, i, j) \/ (i = n /\ j = k + 1 /\ v = w)
  <2>1. i = n /\ j \in DOMAIN s[n].vertexes => (j <= k + 1 <=> j <= k \/ j = k + 1)
    BY StatusFacts
  <2> QED BY <1>1, <2>1 DEF Tells
<1>3. ASSUME NEW v, NEW i, NEW j, Tells(s, n, k, v, i, j)
      PROVE  Earlier(i, j, n, k + 1) /\ ~Earlier(n, k + 1, i, j)
  <2>1. i \in Nat /\ j \in Nat /\ n \in Nat /\ (i < n \/ (i = n /\ j <= k))
    BY <1>3, StatusFacts DEF Tells
  <2> QED BY <2>1 DEF Earlier
<1>4. \A v : LogPlaces(s, n, k + 1, v) = LogPlaces(s, n, k, v)
  <2>1. \A j \in DOMAIN s[n].logs : ~(LogAt(s[n], j) <= k) /\ ~(LogAt(s[n], j) <= k + 1)
    <3> DEFINE a == Len(s[n].vertexes)
               b == Len(s[n].updates)
               c == Len(s[n].logs)
    <3>1. /\ a \in Nat /\ b \in Nat /\ c \in Nat /\ DOMAIN s[n].logs = 1 .. c
          /\ \A j \in 1 .. c : LogAt(s[n], j) = a + b + j
      BY LogAtFacts
    <3>2. k < a
      OBVIOUS
    <3> HIDE DEF a, b, c
    <3> QED BY <3>1, <3>2
  <2>2. \A v, i, j : Logs(s, n, k + 1, v, i, j) <=> Logs(s, n, k, v, i, j)
    BY <2>1 DEF Logs
  <2> QED BY <2>2 DEF LogPlaces
<1>5. ASSUME NEW v \in Vertices, v # w PROVE Knows(s, n, k + 1, v, ws[v])
  <2>1. ws[v] = vs[v] /\ Knows(s, n, k, v, vs[v])
    BY <1>5 DEF Handled
  <2>2. \A i, j : /\ Tells(s, n, k + 1, v, i, j) <=> Tells(s, n, k, v, i, j)
                  /\ Ends(s, n, k + 1, v, i, j) <=> Ends(s, n, k, v, i, j)
    BY <1>2, <1>5 DEF Ends
  <2>3. Fails(s, n, k + 1, v) <=> Fails(s, n, k, v)
    BY <2>2, Zenon DEF Fails
  <2> QED BY <2>1, <2>2, <2>3, Zenon DEF Knows
<1>6. Knows(s, n, k + 1, w, new)
  <2> DEFINE old == vs[w]
  <2>1. old \in Held /\ Knows(s, n, k, w, old)
    BY <1>1 DEF Handled
  <2>2. /\ new.known = TRUE
        /\ new.completed <=> old.completed \/ x.is.completed
        /\ new.cached <=> old.cached \/ x.is.cached
        /\ new.failed <=> old.failed \/ (x.is.completed /\ ~old.completed /\ x.is.failed)
    <3>1. /\ old.completed \in BOOLEAN /\ old.failed \in BOOLEAN /\ old.cached \in BOOLEAN
      BY <2>1 DEF Held
    <3>2. x.is.completed \in BOOLEAN /\ x.is.failed \in BOOLEAN /\ x.is.cached \in BOOLEAN
      BY <1>1 DEF Snapshot
    <3> HIDE DEF x, w, old
    <3> QED BY <3>1, <3>2 DEF Updated, new, old
  <2>3. \A i, j : Tells(s, n, k + 1, w, i, j) <=> Tells(s, n, k, w, i, j) \/ (i = n /\ j = k + 1)
    BY <1>2
  <2>4. \A i, j : Ends(s, n, k + 1, w, i, j) <=>
                    Ends(s, n, k, w, i, j) \/ (i = n /\ j = k + 1 /\ x.is.completed)
    BY <2>3 DEF Ends
  <2>5. \A i, j : Ends(s, n, k, w, i, j) => Earlier(i, j, n, k + 1) /\ ~Earlier(n, k + 1, i, j)
    BY <1>3 DEF Ends
  <2>6. ~Earlier(n, k + 1, n, k + 1)
    <3>1. n \in Nat
      BY StatusFacts
    <3> QED BY <3>1 DEF Earlier
  <2> HIDE DEF new, old, ws
  <2>7. Fails(s, n, k + 1, w) <=>
          Fails(s, n, k, w) \/ (x.is.completed /\ x.is.failed /\ ~ \E i, j : Ends(s, n, k, w, i, j))
    <3>1. ASSUME Fails(s, n, k, w) PROVE Fails(s, n, k + 1, w)
      <4>1. PICK i, j : /\ Ends(s, n, k, w, i, j) /\ s[i].vertexes[j].is.failed
                        /\ \A a, b : Ends(s, n, k, w, a, b) => ~Earlier(a, b, i, j)
        BY <3>1 DEF Fails
      <4>2. \A a, b : Ends(s, n, k + 1, w, a, b) => ~Earlier(a, b, i, j)
        BY <2>4, <2>5, <4>1
      <4> QED BY <2>4, <4>1, <4>2 DEF Fails
    <3>2. ASSUME x.is.completed, x.is.failed, ~ \E i, j : Ends(s, n, k, w, i, j)
          PROVE  Fails(s, n, k + 1, w)
      <4>1. Ends(s, n, k + 1, w, n, k + 1)
        BY <2>4, <3>2
      <4>2. \A a, b : Ends(s, n, k + 1, w, a, b) => ~Earlier(a, b, n, k + 1)
        BY <2>4, <2>6, <3>2
      <4> QED BY <3>2, <4>1, <4>2 DEF Fails
    <3>3. ASSUME Fails(s, n, k + 1, w), ~Fails(s, n, k, w)
          PROVE  x.is.completed /\ x.is.failed /\ ~ \E i, j : Ends(s, n, k, w, i, j)
      <4>1. PICK i, j : /\ Ends(s, n, k + 1, w, i, j) /\ s[i].vertexes[j].is.failed
                        /\ \A a, b : Ends(s, n, k + 1, w, a, b) => ~Earlier(a, b, i, j)
        BY <3>3 DEF Fails
      <4>2. ~Ends(s, n, k, w, i, j)
        BY <2>4, <3>3, <4>1 DEF Fails
      <4>3. i = n /\ j = k + 1 /\ x.is.completed
        BY <2>4, <4>1, <4>2
      <4> QED BY <2>4, <2>5, <4>1, <4>3
    <3> QED BY <3>1, <3>2, <3>3
  <2> HIDE DEF x, w
  <2>8. new.known <=> \E i, j : Tells(s, n, k + 1, w, i, j)
    BY <2>2, <2>3
  <2>9. new.completed <=> \E i, j : Ends(s, n, k + 1, w, i, j)
    BY <2>1, <2>2, <2>4 DEF Knows
  <2>10. new.cached <=> \E i, j : Tells(s, n, k + 1, w, i, j) /\ s[i].vertexes[j].is.cached
    <3>1. x = s[n].vertexes[k + 1]
      BY DEF x
    <3> QED BY <2>1, <2>2, <2>3, <3>1 DEF Knows
  <2>11. new.failed <=> Fails(s, n, k + 1, w)
    BY <2>1, <2>2, <2>7, Zenon DEF Knows
  <2> QED BY <2>8, <2>9, <2>10, <2>11 DEF Knows
<1>7. ws[w] = new
  BY <1>1
<1> HIDE DEF ws, new
<1> QED BY <1>4, <1>5, <1>6, <1>7 DEF Handled, ws, new

LEMMA UpdateStep ==
  ASSUME NEW s \in Seq(Statuses), NEW n \in DOMAIN s, NEW k \in Nat,
         Len(s[n].vertexes) <= k, k < Len(s[n].vertexes) + Len(s[n].updates),
         NEW vs, NEW ls, Handled(s, n, k, vs, ls)
  PROVE  Handled(s, n, k + 1, vs, ls)
<1>1. \A v, i, j : Tells(s, n, k, v, i, j) <=> Tells(s, n, k + 1, v, i, j)
  <2>1. \A j \in DOMAIN s[n].vertexes : j <= k /\ j <= k + 1
    BY StatusFacts
  <2> QED BY <2>1 DEF Tells
<1>2. \A v, i, j : Logs(s, n, k, v, i, j) <=> Logs(s, n, k + 1, v, i, j)
  <2>1. \A j \in DOMAIN s[n].logs : ~(LogAt(s[n], j) <= k) /\ ~(LogAt(s[n], j) <= k + 1)
    <3> DEFINE a == Len(s[n].vertexes)
               b == Len(s[n].updates)
               c == Len(s[n].logs)
    <3>1. /\ a \in Nat /\ b \in Nat /\ c \in Nat /\ DOMAIN s[n].logs = 1 .. c
          /\ \A j \in 1 .. c : LogAt(s[n], j) = a + b + j
      BY LogAtFacts
    <3>2. k < a + b
      BY <3>1
    <3> HIDE DEF a, b, c
    <3> QED BY <3>1, <3>2
  <2> QED BY <2>1 DEF Logs
<1> QED BY <1>1, <1>2, SameHandled, Zenon

(* BuildKit announces a vertex before it logs. *)
AnnouncedFirst(s) ==
  \A i \in DOMAIN s : \A j \in DOMAIN s[i].logs :
    \E x \in 1 .. i : \E y \in DOMAIN s[x].vertexes : s[x].vertexes[y].vertex = s[i].logs[j]

LEMMA LogStep ==
  ASSUME NEW s \in Seq(Statuses), NEW n \in DOMAIN s, NEW l \in DOMAIN s[n].logs,
         AnnouncedFirst(s),
         NEW vs \in [Vertices -> Held], NEW ls \in [Vertices -> Nat],
         Handled(s, n, LogAt(s[n], l) - 1, vs, ls)
  PROVE  LET w == s[n].logs[l]
         IN  /\ w \in Vertices /\ vs[w].known
             /\ Handled(s, n, LogAt(s[n], l), vs, [ls EXCEPT ![w] = @ + 1])
<1> DEFINE w == s[n].logs[l]
           k == LogAt(s[n], l)
           new == [ls EXCEPT ![w] = @ + 1]
<1>1. w \in Vertices /\ n \in Nat /\ l \in Nat /\ DOMAIN s = 1 .. Len(s)
  BY StatusFacts
<1>2. /\ k \in Nat
      /\ \A j \in DOMAIN s[n].vertexes : j <= k - 1 /\ j <= k
      /\ \A j \in DOMAIN s[n].logs : LogAt(s[n], j) <= k <=> LogAt(s[n], j) <= k - 1 \/ j = l
  <2> DEFINE a == Len(s[n].vertexes)
             b == Len(s[n].updates)
             c == Len(s[n].logs)
  <2>1. /\ a \in Nat /\ b \in Nat /\ c \in Nat
        /\ DOMAIN s[n].vertexes = 1 .. a /\ DOMAIN s[n].logs = 1 .. c
        /\ \A j \in 1 .. c : LogAt(s[n], j) = a + b + j
    BY LogAtFacts
  <2>2. l \in 1 .. c /\ k = a + b + l
    BY <2>1
  <2> HIDE DEF a, b, c, k
  <2> QED BY <2>1, <2>2
<1>3. \A j \in DOMAIN s[n].vertexes : j <= k - 1 /\ j <= k
  BY <1>2
<1>4. \A j \in DOMAIN s[n].logs : LogAt(s[n], j) <= k <=> LogAt(s[n], j) <= k - 1 \/ j = l
  BY <1>2
<1>5. ~(LogAt(s[n], l) <= k - 1)
  BY <1>2
<1> HIDE DEF k
<1>6. vs[w].known
  <2>1. PICK x \in 1 .. n : \E y \in DOMAIN s[x].vertexes : s[x].vertexes[y].vertex = w
    BY Zenon DEF AnnouncedFirst
  <2>2. PICK y \in DOMAIN s[x].vertexes : s[x].vertexes[y].vertex = w
    BY <2>1
  <2>3. x \in DOMAIN s /\ (x < n \/ x = n)
    BY <1>1
  <2>4. Tells(s, n, k - 1, w, x, y)
    BY <1>3, <2>2, <2>3 DEF Tells
  <2>5. Knows(s, n, k - 1, w, vs[w])
    BY <1>1, Zenon DEF Handled, k
  <2> QED BY <2>4, <2>5, Zenon DEF Knows
<1>7. \A v, i, j : Tells(s, n, k - 1, v, i, j) <=> Tells(s, n, k, v, i, j)
  BY <1>3 DEF Tells
<1>8. \A v, i, j : Logs(s, n, k, v, i, j) <=>
        Logs(s, n, k - 1, v, i, j) \/ (i = n /\ j = l /\ v = w)
  BY <1>4 DEF Logs
<1>9. ASSUME NEW v \in Vertices PROVE Knows(s, n, k, v, vs[v])
  <2>1. Knows(s, n, k - 1, v, vs[v])
    BY Zenon DEF Handled, k
  <2>2. \A i, j : Ends(s, n, k - 1, v, i, j) <=> Ends(s, n, k, v, i, j)
    BY <1>7 DEF Ends
  <2>3. Fails(s, n, k - 1, v) <=> Fails(s, n, k, v)
    BY <2>2, Zenon DEF Fails
  <2> QED BY <1>7, <2>1, <2>2, <2>3, Zenon DEF Knows
<1>10. ASSUME NEW v \in Vertices
       PROVE  /\ IsFiniteSet(LogPlaces(s, n, k, v))
              /\ new[v] = Cardinality(LogPlaces(s, n, k, v))
  <2>1. /\ IsFiniteSet(LogPlaces(s, n, k - 1, v))
        /\ ls[v] = Cardinality(LogPlaces(s, n, k - 1, v))
    BY Zenon DEF Handled, k
  <2>2. CASE v = w
    <3>1. <<n, l>> \in Nat \X Nat /\ <<n, l>> \notin LogPlaces(s, n, k - 1, v)
      <4>1. ~Logs(s, n, k - 1, v, n, l)
        BY <1>1, <1>5 DEF Logs
      <4> QED BY <1>1, <4>1 DEF LogPlaces
    <3>2. LogPlaces(s, n, k, v) = LogPlaces(s, n, k - 1, v) \union {<<n, l>>}
      <4>1. \A p \in Nat \X Nat : Logs(s, n, k, v, p[1], p[2]) <=>
              Logs(s, n, k - 1, v, p[1], p[2]) \/ p = <<n, l>>
        BY <1>8, <2>2
      <4> QED BY <3>1, <4>1 DEF LogPlaces
    <3>3. /\ IsFiniteSet(LogPlaces(s, n, k, v))
          /\ Cardinality(LogPlaces(s, n, k, v)) = Cardinality(LogPlaces(s, n, k - 1, v)) + 1
      <4> DEFINE before == LogPlaces(s, n, k - 1, v)
      <4>1. IsFiniteSet(before) /\ <<n, l>> \notin before
        BY <2>1, <3>1
      <4> HIDE DEF before
      <4>2. /\ IsFiniteSet(before \union {<<n, l>>})
            /\ Cardinality(before \union {<<n, l>>}) = Cardinality(before) + 1
        BY <4>1, FS_AddElement
      <4> QED BY <3>2, <4>2 DEF before
    <3>4. new[v] = ls[v] + 1
      BY <2>2
    <3> QED BY <2>1, <3>3, <3>4
  <2>3. CASE v # w
    <3>1. LogPlaces(s, n, k, v) = LogPlaces(s, n, k - 1, v)
      <4>1. \A i, j : Logs(s, n, k, v, i, j) <=> Logs(s, n, k - 1, v, i, j)
        BY <1>8, <2>3
      <4> QED BY <4>1 DEF LogPlaces
    <3>2. new[v] = ls[v]
      BY <2>3
    <3> QED BY <2>1, <3>1, <3>2
  <2> QED BY <2>2, <2>3
<1>11. Handled(s, n, k, vs, new)
  BY <1>9, <1>10 DEF Handled
<1> QED BY <1>1, <1>6, <1>11 DEF k

(* A status handled to its end. *)
LEMMA WholeStatus ==
  ASSUME NEW s \in Seq(Statuses), NEW n \in DOMAIN s,
         NEW vs, NEW ls, Handled(s, n, LogAt(s[n], Len(s[n].logs)), vs, ls)
  PROVE  Handled(s, n + 1, 0, vs, ls)
<1> DEFINE k == LogAt(s[n], Len(s[n].logs))
<1>1. n \in Nat /\ DOMAIN s = 1 .. Len(s) /\ Len(s) \in Nat
  BY StatusFacts
<1>2. /\ \A j \in DOMAIN s[n].vertexes : j <= k
      /\ \A j \in DOMAIN s[n].logs : LogAt(s[n], j) <= k
  <2> DEFINE a == Len(s[n].vertexes)
             b == Len(s[n].updates)
             c == Len(s[n].logs)
  <2>1. /\ a \in Nat /\ b \in Nat /\ c \in Nat
        /\ DOMAIN s[n].vertexes = 1 .. a /\ DOMAIN s[n].logs = 1 .. c
        /\ \A j \in 1 .. c : LogAt(s[n], j) = a + b + j
        /\ k = a + b + c
    BY LogAtFacts
  <2> HIDE DEF a, b, c, k
  <2> QED BY <2>1
<1> HIDE DEF k
<1>3. \A i \in DOMAIN s : /\ i < n + 1 <=> i < n \/ i = n
                          /\ \A j \in DOMAIN s[i].vertexes : ~(j <= 0)
                          /\ \A j \in DOMAIN s[i].logs : ~(LogAt(s[i], j) <= 0)
  <2> SUFFICES ASSUME NEW i \in DOMAIN s
               PROVE  /\ i < n + 1 <=> i < n \/ i = n
                      /\ \A j \in DOMAIN s[i].vertexes : ~(j <= 0)
                      /\ \A j \in DOMAIN s[i].logs : ~(LogAt(s[i], j) <= 0)
    OBVIOUS
  <2>1. i \in Nat
    BY <1>1
  <2>2. i < n + 1 <=> i < n \/ i = n
    BY <1>1, <2>1
  <2> QED BY <2>2, Positive
<1>4. \A v, i, j : Tells(s, n, k, v, i, j) <=> Tells(s, n + 1, 0, v, i, j)
  BY <1>2, <1>3 DEF Tells
<1>5. \A v, i, j : Logs(s, n, k, v, i, j) <=> Logs(s, n + 1, 0, v, i, j)
  BY <1>2, <1>3 DEF Logs
<1>6. Handled(s, n, k, vs, ls)
  BY DEF k
<1> QED BY <1>4, <1>5, <1>6, SameHandled, Zenon

(* What BuildKit sends meanwhile changes nothing. *)
LEMMA MoreSent ==
  ASSUME NEW s \in Seq(Statuses), NEW x \in Statuses, NEW n \in Nat, NEW k \in Nat,
         n <= Len(s) \/ (n = Len(s) + 1 /\ k = 0),
         NEW vs, NEW ls, Handled(s, n, k, vs, ls)
  PROVE  Handled(Append(s, x), n, k, vs, ls)
<1> DEFINE t == Append(s, x)
<1>1. /\ t \in Seq(Statuses) /\ Len(t) = Len(s) + 1 /\ Len(s) \in Nat
      /\ DOMAIN s = 1 .. Len(s) /\ DOMAIN t = 1 .. Len(s) + 1
      /\ \A i \in 1 .. Len(s) : t[i] = s[i]
  BY AppendProperties, LenProperties
<1> HIDE DEF t
<1>2. \A i \in DOMAIN s : i \in DOMAIN t /\ t[i] = s[i]
  BY <1>1
<1>3. ASSUME NEW i \in DOMAIN t, i \notin DOMAIN s
      PROVE  /\ ~(i < n)
             /\ i = n => /\ k = 0
                         /\ \A j \in DOMAIN t[i].vertexes : ~(j <= 0)
                         /\ \A j \in DOMAIN t[i].logs : ~(LogAt(t[i], j) <= 0)
  <2>1. i = Len(s) + 1
    BY <1>1, <1>3
  <2>2. ~(i < n) /\ (i = n => k = 0)
    BY <1>1, <2>1
  <2> QED BY <1>1, <2>2, Positive
<1>4. \A v, i, j : Tells(s, n, k, v, i, j) <=> Tells(t, n, k, v, i, j)
  BY <1>2, <1>3 DEF Tells
<1>5. \A v, i, j : Tells(s, n, k, v, i, j) => t[i] = s[i]
  BY <1>2 DEF Tells
<1>6. \A v, i, j : Logs(s, n, k, v, i, j) <=> Logs(t, n, k, v, i, j)
  BY <1>2, <1>3 DEF Logs
<1> QED BY <1>4, <1>5, <1>6, SameHandled, Zenon DEF t

(* Readers are told what the statuses handled say. *)
LEMMA ReadIsRight ==
  ASSUME NEW s \in Seq(Statuses), NEW n \in Nat, n <= Len(s),
         NEW vs \in [Vertices -> Held], NEW ls \in [Vertices -> Nat],
         Handled(s, n + 1, 0, vs, ls)
  PROVE  Read(vs, ls, n) = ReadOf(SubSeq(s, 1, n))
<1> DEFINE seq == SubSeq(s, 1, n)
           Is(p) == seq[p[1]].vertexes[p[2]].is
           ends(v) == {p \in Snapshots(seq, v) : Is(p).completed}
           failed(v) == \E p \in ends(v) : Is(p).failed /\ \A q \in ends(v) : ~Before(q, p)
<1>1. /\ seq \in Seq(Statuses) /\ Len(seq) = n /\ DOMAIN seq = 1 .. n
      /\ \A i \in 1 .. n : seq[i] = s[i] /\ i \in DOMAIN s /\ i < n + 1
      /\ \A i \in DOMAIN s : i < n + 1 \/ i = n + 1 => (i < n + 1 /\ i \in 1 .. n) \/ i = n + 1
  <2>1. DOMAIN s = 1 .. Len(s) /\ Len(s) \in Nat
    BY LenProperties
  <2>2. \A i \in 1 .. n : s[i] \in Statuses
    BY <2>1, ElementOfSeq
  <2>3. seq \in Seq(Statuses) /\ Len(seq) = n /\ \A i \in 1 .. n : seq[i] = s[i]
    BY <2>2, SubSeqProperties
  <2>4. DOMAIN seq = 1 .. n
    BY <2>3, LenProperties
  <2> HIDE DEF seq
  <2> QED BY <2>1, <2>3, <2>4
<1> HIDE DEF seq
<1>2. \A v, i, j : Tells(s, n + 1, 0, v, i, j) <=>
        i \in 1 .. n /\ j \in DOMAIN seq[i].vertexes /\ seq[i].vertexes[j].vertex = v
  <2>1. \A i \in DOMAIN s : \A j \in DOMAIN s[i].vertexes : ~(j <= 0)
    BY Positive
  <2> QED BY <1>1, <2>1 DEF Tells
<1>3. \A v, i, j : Logs(s, n + 1, 0, v, i, j) <=>
        i \in 1 .. n /\ j \in DOMAIN seq[i].logs /\ seq[i].logs[j] = v
  <2>1. \A i \in DOMAIN s : \A j \in DOMAIN s[i].logs : ~(LogAt(s[i], j) <= 0)
    BY Positive
  <2> QED BY <1>1, <2>1 DEF Logs
<1>4. \A v, i, j : Tells(s, n + 1, 0, v, i, j) => s[i] = seq[i]
  BY <1>1, <1>2
<1>5. \A v, p : p \in Snapshots(seq, v) <=>
        \E i, j : p = <<i, j>> /\ Tells(s, n + 1, 0, v, i, j)
  BY <1>1, <1>2 DEF Snapshots
<1>6. \A v, p : p \in ends(v) <=>
        \E i, j : p = <<i, j>> /\ Ends(s, n + 1, 0, v, i, j)
  <2>1. \A v, p : p \in ends(v) <=> p \in Snapshots(seq, v) /\ Is(p).completed
    OBVIOUS
  <2> HIDE DEF ends
  <2> QED BY <1>4, <1>5, <2>1 DEF Ends
<1> HIDE DEF ends
<1>7. ASSUME NEW v PROVE failed(v) <=> Fails(s, n + 1, 0, v)
  <2>1. ASSUME failed(v) PROVE Fails(s, n + 1, 0, v)
    <3>1. PICK p \in ends(v) : Is(p).failed /\ \A q \in ends(v) : ~Before(q, p)
      BY <2>1
    <3>2. PICK i, j : p = <<i, j>> /\ Ends(s, n + 1, 0, v, i, j)
      BY <1>6
    <3>3. s[i].vertexes[j].is.failed
      BY <1>4, <3>1, <3>2 DEF Ends
    <3>4. ASSUME NEW x, NEW y, Ends(s, n + 1, 0, v, x, y) PROVE ~Earlier(x, y, i, j)
      <4>1. <<x, y>> \in ends(v)
        BY <1>6, <3>4
      <4>2. ~Before(<<x, y>>, p)
        BY <3>1, <4>1
      <4> QED BY <3>2, <4>2 DEF Before, Earlier
    <3> QED BY <3>2, <3>3, <3>4 DEF Fails
  <2>2. ASSUME Fails(s, n + 1, 0, v) PROVE failed(v)
    <3>1. PICK i, j : /\ Ends(s, n + 1, 0, v, i, j) /\ s[i].vertexes[j].is.failed
                      /\ \A x, y : Ends(s, n + 1, 0, v, x, y) => ~Earlier(x, y, i, j)
      BY <2>2 DEF Fails
    <3> DEFINE p == <<i, j>>
    <3>2. p \in ends(v) /\ Is(p).failed
      BY <1>4, <1>6, <3>1 DEF Ends
    <3>3. ASSUME NEW q \in ends(v) PROVE ~Before(q, p)
      <4>1. PICK x, y : q = <<x, y>> /\ Ends(s, n + 1, 0, v, x, y)
        BY <1>6
      <4> QED BY <3>1, <4>1 DEF Before, Earlier
    <3> QED BY <3>2, <3>3
  <2> QED BY <2>1, <2>2
<1>8. \A v \in Vertices : LogPlaces(s, n + 1, 0, v) = Logged(seq, v)
  <2> SUFFICES ASSUME NEW v \in Vertices
               PROVE  LogPlaces(s, n + 1, 0, v) = Logged(seq, v)
    OBVIOUS
  <2>1. \A i \in 1 .. n : i \in Nat /\ \A j \in DOMAIN seq[i].logs : j \in Nat
    BY <1>1, StatusFacts
  <2>2. \A p : p \in Logged(seq, v) <=>
          \E i, j : p = <<i, j>> /\ Logs(s, n + 1, 0, v, i, j)
    BY <1>1, <1>3 DEF Logged
  <2>3. \A p : p \in LogPlaces(s, n + 1, 0, v) <=>
          \E i, j : p = <<i, j>> /\ Logs(s, n + 1, 0, v, i, j)
    <3>1. ASSUME NEW p \in LogPlaces(s, n + 1, 0, v)
          PROVE  \E i, j : p = <<i, j>> /\ Logs(s, n + 1, 0, v, i, j)
      <4>1. p \in Nat \X Nat /\ Logs(s, n + 1, 0, v, p[1], p[2])
        BY DEF LogPlaces
      <4>2. p = <<p[1], p[2]>>
        BY <4>1
      <4> QED BY <4>1, <4>2, Zenon
    <3>2. ASSUME NEW i, NEW j, Logs(s, n + 1, 0, v, i, j)
          PROVE  <<i, j>> \in LogPlaces(s, n + 1, 0, v)
      <4>1. i \in Nat /\ j \in Nat
        BY <1>3, <2>1, <3>2
      <4> QED BY <3>2, <4>1 DEF LogPlaces
    <3> QED BY <3>1, <3>2
  <2> QED BY <2>2, <2>3
<1> HIDE DEF failed
<1>9. ASSUME NEW v \in Vertices
      PROVE  /\ vs[v].known <=> Snapshots(seq, v) # {}
             /\ vs[v].completed <=> ends(v) # {}
             /\ vs[v].cached <=> \E p \in Snapshots(seq, v) : Is(p).cached
             /\ vs[v].failed <=> failed(v)
             /\ vs[v].completed => vs[v].known
             /\ vs[v].cached => vs[v].completed
             /\ ls[v] = Cardinality(Logged(seq, v))
  <2>1. Knows(s, n + 1, 0, v, vs[v]) /\ ls[v] = Cardinality(Logged(seq, v))
    BY <1>8 DEF Handled
  <2>2. vs[v].known <=> Snapshots(seq, v) # {}
    BY <1>5, <2>1 DEF Knows
  <2>3. vs[v].completed <=> ends(v) # {}
    BY <1>6, <2>1 DEF Knows
  <2>4. vs[v].cached <=> \E p \in Snapshots(seq, v) : Is(p).cached
    <3>1. vs[v].cached <=> \E i, j : Tells(s, n + 1, 0, v, i, j) /\ s[i].vertexes[j].is.cached
      BY <2>1, Zenon DEF Knows
    <3>2. ASSUME NEW p \in Snapshots(seq, v), Is(p).cached PROVE vs[v].cached
      <4>1. PICK i, j : p = <<i, j>> /\ Tells(s, n + 1, 0, v, i, j)
        BY <1>5
      <4>2. s[i].vertexes[j].is.cached
        BY <1>4, <3>2, <4>1
      <4> QED BY <3>1, <4>1, <4>2, Zenon
    <3>3. ASSUME vs[v].cached PROVE \E p \in Snapshots(seq, v) : Is(p).cached
      <4>1. PICK i, j : Tells(s, n + 1, 0, v, i, j) /\ s[i].vertexes[j].is.cached
        BY <3>1, <3>3, Zenon
      <4> DEFINE p == <<i, j>>
      <4>2. p \in Snapshots(seq, v) /\ Is(p).cached
        BY <1>4, <1>5, <4>1
      <4> QED BY <4>2
    <3> QED BY <3>2, <3>3
  <2>5. vs[v].failed <=> failed(v)
    BY <1>7, <2>1, Zenon DEF Knows
  <2>6. vs[v].completed => vs[v].known
    BY <2>1, Zenon DEF Knows, Ends
  <2>7. vs[v].cached => vs[v].completed
    <3>1. \A i, j : Tells(s, n + 1, 0, v, i, j) /\ s[i].vertexes[j].is.cached =>
            Ends(s, n + 1, 0, v, i, j)
      BY StatusFacts DEF Tells, Ends, Snapshot
    <3> QED BY <2>1, <3>1, Zenon DEF Knows
  <2> QED BY <2>1, <2>2, <2>3, <2>4, <2>5, <2>6, <2>7
<1>10. \A v \in Vertices : vs[v].failed => vs[v].completed
  <2>1. \A v : Fails(s, n + 1, 0, v) => \E i, j : Ends(s, n + 1, 0, v, i, j)
    BY Zenon DEF Fails
  <2> QED BY <2>1, Zenon DEF Handled, Knows
<1>11. /\ {v \in Vertices : vs[v].known} = {v \in Vertices : Snapshots(seq, v) # {}}
       /\ {v \in Vertices : vs[v].known /\ vs[v].completed} = {v \in Vertices : ends(v) # {}}
       /\ {v \in Vertices : vs[v].known /\ vs[v].completed /\ vs[v].cached}
            = {v \in Vertices : \E p \in Snapshots(seq, v) : Is(p).cached}
       /\ {v \in Vertices : vs[v].known /\ vs[v].failed} = {v \in Vertices : failed(v)}
  BY <1>9, <1>10
<1>12. ls = [v \in Vertices |-> Cardinality(Logged(seq, v))]
  BY <1>9
<1>13. BuildStats(vs) = [total |-> Cardinality({v \in Vertices : Snapshots(seq, v) # {}}),
                         completed |-> Cardinality({v \in Vertices : ends(v) # {}}),
                         cached |-> Cardinality({v \in Vertices :
                                                   \E p \in Snapshots(seq, v) : Is(p).cached}),
                         errored |-> Cardinality({v \in Vertices : failed(v)})]
  BY <1>11, Zenon DEF BuildStats
<1>14. CompletedVertexes(vs) = {v \in Vertices : ends(v) # {}}
  BY <1>11, Zenon DEF CompletedVertexes
<1>15. ReadOf(seq) = [stats |-> BuildStats(vs), completed |-> CompletedVertexes(vs),
                      logs |-> ls, after |-> n]
  BY <1>1, <1>12, <1>13, <1>14, Zenon DEF ReadOf, ends, failed
<1> QED BY <1>15, Zenon DEF Read, seq

-----------------------------------------------------------------------------
(* What is left to do is what is left of the work w, from its (k+1)-th item *)
(* on, after the events to send first.                                      *)
Remains(td, w, k) ==
  \E m \in Nat :
    /\ Len(td) = m + (Len(w) - k)
    /\ \A i \in 1 .. m : td[i].does = "send"
    /\ \A i \in 1 .. Len(w) - k : td[m + i] = w[k + i]

LEMMA WorkItems ==
  ASSUME NEW s \in Seq(Statuses), NEW n \in DOMAIN s
  PROVE  LET w == Work(s[n])
             a == Len(s[n].vertexes)
             b == Len(s[n].updates)
             c == Len(s[n].logs)
         IN  /\ w \in Seq(Told) /\ Len(w) = a + b + c
             /\ \A k \in Nat : k < Len(w) =>
                  \/ /\ k < a /\ w[k + 1].does = "vertex"
                     /\ w[k + 1].vertex = s[n].vertexes[k + 1].vertex
                     /\ w[k + 1].is = s[n].vertexes[k + 1].is
                  \/ a <= k /\ k < a + b /\ w[k + 1].does = "update"
                  \/ /\ a + b <= k /\ w[k + 1].does = "log" /\ k + 1 - a - b \in DOMAIN s[n].logs
                     /\ LogAt(s[n], k + 1 - a - b) = k + 1
                     /\ w[k + 1].vertex = s[n].logs[k + 1 - a - b]
<1> DEFINE a == Len(s[n].vertexes)
           b == Len(s[n].updates)
           c == Len(s[n].logs)
           vx == [i \in DOMAIN s[n].vertexes |-> [does |-> "vertex", vertex |-> s[n].vertexes[i].vertex,
                                                  is |-> s[n].vertexes[i].is]]
           up == [i \in DOMAIN s[n].updates |-> [does |-> "update", vertex |-> s[n].updates[i]]]
           lg == [i \in DOMAIN s[n].logs |-> [does |-> "log", vertex |-> s[n].logs[i]]]
           w == Work(s[n])
<1>1. s[n] \in Statuses /\ w \in Seq(Told)
  BY StatusFacts, WorkType
<1>2. /\ a \in Nat /\ b \in Nat /\ c \in Nat /\ DOMAIN s[n].logs = 1 .. c
      /\ DOMAIN s[n].vertexes = 1 .. a /\ DOMAIN s[n].updates = 1 .. b
      /\ \A j \in 1 .. c : LogAt(s[n], j) = a + b + j
  <2>1. s[n].updates \in Seq(Vertices)
    BY <1>1, StatusAssumption DEF Status
  <2> QED BY <2>1, LogAtFacts, LenProperties
<1>3. w = (vx \o up) \o lg
  BY DEF Work
<1>4. /\ vx \in Seq(ToSet(vx)) /\ up \in Seq(ToSet(up)) /\ lg \in Seq(ToSet(lg))
      /\ Len(vx) = a /\ Len(up) = b /\ Len(lg) = c
  <2>1. /\ DOMAIN vx = 1 .. a /\ DOMAIN up = 1 .. b /\ DOMAIN lg = 1 .. c
        /\ vx \in [1 .. a -> ToSet(vx)] /\ up \in [1 .. b -> ToSet(up)] /\ lg \in [1 .. c -> ToSet(lg)]
    BY <1>2 DEF ToSet
  <2> HIDE DEF vx, up, lg, a, b, c
  <2>2. vx \in Seq(ToSet(vx)) /\ up \in Seq(ToSet(up)) /\ lg \in Seq(ToSet(lg))
    BY <1>2, <2>1, MappedSeq
  <2> QED BY <1>2, <2>1, <2>2, LenProperties
<1>5. /\ \A i \in 1 .. a : /\ vx[i].does = "vertex" /\ vx[i].vertex = s[n].vertexes[i].vertex
                           /\ vx[i].is = s[n].vertexes[i].is
      /\ \A i \in 1 .. b : up[i].does = "update"
      /\ \A i \in 1 .. c : lg[i].does = "log" /\ lg[i].vertex = s[n].logs[i]
  BY <1>2
<1> HIDE DEF vx, up, lg, a, b, c, w
<1>6. /\ Len(w) = a + b + c
      /\ \A i \in 1 .. a : w[i] = vx[i]
      /\ \A i \in 1 .. b : w[a + i] = up[i]
      /\ \A i \in 1 .. c : w[a + b + i] = lg[i]
  <2> DEFINE T == ToSet(vx) \union ToSet(up) \union ToSet(lg)
             front == vx \o up
  <2>1. vx \in Seq(T) /\ up \in Seq(T) /\ lg \in Seq(T)
    BY <1>4, SeqMonotonic
  <2>2. /\ front \in Seq(T) /\ Len(front) = a + b
        /\ \A i \in 1 .. a + b : front[i] = IF i <= a THEN vx[i] ELSE up[i - a]
    BY <1>4, <2>1, ConcatProperties
  <2> HIDE DEF front, T
  <2>3. /\ Len(front \o lg) = Len(front) + Len(lg)
        /\ \A i \in 1 .. Len(front) + Len(lg) :
             (front \o lg)[i] = IF i <= Len(front) THEN front[i] ELSE lg[i - Len(front)]
    BY <2>1, <2>2, ConcatProperties, Zenon
  <2>4. w = front \o lg
    BY <1>3 DEF front
  <2>5. /\ Len(w) = a + b + c
        /\ \A i \in 1 .. a + b + c : w[i] = IF i <= a + b THEN front[i] ELSE lg[i - (a + b)]
    <3>1. Len(front) = a + b /\ Len(lg) = c
      BY <1>4, <2>2
    <3>2. /\ Len(w) = (a + b) + c
          /\ \A i \in 1 .. (a + b) + c : w[i] = IF i <= a + b THEN front[i] ELSE lg[i - (a + b)]
      BY ONLY <2>3, <2>4, <3>1
    <3> QED BY ONLY <3>2
  <2>6. \A i \in 1 .. a : w[i] = vx[i]
    BY <1>2, <2>2, <2>5
  <2>7. \A i \in 1 .. b : w[a + i] = up[i]
    <3> SUFFICES ASSUME NEW i \in 1 .. b, NEW j, j = a + i PROVE w[j] = up[i]
      OBVIOUS
    <3>1. j \in 1 .. a + b + c /\ j <= a + b /\ j \in 1 .. a + b /\ ~(j <= a) /\ j - a = i
      BY <1>2
    <3>2. w[j] = front[j]
      BY <2>5, <3>1, Zenon
    <3>3. front[j] = up[j - a]
      BY <2>2, <3>1, Zenon
    <3> QED BY <3>1, <3>2, <3>3, Zenon
  <2>8. \A i \in 1 .. c : w[a + b + i] = lg[i]
    <3> SUFFICES ASSUME NEW i \in 1 .. c, NEW j, j = a + b + i PROVE w[j] = lg[i]
      OBVIOUS
    <3>1. j \in 1 .. a + b + c /\ ~(j <= a + b) /\ j - (a + b) = i
      BY <1>2
    <3>2. w[j] = lg[j - (a + b)]
      BY <2>5, <3>1, Zenon
    <3> QED BY <3>1, <3>2, Zenon
  <2> QED BY <2>5, <2>6, <2>7, <2>8
<1>7. ASSUME NEW k \in Nat, k < Len(w)
      PROVE  \/ /\ k < a /\ w[k + 1].does = "vertex"
                /\ w[k + 1].vertex = s[n].vertexes[k + 1].vertex
                /\ w[k + 1].is = s[n].vertexes[k + 1].is
             \/ a <= k /\ k < a + b /\ w[k + 1].does = "update"
             \/ /\ a + b <= k /\ w[k + 1].does = "log" /\ k + 1 - a - b \in DOMAIN s[n].logs
                /\ LogAt(s[n], k + 1 - a - b) = k + 1
                /\ w[k + 1].vertex = s[n].logs[k + 1 - a - b]
  <2>1. CASE k < a
    <3>1. k + 1 \in 1 .. a
      BY <1>2, <2>1
    <3>2. w[k + 1] = vx[k + 1]
      BY <1>6, <3>1
    <3> QED BY <1>5, <2>1, <3>1, <3>2
  <2>2. CASE a <= k /\ k < a + b
    <3> DEFINE i == k + 1 - a
    <3>1. i \in 1 .. b /\ a + i = k + 1
      BY <1>2, <2>2
    <3>2. w[k + 1] = up[i]
      BY <1>6, <3>1
    <3> QED BY <1>5, <2>2, <3>1, <3>2
  <2>3. CASE a + b <= k
    <3> DEFINE i == k + 1 - a - b
    <3>1. i \in 1 .. c /\ a + b + i = k + 1
      BY <1>2, <1>6, <1>7, <2>3
    <3> HIDE DEF i
    <3>2. w[k + 1] = lg[i]
      BY <1>6, <3>1
    <3>3. LogAt(s[n], i) = k + 1 /\ i \in DOMAIN s[n].logs
      BY <1>2, <3>1
    <3>4. w[k + 1].does = "log" /\ w[k + 1].vertex = s[n].logs[i]
      BY <1>5, <3>1, <3>2
    <3> QED BY <2>3, <3>3, <3>4 DEF i
  <2> QED BY <1>2, <2>1, <2>2, <2>3
<1> QED BY <1>1, <1>6, <1>7 DEF a, b, c, w

(* The next item that is no event is the next of the work. *)
LEMMA NextItem ==
  ASSUME NEW td \in Seq(Items), NEW w \in Seq(Told), NEW k \in 0 .. Len(w), Remains(td, w, k),
         td # <<>>, Head(td).does # "send"
  PROVE  /\ k < Len(w) /\ Head(td) = w[k + 1] /\ Len(td) = Len(w) - k
         /\ \A i \in 1 .. Len(w) - k : td[i] = w[k + i]
<1>1. PICK m \in Nat : /\ Len(td) = m + (Len(w) - k)
                       /\ \A i \in 1 .. m : td[i].does = "send"
                       /\ \A i \in 1 .. Len(w) - k : td[m + i] = w[k + i]
  BY DEF Remains
<1>2. Len(td) \in Nat \ {0} /\ Head(td) = td[1] /\ Len(w) \in Nat
  BY EmptySeq, LenProperties, HeadTailProperties
<1>3. m = 0
  <2>1. ~(1 <= m)
    BY <1>1, <1>2
  <2> QED BY <1>1, <2>1
<1>4. \A i \in 1 .. Len(w) - k : m + i = i
  BY <1>2, <1>3
<1>5. Len(td) = Len(w) - k /\ 1 \in 1 .. Len(w) - k
  BY <1>1, <1>2, <1>3
<1> QED BY <1>1, <1>2, <1>4, <1>5

LEMMA AfterItem ==
  ASSUME Types, NEW w \in Seq(Told), NEW k \in 0 .. Len(w), Remains(todo, w, k),
         todo # <<>>, Head(todo).does # "send", NEW es \in Seq(Events), ThenSend(es)
  PROVE  k < Len(w) /\ Head(todo) = w[k + 1] /\ Remains(todo', w, k + 1)
<1>1. /\ k < Len(w) /\ Head(todo) = w[k + 1] /\ Len(todo) = Len(w) - k
      /\ \A i \in 1 .. Len(w) - k : todo[i] = w[k + i]
  BY NextItem DEF Types
<1>2. /\ Len(todo') = Len(es) + Len(todo) - 1
      /\ \A i \in 1 .. Len(todo') : todo'[i].does = "send" <=> i <= Len(es)
      /\ \A i \in 1 .. Len(todo') : i > Len(es) => todo'[i] = todo[i - Len(es) + 1]
  BY ThenSendFacts
<1>3. Len(es) \in Nat /\ Len(w) \in Nat
  BY LenProperties
<1>4. Len(todo') = Len(es) + (Len(w) - (k + 1))
  BY <1>1, <1>2, <1>3
<1>5. \A i \in 1 .. Len(es) : todo'[i].does = "send"
  <2>1. \A i \in 1 .. Len(es) : i \in 1 .. Len(todo') /\ i <= Len(es)
    BY <1>1, <1>3, <1>4
  <2> QED BY <1>2, <2>1
<1>6. \A i \in 1 .. Len(w) - (k + 1) : todo'[Len(es) + i] = w[k + 1 + i]
  <2> SUFFICES ASSUME NEW i \in 1 .. Len(w) - (k + 1), NEW j, j = Len(es) + i
               PROVE  todo'[j] = w[k + 1 + i]
    OBVIOUS
  <2>1. /\ j \in 1 .. Len(todo') /\ j > Len(es)
        /\ j - Len(es) + 1 = i + 1 /\ i + 1 \in 1 .. Len(w) - k /\ k + (i + 1) = k + 1 + i
    BY <1>1, <1>3, <1>4
  <2>2. todo'[j] = todo[j - Len(es) + 1]
    BY ONLY <1>2, <2>1
  <2>3. todo[i + 1] = w[k + (i + 1)]
    BY ONLY <1>1, <2>1
  <2> QED BY <2>1, <2>2, <2>3, Zenon
<1>7. Remains(todo', w, k + 1)
  BY <1>3, <1>4, <1>5, <1>6 DEF Remains
<1> QED BY <1>1, <1>7

LEMMA AfterSend ==
  ASSUME NEW td \in Seq(Items), NEW w \in Seq(Told), NEW k \in 0 .. Len(w), Remains(td, w, k),
         td # <<>>, td[1].does = "send",
         NEW new, Len(new) = Len(td) - 1, \A i \in 1 .. Len(new) : new[i] = td[i + 1]
  PROVE  Remains(new, w, k)
<1>1. PICK m \in Nat : /\ Len(td) = m + (Len(w) - k)
                       /\ \A i \in 1 .. m : td[i].does = "send"
                       /\ \A i \in 1 .. Len(w) - k : td[m + i] = w[k + i]
  BY DEF Remains
<1>2. Len(td) \in Nat \ {0} /\ Len(w) \in Nat
  BY EmptySeq, LenProperties
<1>3. m # 0
  <2> SUFFICES ASSUME m = 0 PROVE FALSE
    OBVIOUS
  <2>1. 1 \in 1 .. Len(w) - k /\ m + 1 = 1 /\ k + 1 \in 1 .. Len(w)
    BY <1>1, <1>2
  <2>2. td[1] = w[k + 1] /\ w[k + 1] \in Told
    BY <1>1, <2>1, ElementOfSeq
  <2> QED BY <2>2 DEF Told
<1>4. m - 1 \in Nat /\ Len(new) = (m - 1) + (Len(w) - k)
  BY <1>1, <1>2, <1>3
<1>5. \A i \in 1 .. m - 1 : new[i].does = "send"
  <2>1. \A i \in 1 .. m - 1 : i \in 1 .. Len(new) /\ i + 1 \in 1 .. m
    BY <1>1, <1>2, <1>4
  <2> QED BY <1>1, <2>1
<1>6. \A i \in 1 .. Len(w) - k : new[(m - 1) + i] = w[k + i]
  <2> SUFFICES ASSUME NEW i \in 1 .. Len(w) - k, NEW j, j = (m - 1) + i PROVE new[j] = w[k + i]
    OBVIOUS
  <2>1. j \in 1 .. Len(new) /\ j + 1 = m + i
    BY <1>2, <1>4
  <2>2. new[j] = td[j + 1]
    BY <2>1
  <2> QED BY <1>1, <2>1, <2>2
<1> QED BY <1>4, <1>5, <1>6 DEF Remains

-----------------------------------------------------------------------------
(* The second invariant.  The handler holds what the statuses it has taken  *)
(* say, up to where it is in the work of the last of them; and what a       *)
(* reader got is what the statuses finished by then say.                    *)
Underway ==
  /\ taken # 0
  /\ \E k \in 0 .. Len(Work(sent[taken])) :
       Remains(todo, Work(sent[taken]), k) /\ Handled(sent, taken, k, vertexes, logs)

UpToDate == IF pc = "working" THEN Underway ELSE Handled(sent, taken + 1, 0, vertexes, logs)

InTransit == \A i \in 1 .. Len(statuses) : statuses[i] = sent[taken + i]

WasRead == read.after \in 0 .. Len(sent) /\ StatusesAreTakenWhole

Reading == InTransit /\ AnnouncedFirst(sent) /\ UpToDate /\ WasRead

LEMMA NothingHandled ==
  ASSUME NEW vs, NEW ls, \A v \in Vertices : vs[v] = Unknown /\ ls[v] = 0
  PROVE  Handled(<<>>, 1, 0, vs, ls)
<1>1. ASSUME NEW v \in Vertices PROVE Knows(<<>>, 1, 0, v, vs[v])
  <2>1. \A i, j : ~Tells(<<>>, 1, 0, v, i, j)
    BY DEF Tells
  <2>2. \A i, j : ~Ends(<<>>, 1, 0, v, i, j)
    BY <2>1 DEF Ends
  <2> QED BY <2>1, <2>2 DEF Knows, Fails, Unknown
<1>2. ASSUME NEW v \in Vertices PROVE LogPlaces(<<>>, 1, 0, v) = {}
  BY DEF LogPlaces, Logs
<1> QED BY <1>1, <1>2, FS_EmptySet DEF Handled

LEMMA ReadingInit == Init => Reading
<1> SUFFICES ASSUME Init PROVE Reading
  OBVIOUS
<1>1. /\ vertexes \in [Vertices -> Held] /\ logs \in [Vertices -> Nat]
      /\ sent = <<>> /\ sent \in Seq(Statuses) /\ Len(sent) = 0 /\ statuses = <<>>
      /\ taken = 0 /\ pc = "select" /\ read = Read(vertexes, logs, 0)
      /\ \A v \in Vertices : vertexes[v] = Unknown /\ logs[v] = 0
  BY DEF Init, Unknown, Held
<1>2. Handled(sent, 1, 0, vertexes, logs)
  BY <1>1, NothingHandled
<1>3. Read(vertexes, logs, 0) = ReadOf(SubSeq(sent, 1, 0))
  <2>1. Handled(sent, 0 + 1, 0, vertexes, logs)
    BY <1>2
  <2>2. sent \in Seq(Statuses) /\ 0 \in Nat /\ 0 <= Len(sent)
    BY <1>1
  <2> QED BY <1>1, <2>1, <2>2, ReadIsRight, Zenon
<1>4. read.after = 0
  BY <1>1 DEF Read
<1>5. WasRead
  BY <1>1, <1>3, <1>4 DEF WasRead, StatusesAreTakenWhole
<1>6. InTransit /\ AnnouncedFirst(sent)
  BY <1>1 DEF InTransit, AnnouncedFirst
<1>7. UpToDate
  BY <1>1, <1>2 DEF UpToDate
<1> QED BY <1>5, <1>6, <1>7 DEF Reading

(* BuildKit announces in this status or an earlier one what it logs. *)
LEMMA AnnouncedNext ==
  ASSUME NEW s \in Seq(Statuses), AnnouncedFirst(s), NEW x \in Statuses,
         ToSet(x.logs) \subseteq Announced(Append(s, x))
  PROVE  AnnouncedFirst(Append(s, x))
<1> DEFINE t == Append(s, x)
<1>1. /\ t \in Seq(Statuses) /\ Len(t) = Len(s) + 1 /\ Len(s) \in Nat
      /\ DOMAIN s = 1 .. Len(s) /\ DOMAIN t = 1 .. Len(s) + 1
      /\ \A i \in 1 .. Len(s) : t[i] = s[i]
      /\ t[Len(s) + 1] = x
  BY AppendProperties, LenProperties
<1>2. \A j \in DOMAIN x.logs : x.logs[j] \in Announced(t)
  BY DEF ToSet
<1> HIDE DEF t
<1>3. ASSUME NEW v \in Announced(t)
      PROVE  \E i \in 1 .. Len(s) + 1 : \E y \in DOMAIN t[i].vertexes : t[i].vertexes[y].vertex = v
  <2>1. PICK z \in ToSet(t) : v \in {w.vertex : w \in ToSet(z.vertexes)}
    BY DEF Announced
  <2>2. PICK i \in 1 .. Len(s) + 1 : z = t[i]
    BY <1>1, <2>1 DEF ToSet
  <2>3. PICK w \in ToSet(z.vertexes) : v = w.vertex
    BY <2>1
  <2>4. PICK y \in DOMAIN z.vertexes : w = z.vertexes[y]
    BY <2>3 DEF ToSet
  <2> QED BY <2>2, <2>3, <2>4
<1>4. ASSUME NEW i \in DOMAIN t, NEW j \in DOMAIN t[i].logs
      PROVE  \E a \in 1 .. i : \E y \in DOMAIN t[a].vertexes :
               t[a].vertexes[y].vertex = t[i].logs[j]
  <2>1. CASE i \in 1 .. Len(s)
    <3>1. PICK a \in 1 .. i : \E y \in DOMAIN s[a].vertexes :
                                s[a].vertexes[y].vertex = s[i].logs[j]
      BY <1>1, <1>4, <2>1 DEF AnnouncedFirst
    <3>2. t[a] = s[a]
      BY <1>1, <2>1
    <3> QED BY <1>1, <2>1, <3>1, <3>2
  <2>2. CASE i = Len(s) + 1
    BY <1>1, <1>2, <1>3, <1>4, <2>2
  <2> QED BY <1>1, <2>1, <2>2
<1> QED BY <1>4 DEF AnnouncedFirst, t

LEMMA ReadingTypes ==
  ASSUME Types
  PROVE  /\ sent \in Seq(Statuses) /\ statuses \in Seq(Statuses)
         /\ Len(sent) \in Nat /\ Len(statuses) \in Nat
         /\ taken \in Nat /\ taken + Len(statuses) = Len(sent)
         /\ DOMAIN sent = 1 .. Len(sent)
         /\ vertexes \in [Vertices -> Held] /\ logs \in [Vertices -> Nat]
         /\ todo \in Seq(Items)
BY LenProperties DEF Types, TypeOK, Held

LEMMA SendReading == Types /\ Reading /\ SendStatus => Reading'
<1> SUFFICES ASSUME Types, Reading, SendStatus PROVE Reading'
  OBVIOUS
<1>1. PICK x \in Statuses : /\ ToSet(x.logs) \union ToSet(x.updates) \subseteq Announced(Append(sent, x))
                            /\ statuses' = Append(statuses, x) /\ sent' = Append(sent, x)
  BY DEF SendStatus
<1>2. UNCHANGED <<vertexes, logs, todo, pc, taken, read>>
  BY DEF SendStatus, handler
<1>0. /\ Len(sent) \in Nat /\ Len(statuses) \in Nat /\ taken \in Nat
      /\ taken + Len(statuses) = Len(sent)
  BY ReadingTypes
<1>3. /\ Len(sent') = Len(sent) + 1 /\ Len(statuses') = Len(statuses) + 1
      /\ \A i \in 1 .. Len(sent) : sent'[i] = sent[i]
      /\ sent'[Len(sent) + 1] = x
      /\ \A i \in 1 .. Len(statuses) : statuses'[i] = statuses[i]
      /\ statuses'[Len(statuses) + 1] = x
      /\ sent' \in Seq(Statuses)
  BY <1>1, ReadingTypes, AppendProperties
<1>4. InTransit'
  <2>1. ASSUME NEW i \in 1 .. Len(statuses') PROVE statuses'[i] = sent'[taken' + i]
    <3>1. CASE i \in 1 .. Len(statuses)
      <4>1. statuses[i] = sent[taken + i] /\ taken + i \in 1 .. Len(sent)
        BY <3>1, ReadingTypes DEF Reading, InTransit
      <4> QED BY <1>2, <1>3, <3>1, <4>1
    <3>2. CASE i = Len(statuses) + 1
      <4>1. taken + i = Len(sent) + 1
        BY ONLY <1>0, <3>2
      <4> QED BY <1>2, <1>3, <3>2, <4>1
    <3> QED BY <1>3, <3>1, <3>2, ReadingTypes
  <2> QED BY <2>1 DEF InTransit
<1>5. AnnouncedFirst(sent')
  BY <1>1, ReadingTypes, AnnouncedNext DEF Reading
<1>6. WasRead'
  <2>1. read.after \in 0 .. Len(sent) /\ read = ReadOf(SubSeq(sent, 1, read.after))
    BY DEF Reading, WasRead, StatusesAreTakenWhole
  <2>2. SubSeq(sent', 1, read.after) = SubSeq(sent, 1, read.after)
    <3>1. \A i \in 1 .. read.after : sent'[i] = sent[i]
      BY ONLY <1>0, <1>3, <2>1
    <3> DEFINE n == read.after
    <3>2. /\ n \in Nat /\ 1 \in Int /\ n \in Int
          /\ \A i \in 1 .. n : i \in 1 .. Len(sent) /\ i \in 1 .. Len(sent')
      BY ONLY <1>0, <1>3, <2>1
    <3>3. \A i \in 1 .. n : sent[i] \in Statuses /\ sent'[i] \in Statuses
      BY <1>3, <3>2, ReadingTypes, ElementOfSeq
    <3> HIDE DEF n
    <3>4. /\ SubSeq(sent, 1, n) \in Seq(Statuses) /\ SubSeq(sent', 1, n) \in Seq(Statuses)
          /\ Len(SubSeq(sent, 1, n)) = n /\ Len(SubSeq(sent', 1, n)) = n
          /\ \A i \in 1 .. n : SubSeq(sent, 1, n)[i] = sent[i]
          /\ \A i \in 1 .. n : SubSeq(sent', 1, n)[i] = sent'[i]
      <4>1. /\ n - 1 + 1 = n /\ IF 1 <= n THEN n - 1 + 1 = n ELSE n = 0
            /\ \A i \in 1 .. n : 1 + i - 1 = i
        BY ONLY <3>2
      <4>2. /\ SubSeq(sent, 1, n) \in Seq(Statuses) /\ SubSeq(sent', 1, n) \in Seq(Statuses)
            /\ Len(SubSeq(sent, 1, n)) = IF 1 <= n THEN n - 1 + 1 ELSE 0
            /\ Len(SubSeq(sent', 1, n)) = IF 1 <= n THEN n - 1 + 1 ELSE 0
            /\ \A i \in 1 .. n - 1 + 1 : SubSeq(sent, 1, n)[i] = sent[1 + i - 1]
            /\ \A i \in 1 .. n - 1 + 1 : SubSeq(sent', 1, n)[i] = sent'[1 + i - 1]
        BY <3>2, <3>3, SubSeqProperties
      <4> QED BY ONLY <4>1, <4>2
    <3>5. \A i \in 1 .. Len(SubSeq(sent', 1, n)) : SubSeq(sent', 1, n)[i] = SubSeq(sent, 1, n)[i]
      BY <3>1, <3>4 DEF n
    <3> QED BY <3>4, <3>5, SeqEqual, Zenon DEF n
  <2>3. read.after \in 0 .. Len(sent')
    BY <1>3, <2>1, ReadingTypes
  <2> QED BY <1>2, <2>1, <2>2, <2>3 DEF WasRead, StatusesAreTakenWhole
<1>7. UpToDate'
  <2>1. CASE pc = "working"
    <3>1. PICK k \in 0 .. Len(Work(sent[taken])) :
            Remains(todo, Work(sent[taken]), k) /\ Handled(sent, taken, k, vertexes, logs)
      BY <2>1 DEF Reading, UpToDate, Underway
    <3>2. taken # 0 /\ taken \in 1 .. Len(sent)
      BY <2>1, ReadingTypes DEF Reading, UpToDate, Underway
    <3>3. k \in Nat
      OBVIOUS
    <3>4. Handled(Append(sent, x), taken, k, vertexes, logs)
      <4>1. taken <= Len(sent)
        BY <3>2
      <4> QED BY <3>1, <3>3, <4>1, ReadingTypes, MoreSent
    <3>5. sent'[taken] = sent[taken]
      BY <1>3, <3>2
    <3> QED BY <1>1, <1>2, <2>1, <3>1, <3>2, <3>4, <3>5 DEF UpToDate, Underway
  <2>2. CASE pc # "working"
    <3>1. Handled(sent, taken + 1, 0, vertexes, logs)
      BY <2>2 DEF Reading, UpToDate
    <3>2. taken + 1 \in Nat /\ (taken + 1 <= Len(sent) \/ (taken + 1 = Len(sent) + 1 /\ 0 = 0))
      BY ReadingTypes
    <3>3. Handled(Append(sent, x), taken + 1, 0, vertexes, logs)
      BY <3>1, <3>2, ReadingTypes, MoreSent
    <3> QED BY <1>1, <1>2, <2>2, <3>3 DEF UpToDate
  <2> QED BY <2>1, <2>2
<1> QED BY <1>4, <1>5, <1>6, <1>7 DEF Reading

LEMMA TakeReading == Types /\ Reading /\ TakeStatus => Reading'
<1> SUFFICES ASSUME Types, Reading, TakeStatus PROVE Reading'
  OBVIOUS
<1>1. /\ pc = "select" /\ statuses # <<>> /\ todo' = Work(Head(statuses))
      /\ statuses' = Tail(statuses) /\ taken' = taken + 1 /\ pc' = "working"
      /\ UNCHANGED <<vertexes, logs, sent, read>>
  BY DEF TakeStatus
<1>2. /\ Head(statuses) = statuses[1] /\ Len(statuses) \in Nat \ {0}
      /\ Len(statuses') = Len(statuses) - 1
      /\ \A i \in 1 .. Len(statuses') : statuses'[i] = statuses[i + 1]
  BY <1>1, ReadingTypes, HeadTailProperties, EmptySeq
<1>3. Head(statuses) = sent[taken'] /\ taken' \in DOMAIN sent
  <2>1. 1 \in 1 .. Len(statuses) /\ taken + 1 \in 1 .. Len(sent)
    BY <1>2, ReadingTypes
  <2> QED BY <1>1, <1>2, <2>1, ReadingTypes DEF Reading, InTransit
<1>4. InTransit'
  <2>1. ASSUME NEW i \in 1 .. Len(statuses') PROVE statuses'[i] = sent'[taken' + i]
    <3>1. i + 1 \in 1 .. Len(statuses) /\ taken + (i + 1) = taken' + i
      BY <1>1, <1>2, ReadingTypes
    <3>2. statuses[i + 1] = sent[taken + (i + 1)]
      BY <3>1 DEF Reading, InTransit
    <3> QED BY <1>1, <1>2, <3>1, <3>2
  <2> QED BY <2>1 DEF InTransit
<1>5. UpToDate'
  <2> DEFINE w == Work(sent[taken'])
  <2>1. todo' = w /\ Len(w) \in Nat
    BY <1>1, <1>3, ReadingTypes, WorkItems, LenProperties
  <2> HIDE DEF w
  <2>2. Remains(w, w, 0)
    <3>1. 0 \in Nat /\ Len(w) = 0 + (Len(w) - 0) /\ \A i \in 1 .. Len(w) - 0 : w[0 + i] = w[0 + i]
      BY <2>1
    <3>2. \A i \in 1 .. 0 : w[i].does = "send"
      OBVIOUS
    <3> QED BY <3>1, <3>2 DEF Remains
  <2>3. Handled(sent, taken', 0, vertexes, logs)
    BY <1>1 DEF Reading, UpToDate
  <2>4. taken' # 0 /\ 0 \in 0 .. Len(w)
    BY <1>1, <2>1, ReadingTypes
  <2>5. Underway'
    BY <1>1, <2>1, <2>2, <2>3, <2>4 DEF Underway, w
  <2> QED BY <1>1, <2>5 DEF UpToDate
<1> QED BY <1>1, <1>4, <1>5 DEF Reading, WasRead, StatusesAreTakenWhole

-----------------------------------------------------------------------------
(* The handler is at an item of the status it took last. *)
LEMMA ItemAtHand ==
  ASSUME Types, Reading, pc = "working", todo # <<>>, Head(todo).does # "send"
  PROVE  /\ taken \in DOMAIN sent /\ Work(sent[taken]) \in Seq(Told)
         /\ \E k \in Nat : /\ k < Len(Work(sent[taken])) /\ k \in 0 .. Len(Work(sent[taken]))
                           /\ Head(todo) = Work(sent[taken])[k + 1]
                           /\ Remains(todo, Work(sent[taken]), k)
                           /\ Handled(sent, taken, k, vertexes, logs)
<1> DEFINE w == Work(sent[taken])
<1>1. taken # 0 /\ \E k \in 0 .. Len(w) : Remains(todo, w, k) /\ Handled(sent, taken, k, vertexes, logs)
  BY DEF Reading, UpToDate, Underway
<1>2. taken \in DOMAIN sent
  BY <1>1, ReadingTypes
<1>3. w \in Seq(Told)
  BY <1>2, ReadingTypes, WorkItems
<1> HIDE DEF w
<1>4. PICK k \in 0 .. Len(w) : Remains(todo, w, k) /\ Handled(sent, taken, k, vertexes, logs)
  BY <1>1
<1>5. k < Len(w) /\ Head(todo) = w[k + 1]
  BY <1>3, <1>4, NextItem, ReadingTypes
<1>6. k \in Nat
  OBVIOUS
<1> QED BY <1>2, <1>3, <1>4, <1>5, <1>6 DEF w

(* Once the item is handled, the handler is at the next. *)
LEMMA ItemReading ==
  ASSUME Types, Reading, pc = "working", todo # <<>>, Head(todo).does # "send",
         NEW es \in Seq(Events), ThenSend(es), UNCHANGED <<pc, statuses, sent, taken, read>>,
         NEW k \in 0 .. Len(Work(sent[taken])), Remains(todo, Work(sent[taken]), k),
         Handled(sent, taken, k + 1, vertexes', logs')
  PROVE  Reading'
<1> DEFINE w == Work(sent[taken])
<1>1. w \in Seq(Told)
  BY ItemAtHand
<1>2. k < Len(w) /\ Remains(todo', w, k + 1)
  <2> HIDE DEF w
  <2>1. k \in 0 .. Len(w) /\ Remains(todo, w, k)
    BY DEF w
  <2> QED BY <1>1, <2>1, AfterItem
<1>3. k + 1 \in 0 .. Len(w)
  <2> HIDE DEF w
  <2>1. Len(w) \in Nat /\ k \in Nat
    BY <1>1, LenProperties
  <2> QED BY ONLY <1>2, <2>1
<1>4. Underway'
  <2>1. taken # 0
    BY DEF Reading, UpToDate, Underway
  <2> QED BY <1>2, <1>3, <2>1 DEF Underway
<1>5. UpToDate'
  BY <1>4 DEF UpToDate
<1> QED BY <1>5 DEF Reading, InTransit, WasRead, StatusesAreTakenWhole

LEMMA VertexReading == Types /\ Reading /\ ProcessVertex => Reading'
<1> SUFFICES ASSUME Types, Reading, ProcessVertex PROVE Reading'
  OBVIOUS
<1> DEFINE v   == Head(todo).vertex
           new == Updated(vertexes[v], Head(todo).is)
           w   == Work(sent[taken])
<1>1. /\ pc = "working" /\ todo # <<>> /\ Head(todo).does = "vertex"
      /\ vertexes' = [vertexes EXCEPT ![v] = new] /\ ThenSend(EventsOf(v, vertexes[v], new))
      /\ UNCHANGED <<logs, pc, statuses, sent, taken, read>>
  BY DEF ProcessVertex, Doing
<1>2. EventsOf(v, vertexes[v], new) \in Seq(Events)
  <2>1. Head(todo) \in Items
    BY <1>1, ReadingTypes, HeadTailProperties
  <2>2. v \in Vertices /\ Head(todo).is \in Snapshot
    BY <1>1, <2>1 DEF Items, Told, Sends
  <2>3. vertexes[v] \in Held /\ (vertexes[v].completed => vertexes[v].started)
    BY <2>2, ReadingTypes DEF Types
  <2>4. new \in Held
    BY <2>2, <2>3, UpdatedFacts
  <2> HIDE DEF v, new
  <2> QED BY <2>2, <2>3, <2>4, EventsOfFacts
<1>3. /\ taken \in DOMAIN sent
      /\ \E k \in Nat : /\ k < Len(w) /\ k \in 0 .. Len(w) /\ Head(todo) = w[k + 1]
                        /\ Remains(todo, w, k) /\ Handled(sent, taken, k, vertexes, logs)
  BY <1>1, ItemAtHand
<1>4. PICK k \in Nat : /\ k < Len(w) /\ k \in 0 .. Len(w) /\ Head(todo) = w[k + 1]
                       /\ Remains(todo, w, k) /\ Handled(sent, taken, k, vertexes, logs)
  BY <1>3
<1>5. /\ k < Len(sent[taken].vertexes)
      /\ v = sent[taken].vertexes[k + 1].vertex /\ Head(todo).is = sent[taken].vertexes[k + 1].is
  <2>1. sent \in Seq(Statuses)
    BY ReadingTypes
  <2>2. \/ /\ k < Len(sent[taken].vertexes) /\ w[k + 1].vertex = sent[taken].vertexes[k + 1].vertex
           /\ w[k + 1].is = sent[taken].vertexes[k + 1].is
        \/ w[k + 1].does = "update" \/ w[k + 1].does = "log"
    BY <1>3, <1>4, <2>1, WorkItems
  <2> QED BY <1>1, <1>4, <2>2
<1>6. Handled(sent, taken, k + 1, vertexes', logs')
  <2> DEFINE x == sent[taken].vertexes[k + 1]
  <2>1. Handled(sent, taken, k + 1, [vertexes EXCEPT ![x.vertex] = Updated(vertexes[x.vertex], x.is)],
                logs)
    BY <1>3, <1>4, <1>5, VertexStep, ReadingTypes
  <2>2. vertexes' = [vertexes EXCEPT ![x.vertex] = Updated(vertexes[x.vertex], x.is)]
    BY <1>1, <1>5
  <2> QED BY <1>1, <2>1, <2>2
<1> HIDE DEF v, new
<1> QED BY <1>1, <1>2, <1>4, <1>6, ItemReading

LEMMA UpdateReading == Types /\ Reading /\ ProcessStatusUpdate => Reading'
<1> SUFFICES ASSUME Types, Reading, ProcessStatusUpdate PROVE Reading'
  OBVIOUS
<1> DEFINE es == Running(Head(todo).vertex)
           w  == Work(sent[taken])
<1>1. /\ pc = "working" /\ todo # <<>> /\ Head(todo).does = "update" /\ ThenSend(es)
      /\ UNCHANGED <<vertexes, logs, pc, statuses, sent, taken, read>>
  BY DEF ProcessStatusUpdate, Doing
<1>2. es \in Seq(Events)
  BY QuietItemFacts, RunningFacts
<1>3. /\ taken \in DOMAIN sent
      /\ \E k \in Nat : /\ k < Len(w) /\ k \in 0 .. Len(w) /\ Head(todo) = w[k + 1]
                        /\ Remains(todo, w, k) /\ Handled(sent, taken, k, vertexes, logs)
  BY <1>1, ItemAtHand
<1>4. PICK k \in Nat : /\ k < Len(w) /\ k \in 0 .. Len(w) /\ Head(todo) = w[k + 1]
                       /\ Remains(todo, w, k) /\ Handled(sent, taken, k, vertexes, logs)
  BY <1>3
<1>5. /\ Len(sent[taken].vertexes) <= k
      /\ k < Len(sent[taken].vertexes) + Len(sent[taken].updates)
  <2>1. sent \in Seq(Statuses)
    BY ReadingTypes
  <2>2. \/ w[k + 1].does = "vertex" \/ w[k + 1].does = "log"
        \/ /\ Len(sent[taken].vertexes) <= k
           /\ k < Len(sent[taken].vertexes) + Len(sent[taken].updates)
    BY <1>3, <1>4, <2>1, WorkItems
  <2> QED BY <1>1, <1>4, <2>2
<1>6. Handled(sent, taken, k + 1, vertexes', logs')
  BY <1>1, <1>3, <1>4, <1>5, UpdateStep, ReadingTypes
<1> HIDE DEF es
<1> QED BY <1>1, <1>2, <1>4, <1>6, ItemReading

(* A log finds its vertex known, so it is kept. *)
LEMMA LogReading == Types /\ Reading /\ ProcessLog => Reading'
<1> SUFFICES ASSUME Types, Reading, ProcessLog PROVE Reading'
  OBVIOUS
<1> DEFINE v  == Head(todo).vertex
           es == Running(v)
           w  == Work(sent[taken])
<1>1. /\ pc = "working" /\ todo # <<>> /\ Head(todo).does = "log" /\ ThenSend(es)
      /\ logs' = [logs EXCEPT ![v] = IF vertexes[v].known THEN logs[v] + 1 ELSE logs[v]]
      /\ UNCHANGED <<vertexes, pc, statuses, sent, taken, read>>
  BY DEF ProcessLog, Doing
<1>2. es \in Seq(Events)
  BY QuietItemFacts, RunningFacts
<1>3. /\ taken \in DOMAIN sent
      /\ \E k \in Nat : /\ k < Len(w) /\ k \in 0 .. Len(w) /\ Head(todo) = w[k + 1]
                        /\ Remains(todo, w, k) /\ Handled(sent, taken, k, vertexes, logs)
  BY <1>1, ItemAtHand
<1>4. PICK k \in Nat : /\ k < Len(w) /\ k \in 0 .. Len(w) /\ Head(todo) = w[k + 1]
                       /\ Remains(todo, w, k) /\ Handled(sent, taken, k, vertexes, logs)
  BY <1>3
<1>5. PICK l \in DOMAIN sent[taken].logs : LogAt(sent[taken], l) = k + 1 /\ v = sent[taken].logs[l]
  <2>1. sent \in Seq(Statuses)
    BY ReadingTypes
  <2> DEFINE l == k + 1 - Len(sent[taken].vertexes) - Len(sent[taken].updates)
  <2>2. \/ w[k + 1].does = "vertex" \/ w[k + 1].does = "update"
        \/ /\ l \in DOMAIN sent[taken].logs /\ LogAt(sent[taken], l) = k + 1
           /\ w[k + 1].vertex = sent[taken].logs[l]
    BY <1>3, <1>4, <2>1, WorkItems
  <2> HIDE DEF l
  <2>3. w[k + 1].does = "log" /\ w[k + 1].vertex = v
    BY <1>1, <1>4
  <2> QED BY <2>2, <2>3
<1>6. /\ vertexes[v].known
      /\ Handled(sent, taken, k + 1, vertexes, [logs EXCEPT ![v] = logs[v] + 1])
  <2>1. Handled(sent, taken, LogAt(sent[taken], l) - 1, vertexes, logs)
    <3>1. LogAt(sent[taken], l) - 1 = k
      BY <1>5
    <3> QED BY <1>4, <3>1
  <2>2. AnnouncedFirst(sent)
    BY DEF Reading
  <2> DEFINE x == sent[taken].logs[l]
  <2>3. /\ vertexes[x].known
        /\ Handled(sent, taken, LogAt(sent[taken], l), vertexes, [logs EXCEPT ![x] = logs[x] + 1])
    BY <1>3, <2>1, <2>2, LogStep, ReadingTypes
  <2> QED BY <1>5, <2>3
<1>7. Handled(sent, taken, k + 1, vertexes', logs')
  BY <1>1, <1>6
<1> HIDE DEF es
<1> QED BY <1>1, <1>2, <1>4, <1>7, ItemReading

LEMMA EventReading == Types /\ Reading /\ SendProgress => Reading'
<1> SUFFICES ASSUME Types, Reading, SendProgress PROVE Reading'
  OBVIOUS
<1> DEFINE w == Work(sent[taken])
<1>1. /\ pc = "working" /\ todo # <<>> /\ UNCHANGED <<vertexes, logs, pc, statuses, sent, taken, read>>
  BY DEF SendProgress, Doing
<1>2. /\ todo[1].does = "send" /\ Len(todo') = Len(todo) - 1
      /\ \A i \in 1 .. Len(todo') : todo'[i] = todo[i + 1]
  BY SendFacts
<1>3. taken # 0 /\ \E k \in 0 .. Len(w) : Remains(todo, w, k) /\ Handled(sent, taken, k, vertexes, logs)
  BY <1>1 DEF Reading, UpToDate, Underway
<1>4. taken \in DOMAIN sent
  BY <1>3, ReadingTypes
<1>5. w \in Seq(Told)
  BY <1>4, ReadingTypes, WorkItems
<1> HIDE DEF w
<1>6. PICK k \in 0 .. Len(w) : Remains(todo, w, k) /\ Handled(sent, taken, k, vertexes, logs)
  BY <1>3
<1>7. Remains(todo', w, k)
  BY <1>1, <1>2, <1>5, <1>6, AfterSend, ReadingTypes
<1>8. UpToDate'
  BY <1>1, <1>3, <1>6, <1>7 DEF UpToDate, Underway, w
<1> QED BY <1>1, <1>8 DEF Reading, InTransit, WasRead, StatusesAreTakenWhole

(* With nothing left to do the status is handled as a whole. *)
LEMMA FinishReading == Types /\ Reading /\ FinishStatus => Reading'
<1> SUFFICES ASSUME Types, Reading, FinishStatus PROVE Reading'
  OBVIOUS
<1> DEFINE w == Work(sent[taken])
           a == Len(sent[taken].vertexes)
           b == Len(sent[taken].updates)
           c == Len(sent[taken].logs)
<1>1. /\ pc = "working" /\ todo = <<>> /\ pc' = "select"
      /\ UNCHANGED <<vertexes, logs, statuses, sent, taken, read>>
  BY DEF FinishStatus, handler
<1>2. taken # 0 /\ \E k \in 0 .. Len(w) : Remains(todo, w, k) /\ Handled(sent, taken, k, vertexes, logs)
  BY <1>1 DEF Reading, UpToDate, Underway
<1>3. taken \in DOMAIN sent
  BY <1>2, ReadingTypes
<1>4. w \in Seq(Told) /\ Len(w) \in Nat /\ Len(w) = a + b + c
  BY <1>3, ReadingTypes, WorkItems, LenProperties
<1>5. LogAt(sent[taken], c) = a + b + c
  BY <1>3, ReadingTypes, LogAtFacts
<1> HIDE DEF w, a, b, c
<1>6. PICK k \in 0 .. Len(w) : Remains(todo, w, k) /\ Handled(sent, taken, k, vertexes, logs)
  BY <1>2
<1>7. k = Len(w)
  <2>1. PICK m \in Nat : Len(todo) = m + (Len(w) - k)
    BY <1>6 DEF Remains
  <2>2. Len(todo) = 0
    BY <1>1
  <2>3. k \in 0 .. Len(w)
    OBVIOUS
  <2> QED BY ONLY <1>4, <2>1, <2>2, <2>3
<1>8. Handled(sent, taken, LogAt(sent[taken], Len(sent[taken].logs)), vertexes, logs)
  BY <1>4, <1>5, <1>6, <1>7 DEF c
<1>9. Handled(sent, taken + 1, 0, vertexes, logs)
  BY <1>3, <1>8, WholeStatus, ReadingTypes
<1>10. UpToDate'
  BY <1>1, <1>9 DEF UpToDate
<1> QED BY <1>1, <1>10 DEF Reading, InTransit, WasRead, StatusesAreTakenWhole

(* A reader comes when no status is half handled. *)
LEMMA ReaderReading == Types /\ Reading /\ GetBuildStats => Reading'
<1> SUFFICES ASSUME Types, Reading, GetBuildStats PROVE Reading'
  OBVIOUS
<1>1. /\ pc # "working" /\ read' = Read(vertexes, logs, taken)
      /\ UNCHANGED <<vertexes, logs, todo, pc, statuses, sent, taken>>
  BY DEF GetBuildStats, handler
<1>2. Handled(sent, taken + 1, 0, vertexes, logs)
  BY <1>1 DEF Reading, UpToDate
<1>3. taken <= Len(sent) /\ taken \in 0 .. Len(sent)
  BY ReadingTypes
<1>4. Read(vertexes, logs, taken) = ReadOf(SubSeq(sent, 1, taken))
  BY <1>2, <1>3, ReadIsRight, ReadingTypes
<1>5. read'.after = taken
  BY <1>1 DEF Read
<1>6. WasRead'
  BY <1>1, <1>3, <1>4, <1>5 DEF WasRead, StatusesAreTakenWhole
<1>7. UpToDate'
  BY <1>1, <1>2 DEF UpToDate
<1> QED BY <1>1, <1>6, <1>7 DEF Reading, InTransit

LEMMA ReadingStep == Types /\ Reading /\ [Next]_vars => Reading'
<1> SUFFICES ASSUME Types, Reading, [Next]_vars PROVE Reading'
  OBVIOUS
<1>1. CASE CancelContext \/ ReceiveEvent \/ UNCHANGED vars
  <2>1. UNCHANGED <<vertexes, logs, todo, pc, statuses, sent, taken, read>>
    BY <1>1 DEF CancelContext, ReceiveEvent, vars, handler
  <2> QED BY <2>1 DEF Reading, InTransit, UpToDate, Underway, WasRead, StatusesAreTakenWhole
<1>2. CASE HandlerReturns
  <2>1. /\ pc = "select" /\ pc' = "done"
        /\ UNCHANGED <<vertexes, logs, todo, statuses, sent, taken, read>>
    BY <1>2 DEF HandlerReturns, handler
  <2>2. UpToDate'
    BY <2>1 DEF Reading, UpToDate
  <2> QED BY <2>1, <2>2 DEF Reading, InTransit, WasRead, StatusesAreTakenWhole
<1> QED BY <1>1, <1>2, SendReading, TakeReading, VertexReading, UpdateReading, LogReading,
           EventReading, FinishReading, ReaderReading DEF Next, Handle

(* Readers are told what the statuses handled by then say, all of them and  *)
(* nothing else, for any vertices, statuses, number of statuses and         *)
(* capacities: no status is seen half handled, no log is lost.              *)
THEOREM StatusesAreAlwaysTakenWhole == Spec => []StatusesAreTakenWhole
<1>1. Init => Types /\ Reading
  BY TypesInit, ReadingInit
<1>2. (Types /\ Reading) /\ [Next]_vars => (Types /\ Reading)'
  BY TypesStep, ReadingStep
<1>3. Types /\ Reading => StatusesAreTakenWhole
  BY DEF Reading, WasRead
<1> QED BY <1>1, <1>2, <1>3, PTL DEF Spec
=============================================================================
