--------------------------- MODULE BuildSessionProofs ---------------------------
(***************************************************************************)
(* Proofs about BuildSession: no progress event is lost, doubled or        *)
(* overtaken, and all are printed before a push or the result.             *)
(***************************************************************************)
EXTENDS BuildSession, SequenceTheorems, TLAPS

Upto(n) == [k \in 1..n |-> k]

(***************************************************************************)
(* Where the main goroutine is says how many events it has sent, whether   *)
(* the channel is closed, and what has become of the reporter.             *)
(***************************************************************************)
MainKnows ==
    /\ main \in {"new", "spawn"} => sent = 0 /\ ~closed /\ reporter = "absent"
    /\ main = "spawn" => ~quiet
    /\ main = "send" => sent + 1 < LastEvent /\ ~closed /\ ~quiet
    /\ main = "build" /\ ~quiet => sent + 1 = LastEvent /\ ~closed
    /\ main = "sendEnd" => sent + 1 = LastEvent /\ ~closed /\ ~quiet
    /\ main = "close" => sent = LastEvent /\ ~closed /\ ~quiet
    /\ main = "wait" => sent = LastEvent /\ ~quiet
    /\ main = "push" => sent = LastEvent /\ ~quiet /\ reporter = "done"
    /\ main = "closeBuilder" /\ ~quiet => sent = LastEvent /\ reporter = "done"

ReporterKnows ==
    /\ reporter = "print" => hand \in 1..LastEvent
    /\ reporter = "done" => channel = << >> /\ closed

Accounted == Stub \/ Capacity >= LastEvent => printed \o InHand \o channel = Upto(sent)

IInv == TypeOK /\ MainKnows /\ ReporterKnows /\ Accounted

-----------------------------------------------------------------------------
LEMMA UptoNext ==
    ASSUME NEW n \in Nat
    PROVE  Append(Upto(n), n + 1) = Upto(n + 1)
<1>1. Upto(n) \in Seq(Nat) /\ Upto(n + 1) \in Seq(Nat)
  BY DEF Upto
<1>2. Len(Upto(n)) = n /\ Len(Upto(n + 1)) = n + 1
  BY DEF Upto
<1>3. n + 1 \in Nat
  OBVIOUS
<1>4. /\ Append(Upto(n), n + 1) \in Seq(Nat)
      /\ Len(Append(Upto(n), n + 1)) = n + 1
      /\ \A k \in 1..n : Append(Upto(n), n + 1)[k] = Upto(n)[k]
      /\ Append(Upto(n), n + 1)[n + 1] = n + 1
  BY <1>1, <1>2, <1>3, AppendProperties
<1>5. \A k \in 1..(n + 1) : Append(Upto(n), n + 1)[k] = Upto(n + 1)[k]
  <2>1. (\A k \in 1..n : Upto(n)[k] = k) /\ (\A k \in 1..(n + 1) : Upto(n + 1)[k] = k)
    BY DEF Upto
  <2> QED
    BY <1>4, <2>1
<1> QED
  BY <1>1, <1>2, <1>4, <1>5, SeqEqual

(* The three moves of an event: into the channel, to the reporter, to the terminal. *)
LEMMA Sending ==
    ASSUME NEW S, NEW p \in Seq(S), NEW c \in Seq(S), NEW e \in S
    PROVE  p \o Append(c, e) = Append(p \o c, e)
<1>1. Append(c, e) = c \o <<e>> /\ <<e>> \in Seq(S)
  BY AppendIsConcat
<1>2. p \o c \in Seq(S)
  BY ConcatProperties
<1>3. Append(p \o c, e) = (p \o c) \o <<e>>
  BY <1>2, AppendIsConcat
<1> QED
  BY <1>1, <1>3, ConcatAssociative

LEMMA Moving ==
    ASSUME NEW S, NEW p \in Seq(S), NEW c \in Seq(S), c # << >>
    PROVE  (p \o << >>) \o c = (p \o <<Head(c)>>) \o Tail(c)
<1>1. Head(c) \in S /\ Tail(c) \in Seq(S)
  BY HeadTailProperties
<1>2. <<Head(c)>> \in Seq(S)
  BY <1>1
<1>3. p \o << >> = p
  BY ConcatEmptySeq
<1>4. c = <<Head(c)>> \o Tail(c)
  <2>1. Len(Tail(c)) = Len(c) - 1 /\ Len(c) \in Nat \ {0}
    BY HeadTailProperties, EmptySeq
  <2>2. \A k \in 1..Len(Tail(c)) : Tail(c)[k] = c[k + 1]
    BY HeadTailProperties
  <2>3. Len(<<Head(c)>>) = 1 /\ <<Head(c)>>[1] = c[1]
    OBVIOUS
  <2>4. /\ <<Head(c)>> \o Tail(c) \in Seq(S)
        /\ Len(<<Head(c)>> \o Tail(c)) = Len(c)
        /\ \A k \in 1..Len(c) : (<<Head(c)>> \o Tail(c))[k] =
               IF k <= 1 THEN <<Head(c)>>[k] ELSE Tail(c)[k - 1]
    BY <1>1, <1>2, <2>1, <2>3, ConcatProperties
  <2>5. \A k \in 1..Len(c) : c[k] = (<<Head(c)>> \o Tail(c))[k]
    BY <2>1, <2>2, <2>3, <2>4
  <2> QED
    BY <2>4, <2>5, SeqEqual
<1>5. (p \o <<Head(c)>>) \o Tail(c) = p \o (<<Head(c)>> \o Tail(c))
  BY <1>1, <1>2, ConcatAssociative
<1> QED
  BY <1>3, <1>4, <1>5

LEMMA Printing ==
    ASSUME NEW S, NEW p \in Seq(S), NEW e \in S
    PROVE  Append(p, e) \o << >> = p \o <<e>>
<1>1. Append(p, e) \in Seq(S)
  BY AppendProperties
<1> QED
  BY <1>1, ConcatEmptySeq, AppendIsConcat

-----------------------------------------------------------------------------
LEMMA TypeStep ==
    ASSUME IInv, [Next]_vars
    PROVE  TypeOK'
<1> USE DEF IInv
<1>1. CASE NewBuilder
  <2>1. opened' \in BOOLEAN
    BY <1>1, Zenon DEF NewBuilder, TypeOK
  <2>2. UNCHANGED <<quiet, sent, channel, closed, result, reporterVars, pushVars,
                    signalVars, cancelled>>
    BY <1>1 DEF NewBuilder
  <2>3. main' \in {"build", "spawn", "cancel"} /\ exit' \in {exit, "error"}
    BY <1>1 DEF NewBuilder
  <2> QED
    BY <2>1, <2>2, <2>3 DEF TypeOK, reporterVars, pushVars, signalVars
<1>2. CASE StartReporter
  BY <1>2 DEF StartReporter, TypeOK, buildVars, reporterVars, pushVars, signalVars
<1>3. CASE SendProgress
  <2>1. sent + 1 \in 1..LastEvent /\ sent' = sent + 1
    BY <1>3, SessionAssumption DEF SendProgress, Send, TypeOK, MainKnows, LastEvent
  <2>2. channel' \in Seq(1..LastEvent) /\ Len(channel') <= Capacity
    <3>1. CASE Len(channel) < Capacity
      <4>1. channel' = Append(channel, sent + 1)
        BY <1>3, <3>1 DEF SendProgress, Send
      <4> QED
        BY <2>1, <3>1, <4>1, AppendProperties, SessionAssumption DEF TypeOK
    <3>2. CASE ~(Len(channel) < Capacity)
      BY <1>3, <3>2 DEF SendProgress, Send, TypeOK
    <3> QED
      BY <3>1, <3>2
  <2>3. sent' \in 0..LastEvent
    BY <2>1, SessionAssumption DEF LastEvent
  <2> QED
    BY <1>3, <2>2, <2>3 DEF SendProgress, TypeOK, buildVars, reporterVars, pushVars, signalVars
<1>4. CASE SendEnd
  <2>1. sent + 1 \in 1..LastEvent /\ sent' = sent + 1
    BY <1>4, SessionAssumption DEF SendEnd, Send, TypeOK, MainKnows, LastEvent
  <2>2. channel' \in Seq(1..LastEvent) /\ Len(channel') <= Capacity
    <3>1. CASE Len(channel) < Capacity
      <4>1. channel' = Append(channel, sent + 1)
        BY <1>4, <3>1 DEF SendEnd, Send
      <4> QED
        BY <2>1, <3>1, <4>1, AppendProperties, SessionAssumption DEF TypeOK
    <3>2. CASE ~(Len(channel) < Capacity)
      BY <1>4, <3>2 DEF SendEnd, Send, TypeOK
    <3> QED
      BY <3>1, <3>2
  <2>3. sent' \in 0..LastEvent
    BY <2>1, SessionAssumption DEF LastEvent
  <2> QED
    BY <1>4, <2>2, <2>3 DEF SendEnd, TypeOK, buildVars, reporterVars, pushVars, signalVars
<1>5. CASE CloseChannel
  BY <1>5 DEF CloseChannel, TypeOK, buildVars, reporterVars, pushVars, signalVars
<1>6. CASE WaitForReporter
  BY <1>6 DEF WaitForReporter, TypeOK, buildVars, reporterVars, pushVars, signalVars
<1>7. CASE PrintResult
  BY <1>7 DEF PrintResult, TypeOK, buildVars, reporterVars, pushVars, signalVars
<1>8. CASE CloseBuilder
  <2>1. opened' \in BOOLEAN
    BY <1>8, Zenon DEF CloseBuilder
  <2>2. /\ main' = "cancel"
        /\ UNCHANGED <<quiet, sent, channel, closed, result, reporterVars, pushVars,
                       signalVars, cancelled, exit>>
    BY <1>8 DEF CloseBuilder
  <2> QED
    BY <2>1, <2>2 DEF TypeOK, reporterVars, pushVars, signalVars
<1>9. CASE CancelContext
  BY <1>9 DEF CancelContext, TypeOK, buildVars, reporterVars, pushVars, signalVars
<1>10. CASE BuildReturns
  BY <1>10 DEF BuildReturns, TypeOK, buildVars, reporterVars, pushVars, signalVars
<1>11. CASE PushTag
  <2>1. tag \in 1..Tags /\ tag + 1 \in 1..(Tags + 1)
    BY <1>11, SessionAssumption DEF PushTag, TypeOK
  <2>2. outcome' \in [1..Tags -> {"untried", "pushed", "failed", "cancelled"}]
    BY <1>11, <2>1 DEF PushTag, PushOutcomes, TypeOK
  <2>4. tag' = tag + 1
        /\ UNCHANGED <<quiet, main, buildVars, reporterVars, signalVars, cancelled, exit>>
    BY <1>11 DEF PushTag
  <2> QED
    BY <2>1, <2>2, <2>4 DEF TypeOK, buildVars, reporterVars, signalVars
<1>12. CASE Receive
  <2>1. hand' \in 0..LastEvent
    <3>1. channel \in Seq(1..LastEvent) /\ channel # << >> /\ hand' = Head(channel)
      BY <1>12 DEF Receive, TypeOK
    <3>2. Head(channel) \in 1..LastEvent
      BY <3>1, HeadTailProperties
    <3> QED
      BY <3>1, <3>2 DEF LastEvent
  <2>2. channel' \in Seq(1..LastEvent) /\ Len(channel') <= Capacity
    <3>1. Len(channel) \in Nat /\ Len(Tail(channel)) = Len(channel) - 1
          /\ Tail(channel) \in Seq(1..LastEvent)
      BY <1>12, HeadTailProperties DEF Receive, TypeOK
    <3> QED
      BY <1>12, <3>1, SessionAssumption DEF Receive, TypeOK
  <2>3. reporter' = "print"
        /\ UNCHANGED <<quiet, main, opened, sent, closed, result, printed, pushVars,
                       signalVars, cancelled, exit>>
    BY <1>12 DEF Receive
  <2> QED
    BY <2>1, <2>2, <2>3 DEF TypeOK, pushVars, signalVars
<1>13. CASE PrintEvent
  <2>1. printed' \in Seq(1..LastEvent)
    BY <1>13, AppendProperties DEF PrintEvent, TypeOK, ReporterKnows
  <2> QED
    BY <1>13, <2>1 DEF PrintEvent, TypeOK, buildVars, pushVars, signalVars
<1>14. CASE ReporterEnds
  BY <1>14 DEF ReporterEnds, TypeOK, buildVars, reporterVars, pushVars, signalVars
<1>15. CASE Signal
  <2>1. sigChan' \in BOOLEAN
    BY <1>15, Zenon DEF Signal
  <2>2. signals' \in 0..MaxSignals /\ UNCHANGED handler
    BY <1>15, SessionAssumption DEF Signal, TypeOK
  <2>3. UNCHANGED <<quiet, main, buildVars, reporterVars, pushVars, cancelled, exit>>
    BY <1>15 DEF Signal
  <2> QED
    BY <2>1, <2>2, <2>3 DEF TypeOK, buildVars, reporterVars, pushVars
<1>16. CASE PrintInterrupted
  <2>1. sigChan' \in BOOLEAN
    BY <1>16, Zenon DEF PrintInterrupted
  <2>2. handler' = "cancel" /\ UNCHANGED signals
    BY <1>16, SessionAssumption DEF PrintInterrupted, TypeOK
  <2>3. UNCHANGED <<quiet, main, buildVars, reporterVars, pushVars, cancelled, exit>>
    BY <1>16 DEF PrintInterrupted
  <2> QED
    BY <2>1, <2>2, <2>3 DEF TypeOK, buildVars, reporterVars, pushVars
<1>17. CASE CancelOnSignal
  BY <1>17 DEF CancelOnSignal, TypeOK, buildVars, reporterVars, pushVars, signalVars
<1>18. CASE UNCHANGED vars
  BY <1>18 DEF vars, TypeOK, buildVars, reporterVars, pushVars, signalVars
<1> QED
  BY <1>1, <1>2, <1>3, <1>4, <1>5, <1>6, <1>7, <1>8, <1>9, <1>10, <1>11, <1>12, <1>13, <1>14, <1>15, <1>16, <1>17, <1>18 DEF Next, Main, Reporter, Handler, Terminated

LEMMA MainStep ==
    ASSUME IInv, [Next]_vars
    PROVE  MainKnows'
<1> USE DEF IInv
<1>0. sent \in Nat /\ LastEvent \in {2, 6}
  BY DEF TypeOK, LastEvent
<1>1. CASE NewBuilder
  BY <1>1 DEF TypeOK, NewBuilder, MainKnows, buildVars, reporterVars, pushVars, signalVars
<1>2. CASE StartReporter
  BY <1>0, <1>2 DEF StartReporter, MainKnows, buildVars, reporterVars, pushVars, signalVars
<1>3. CASE SendProgress
  BY <1>0, <1>3 DEF SendProgress, Send, MainKnows, buildVars, reporterVars, pushVars, signalVars
<1>4. CASE SendEnd
  BY <1>0, <1>4 DEF SendEnd, Send, MainKnows, buildVars, reporterVars, pushVars, signalVars
<1>5. CASE CloseChannel
  BY <1>5 DEF CloseChannel, MainKnows, buildVars, reporterVars, pushVars, signalVars
<1>6. CASE WaitForReporter
  BY <1>6 DEF WaitForReporter, MainKnows, buildVars, reporterVars, pushVars, signalVars
<1>7. CASE PrintResult
  BY <1>7 DEF PrintResult, MainKnows, buildVars, reporterVars, pushVars, signalVars
<1>8. CASE CloseBuilder
  BY <1>8 DEF CloseBuilder, MainKnows, buildVars, reporterVars, pushVars, signalVars
<1>9. CASE CancelContext
  BY <1>9 DEF CancelContext, MainKnows, buildVars, reporterVars, pushVars, signalVars
<1>10. CASE BuildReturns
  BY <1>10 DEF BuildReturns, MainKnows, buildVars, reporterVars, pushVars, signalVars
<1>11. CASE PushTag
  BY <1>11 DEF PushTag, MainKnows, buildVars, reporterVars, pushVars, signalVars
<1>12. CASE Receive
  BY <1>12 DEF ReporterKnows, Receive, MainKnows, buildVars, reporterVars, pushVars, signalVars
<1>13. CASE PrintEvent
  BY <1>13 DEF ReporterKnows, PrintEvent, MainKnows, buildVars, reporterVars, pushVars, signalVars
<1>14. CASE ReporterEnds
  BY <1>14 DEF ReporterKnows, ReporterEnds, MainKnows, buildVars, reporterVars, pushVars, signalVars
<1>15. CASE Signal
  BY <1>15 DEF Signal, MainKnows, buildVars, reporterVars, pushVars, signalVars
<1>16. CASE PrintInterrupted
  BY <1>16 DEF PrintInterrupted, MainKnows, buildVars, reporterVars, pushVars, signalVars
<1>17. CASE CancelOnSignal
  BY <1>17 DEF CancelOnSignal, MainKnows, buildVars, reporterVars, pushVars, signalVars
<1>18. CASE UNCHANGED vars
  BY <1>18 DEF vars, MainKnows, buildVars, reporterVars, pushVars, signalVars
<1> QED
  BY <1>1, <1>2, <1>3, <1>4, <1>5, <1>6, <1>7, <1>8, <1>9, <1>10, <1>11, <1>12, <1>13, <1>14, <1>15, <1>16, <1>17, <1>18 DEF Next, Main, Reporter, Handler, Terminated

LEMMA ReporterStep ==
    ASSUME IInv, [Next]_vars
    PROVE  ReporterKnows'
<1> USE DEF IInv
<1>1. CASE NewBuilder
  BY <1>1 DEF NewBuilder, ReporterKnows, buildVars, reporterVars, pushVars, signalVars
<1>2. CASE StartReporter
  BY <1>2 DEF StartReporter, ReporterKnows, buildVars, reporterVars, pushVars, signalVars
<1>3. CASE SendProgress
  BY <1>3 DEF SendProgress, Send, MainKnows, ReporterKnows, buildVars, reporterVars, pushVars, signalVars
<1>4. CASE SendEnd
  BY <1>4 DEF SendEnd, Send, MainKnows, ReporterKnows, buildVars, reporterVars, pushVars, signalVars
<1>5. CASE CloseChannel
  BY <1>5 DEF CloseChannel, ReporterKnows, buildVars, reporterVars, pushVars, signalVars
<1>6. CASE WaitForReporter
  BY <1>6 DEF WaitForReporter, ReporterKnows, buildVars, reporterVars, pushVars, signalVars
<1>7. CASE PrintResult
  BY <1>7 DEF PrintResult, ReporterKnows, buildVars, reporterVars, pushVars, signalVars
<1>8. CASE CloseBuilder
  BY <1>8 DEF CloseBuilder, ReporterKnows, buildVars, reporterVars, pushVars, signalVars
<1>9. CASE CancelContext
  BY <1>9 DEF CancelContext, ReporterKnows, buildVars, reporterVars, pushVars, signalVars
<1>10. CASE BuildReturns
  BY <1>10 DEF BuildReturns, ReporterKnows, buildVars, reporterVars, pushVars, signalVars
<1>11. CASE PushTag
  BY <1>11 DEF PushTag, ReporterKnows, buildVars, reporterVars, pushVars, signalVars
<1>12. CASE Receive
  BY <1>12, HeadTailProperties DEF TypeOK, Receive, ReporterKnows, buildVars, reporterVars, pushVars, signalVars
<1>13. CASE PrintEvent
  BY <1>13 DEF PrintEvent, ReporterKnows, buildVars, reporterVars, pushVars, signalVars
<1>14. CASE ReporterEnds
  BY <1>14 DEF ReporterEnds, ReporterKnows, buildVars, reporterVars, pushVars, signalVars
<1>15. CASE Signal
  BY <1>15 DEF Signal, ReporterKnows, buildVars, reporterVars, pushVars, signalVars
<1>16. CASE PrintInterrupted
  BY <1>16 DEF PrintInterrupted, ReporterKnows, buildVars, reporterVars, pushVars, signalVars
<1>17. CASE CancelOnSignal
  BY <1>17 DEF CancelOnSignal, ReporterKnows, buildVars, reporterVars, pushVars, signalVars
<1>18. CASE UNCHANGED vars
  BY <1>18 DEF vars, ReporterKnows, buildVars, reporterVars, pushVars, signalVars
<1> QED
  BY <1>1, <1>2, <1>3, <1>4, <1>5, <1>6, <1>7, <1>8, <1>9, <1>10, <1>11, <1>12, <1>13, <1>14, <1>15, <1>16, <1>17, <1>18 DEF Next, Main, Reporter, Handler, Terminated

LEMMA HandType ==
    ASSUME ReporterKnows
    PROVE  InHand \in Seq(1..LastEvent)
<1>1. CASE reporter = "print"
  <2>1. hand \in 1..LastEvent
    BY <1>1 DEF ReporterKnows
  <2>2. <<hand>> \in Seq(1..LastEvent)
    BY <2>1
  <2> QED
    BY <1>1, <2>2 DEF InHand
<1>2. CASE reporter # "print"
  BY <1>2, EmptySeq DEF InHand
<1> QED
  BY <1>1, <1>2

(* A channel that holds all the events still has room for one that is not sent. *)
LEMMA SmallChannel ==
    ASSUME IInv, Stub \/ Capacity >= LastEvent, ~Stub, sent < LastEvent
    PROVE  Len(channel) < Capacity
<1> USE DEF IInv
<1>1. InHand \in Seq(1..LastEvent)
  BY HandType
<1>2. printed \o InHand \in Seq(1..LastEvent)
  BY <1>1, ConcatProperties DEF TypeOK
<1>3. Len(printed \o InHand \o channel) = Len(printed \o InHand) + Len(channel)
  BY <1>2, ConcatProperties DEF TypeOK
<1>4. Len(Upto(sent)) = sent
  BY DEF Upto, TypeOK
<1>5. Len(printed \o InHand) \in Nat /\ Len(channel) \in Nat /\ sent \in Nat
  BY <1>2 DEF TypeOK
<1> QED
  BY <1>3, <1>4, <1>5, SessionAssumption DEF Accounted, LastEvent

LEMMA AccountedStep ==
    ASSUME IInv, [Next]_vars
    PROVE  Accounted'
<1> USE DEF IInv
<1> SUFFICES ASSUME Stub \/ Capacity >= LastEvent
             PROVE  Accounted'
  BY DEF Accounted
<1>0. printed \o InHand \o channel = Upto(sent)
  BY DEF Accounted
<1>b. InHand \in Seq(1..LastEvent)
  BY HandType
<1>1. CASE NewBuilder
  BY <1>1 DEF NewBuilder, Accounted, InHand, buildVars, reporterVars, pushVars, signalVars
<1>2. CASE StartReporter
  <2>1. UNCHANGED <<printed, channel, sent>> /\ InHand' = << >> /\ InHand = << >>
    BY <1>2 DEF StartReporter, buildVars, InHand, MainKnows
  <2> QED
    BY <1>0, <2>1 DEF Accounted
<1>3. CASE SendProgress
  <2>1. Len(channel) < Capacity
    <3>1. sent < LastEvent
      BY <1>3 DEF SendProgress, MainKnows, TypeOK, LastEvent
    <3>2. Stub => Len(channel) < Capacity
      BY <1>3 DEF SendProgress, Send
    <3> QED
      BY <3>1, <3>2, SmallChannel
  <2>2. channel' = Append(channel, sent + 1) /\ sent' = sent + 1 /\ InHand' = InHand
        /\ printed' = printed
    BY <1>3, <2>1 DEF SendProgress, Send, InHand, reporterVars
  <2>3. (printed \o InHand) \o Append(channel, sent + 1) = Append(Upto(sent), sent + 1)
    <3>1. sent + 1 \in 1..LastEvent
      BY <1>3 DEF SendProgress, TypeOK, MainKnows, LastEvent
    <3>2. (printed \o InHand) \in Seq(1..LastEvent)
      BY <1>b, ConcatProperties DEF TypeOK
    <3>3. channel \in Seq(1..LastEvent)
      BY DEF TypeOK
    <3>4. (printed \o InHand) \o Append(channel, sent + 1)
              = Append((printed \o InHand) \o channel, sent + 1)
      BY <3>1, <3>2, <3>3, Sending
    <3> QED
      BY <1>0, <3>4
  <2>4. sent \in Nat
    BY DEF TypeOK
  <2>5. printed' \o InHand' \o channel' = Upto(sent')
    BY <2>2, <2>3, <2>4, UptoNext
  <2> QED
    BY <2>5 DEF Accounted
<1>4. CASE SendEnd
  <2>1. Len(channel) < Capacity
    <3>1. sent < LastEvent
      BY <1>4 DEF SendEnd, MainKnows, TypeOK, LastEvent
    <3>2. Stub => Len(channel) < Capacity
      BY <1>4 DEF SendEnd, Send
    <3> QED
      BY <3>1, <3>2, SmallChannel
  <2>2. channel' = Append(channel, sent + 1) /\ sent' = sent + 1 /\ InHand' = InHand
        /\ printed' = printed
    BY <1>4, <2>1 DEF SendEnd, Send, InHand, reporterVars
  <2>3. (printed \o InHand) \o Append(channel, sent + 1) = Append(Upto(sent), sent + 1)
    <3>1. sent + 1 \in 1..LastEvent
      BY <1>4 DEF SendEnd, TypeOK, MainKnows, LastEvent
    <3>2. (printed \o InHand) \in Seq(1..LastEvent)
      BY <1>b, ConcatProperties DEF TypeOK
    <3>3. channel \in Seq(1..LastEvent)
      BY DEF TypeOK
    <3>4. (printed \o InHand) \o Append(channel, sent + 1)
              = Append((printed \o InHand) \o channel, sent + 1)
      BY <3>1, <3>2, <3>3, Sending
    <3> QED
      BY <1>0, <3>4
  <2>4. sent \in Nat
    BY DEF TypeOK
  <2>5. printed' \o InHand' \o channel' = Upto(sent')
    BY <2>2, <2>3, <2>4, UptoNext
  <2> QED
    BY <2>5 DEF Accounted
<1>5. CASE CloseChannel
  BY <1>5 DEF CloseChannel, Accounted, InHand, buildVars, reporterVars, pushVars, signalVars
<1>6. CASE WaitForReporter
  BY <1>6 DEF WaitForReporter, Accounted, InHand, buildVars, reporterVars, pushVars, signalVars
<1>7. CASE PrintResult
  BY <1>7 DEF PrintResult, Accounted, InHand, buildVars, reporterVars, pushVars, signalVars
<1>8. CASE CloseBuilder
  BY <1>8 DEF CloseBuilder, Accounted, InHand, buildVars, reporterVars, pushVars, signalVars
<1>9. CASE CancelContext
  BY <1>9 DEF CancelContext, Accounted, InHand, buildVars, reporterVars, pushVars, signalVars
<1>10. CASE BuildReturns
  BY <1>10 DEF BuildReturns, Accounted, InHand, buildVars, reporterVars, pushVars, signalVars
<1>11. CASE PushTag
  BY <1>11 DEF PushTag, Accounted, InHand, buildVars, reporterVars, pushVars, signalVars
<1>12. CASE Receive
  <2>1. printed' = printed /\ InHand = << >> /\ InHand' = <<Head(channel)>>
        /\ channel' = Tail(channel) /\ sent' = sent /\ channel # << >>
    BY <1>12 DEF Receive, InHand
  <2>2. (printed \o << >>) \o channel = (printed \o <<Head(channel)>>) \o Tail(channel)
    BY <2>1, Moving DEF TypeOK
  <2> QED
    BY <1>0, <2>1, <2>2 DEF Accounted
<1>13. CASE PrintEvent
  <2>1. printed' = Append(printed, hand) /\ InHand = <<hand>> /\ InHand' = << >>
        /\ channel' = channel /\ sent' = sent /\ hand \in 1..LastEvent
    BY <1>13 DEF PrintEvent, InHand, buildVars, ReporterKnows
  <2>2. Append(printed, hand) \o << >> = printed \o <<hand>>
    BY <2>1, Printing DEF TypeOK
  <2> QED
    BY <1>0, <2>1, <2>2 DEF Accounted
<1>14. CASE ReporterEnds
  <2>1. UNCHANGED <<printed, channel, sent>> /\ InHand' = << >> /\ InHand = << >>
    BY <1>14 DEF ReporterEnds, buildVars, InHand
  <2> QED
    BY <1>0, <2>1 DEF Accounted
<1>15. CASE Signal
  BY <1>15 DEF Signal, Accounted, InHand, buildVars, reporterVars, pushVars, signalVars
<1>16. CASE PrintInterrupted
  BY <1>16 DEF PrintInterrupted, Accounted, InHand, buildVars, reporterVars, pushVars, signalVars
<1>17. CASE CancelOnSignal
  BY <1>17 DEF CancelOnSignal, Accounted, InHand, buildVars, reporterVars, pushVars, signalVars
<1>18. CASE UNCHANGED vars
  BY <1>18 DEF vars, Accounted, InHand, buildVars, reporterVars, pushVars, signalVars
<1> QED
  BY <1>1, <1>2, <1>3, <1>4, <1>5, <1>6, <1>7, <1>8, <1>9, <1>10, <1>11, <1>12, <1>13, <1>14, <1>15, <1>16, <1>17, <1>18 DEF Next, Main, Reporter, Handler, Terminated

-----------------------------------------------------------------------------
(***************************************************************************)
(* The inductive invariant holds in every reachable state.                 *)
(***************************************************************************)
THEOREM Invariance == Spec => []IInv
<1>1. Init => IInv
  <2> SUFFICES ASSUME Init PROVE IInv
    OBVIOUS
  <2>1. TypeOK
    <3>1. << >> \in Seq(1..LastEvent) /\ Len(<< >>) = 0
      BY EmptySeq
    <3>2. opened \in BOOLEAN /\ closed \in BOOLEAN /\ sigChan \in BOOLEAN /\ cancelled \in BOOLEAN
      BY Zenon DEF Init
    <3>3. 0 \in 0..LastEvent /\ 0 <= Capacity /\ 1 \in 1..(Tags + 1) /\ 0 \in 0..MaxSignals
      BY SessionAssumption DEF LastEvent
    <3> QED
      BY <3>1, <3>2, <3>3 DEF Init, TypeOK
  <2>2. MainKnows /\ ReporterKnows
    BY DEF Init, MainKnows, ReporterKnows
  <2>3. Accounted
    <3>1. printed = << >> /\ InHand = << >> /\ channel = << >> /\ sent = 0
      BY DEF Init, InHand
    <3>2. << >> \o << >> \o << >> = << >>
      BY EmptySeq, ConcatEmptySeq
    <3>3. Upto(0) = << >>
      BY DEF Upto
    <3> QED
      BY <3>1, <3>2, <3>3 DEF Accounted
  <2> QED
    BY <2>1, <2>2, <2>3 DEF IInv
<1>2. IInv /\ [Next]_vars => IInv'
  BY TypeStep, MainStep, ReporterStep, AccountedStep DEF IInv
<1> QED
  BY <1>1, <1>2, PTL DEF Spec

(***************************************************************************)
(* The variables of the command keep their types: the progress channel     *)
(* never holds more than its capacity.                                     *)
(***************************************************************************)
THEOREM TypeCorrect == Spec => []TypeOK
<1>1. IInv => TypeOK
  BY DEF IInv
<1> QED
  BY <1>1, Invariance, PTL

(***************************************************************************)
(* No progress event is lost, doubled or overtaken on its way through the  *)
(* channel, for every capacity that holds the events of the Linux builder  *)
(* and for every capacity with the stub.                                   *)
(***************************************************************************)
THEOREM NoEventIsLost == Spec => []EventsAccounted
<1>1. IInv => EventsAccounted
  BY DEF IInv, Accounted, EventsAccounted, Upto
<1> QED
  BY <1>1, Invariance, PTL

(***************************************************************************)
(* All events are printed before executeBuild pushes or returns.           *)
(***************************************************************************)
THEOREM AllPrintedBeforeTheResult == Spec => []ResultComesLast
<1>1. IInv => ResultComesLast
  <2> SUFFICES ASSUME IInv, Stub \/ Capacity >= LastEvent, ~quiet,
                      main \in {"push", "closeBuilder"}
               PROVE  printed = Upto(LastEvent)
    BY DEF ResultComesLast, Upto
  <2>1. sent = LastEvent /\ channel = << >> /\ InHand = << >>
    BY DEF IInv, MainKnows, ReporterKnows, InHand
  <2>2. printed \o << >> \o << >> = printed
    BY ConcatEmptySeq DEF IInv, TypeOK
  <2> QED
    BY <2>1, <2>2 DEF IInv, Accounted
<1> QED
  BY <1>1, Invariance, PTL

(***************************************************************************)
(* The reporter shows the whole build, in order, before the result.        *)
(***************************************************************************)
THEOREM ReporterShowsTheBuild == Spec => []EventsAreShown
<1>1. EventsAccounted /\ ResultComesLast => EventsAreShown
  BY DEF EventsAreShown
<1> QED
  BY <1>1, NoEventIsLost, AllPrintedBeforeTheResult, PTL

-----------------------------------------------------------------------------
(***************************************************************************)
(* The tags before the next one to push, and no others, have an outcome,   *)
(* and only behind a build that succeeded; success is reported behind the  *)
(* last.  Before the command returns only a signal cancels the context.    *)
(***************************************************************************)
TagsInv ==
    /\ \A t \in 1..Tags : outcome[t] = "untried" <=> t >= tag
    /\ \A t \in 1..Tags : outcome[t] = "cancelled" => cancelled /\ handler = "returned"
    /\ \A t, u \in 1..Tags : t < u /\ outcome[t] = "cancelled" => outcome[u] \in {"untried", "cancelled"}
    /\ main = "push" \/ tag > 1 => result = "ok"
    /\ tag > 1 => main \in {"push", "closeBuilder", "cancel", "exited"}
    /\ exit = "ok" /\ ~quiet => tag > Tags
    /\ cancelled => handler = "returned" \/ main = "exited"

LEMMA TagsStep ==
    ASSUME TypeOK, TagsInv, [Next]_vars
    PROVE  TagsInv'
<1> USE DEF TagsInv
<1>1. CASE PushTag
  <2>1. /\ tag \in 1..Tags /\ tag' = tag + 1 /\ main = "push"
        /\ UNCHANGED <<quiet, exit, main, result, cancelled, handler>>
    BY <1>1, SessionAssumption DEF PushTag, TypeOK, buildVars, signalVars
  <2>2. exit # "ok" \/ quiet
    <3>1. ~(tag > Tags)
      BY <2>1, SessionAssumption
    <3> QED
      BY <3>1, Zenon DEF TagsInv
  <2>3. PICK o \in PushOutcomes : outcome' = [outcome EXCEPT ![tag] = o]
    BY <1>1 DEF PushTag
  <2>4. /\ o \in {"pushed", "failed", "cancelled"}
        /\ o = "cancelled" <=> cancelled
        /\ outcome'[tag] = o
        /\ \A t \in 1..Tags : t # tag => outcome'[t] = outcome[t]
    BY <2>1, <2>3 DEF PushOutcomes, TypeOK
  <2>5. \A t \in 1..Tags : outcome'[t] = "untried" <=> t >= tag'
    BY <2>1, <2>4, SessionAssumption
  <2>6. \A t \in 1..Tags : outcome'[t] = "cancelled" => cancelled' /\ handler' = "returned"
    BY <2>1, <2>4
  <2>7. ASSUME NEW t \in 1..Tags, NEW u \in 1..Tags, t < u, outcome'[t] = "cancelled"
        PROVE  outcome'[u] \in {"untried", "cancelled"}
    <3>1. cancelled
      BY <2>1, <2>6, <2>7
    <3>2. CASE u = tag
      BY <2>4, <3>1, <3>2
    <3>3. CASE u < tag
      BY <2>1, <2>4, <2>7, <3>3, SessionAssumption
    <3>4. CASE u > tag
      BY <2>1, <2>4, <3>4, SessionAssumption
    <3> QED
      BY <2>1, <3>2, <3>3, <3>4, SessionAssumption
  <2> QED
    BY <2>1, <2>2, <2>5, <2>6, <2>7
<1>2. CASE PrintResult
  BY <1>2 DEF PrintResult, buildVars, pushVars, signalVars
<1>3. CASE BuildReturns
  BY <1>3 DEF BuildReturns, pushVars, signalVars
<1>4. CASE WaitForReporter
  BY <1>4 DEF WaitForReporter, buildVars, pushVars, signalVars
<1>5. CASE CancelContext \/ CancelOnSignal
  BY <1>5 DEF CancelContext, CancelOnSignal, Running, buildVars, pushVars, signalVars
<1>6. CASE [Next]_vars /\ ~PushTag /\ ~PrintResult /\ ~BuildReturns /\ ~WaitForReporter
                /\ ~CancelContext /\ ~CancelOnSignal
  <2>1. /\ UNCHANGED <<tag, outcome, quiet, result, cancelled>> /\ exit' \in {exit, "error"}
        /\ main = "closeBuilder" => main' \in {"closeBuilder", "cancel"}
        /\ main \in {"push", "cancel", "exited"} => main' = main
        /\ main' \in {"push", "exited"} => main' = main
        /\ handler' = handler \/ handler = "waiting"
    BY <1>6
       DEF Next, Main, Reporter, Handler, Terminated, NewBuilder, StartReporter, SendProgress,
           SendEnd, CloseChannel, CloseBuilder, Receive, PrintEvent, ReporterEnds, Signal,
           PrintInterrupted, buildVars, pushVars, signalVars, vars
  <2> QED
    BY <2>1
<1> QED
  BY <1>1, <1>2, <1>3, <1>4, <1>5, <1>6

(***************************************************************************)
(* The build command pushes its tags, however many, in order and behind a  *)
(* build that succeeded; it reports success behind the last, whatever      *)
(* became of the others; and it gives a tag up as cancelled only after a   *)
(* signal, and then those that follow too.                                 *)
(***************************************************************************)
THEOREM EveryTagIsTried == Spec => []TagsAreTried
<1>1. Init => TagsInv
  BY SessionAssumption DEF Init, TagsInv
<1>2. TypeOK /\ TagsInv /\ [Next]_vars => TagsInv'
  BY TagsStep
<1>3. TypeOK /\ TagsInv => TagsAreTried
  <2> SUFFICES ASSUME TypeOK, TagsInv
               PROVE  TagsAreTried
    OBVIOUS
  <2>1. tag \in Nat /\ Tags \in Nat
    BY SessionAssumption DEF TypeOK
  <2>2. \A t \in 1..Tags : outcome[t] # "untried" => t < tag /\ tag > 1
    BY <2>1 DEF TagsInv
  <2>3. \A t \in 1..Tags : tag > Tags => outcome[t] # "untried"
    BY <2>1 DEF TagsInv
  <2>4. \A t, u \in 1..Tags : t < u /\ outcome[u] # "untried" => outcome[t] # "untried"
    BY <2>1 DEF TagsInv
  <2> QED
    BY <2>2, <2>3, <2>4 DEF TagsInv, TagsAreTried
<1> QED
  BY <1>1, <1>2, <1>3, TypeCorrect, PTL DEF Spec
===============================================================================
