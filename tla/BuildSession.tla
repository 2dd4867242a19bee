----------------------------- MODULE BuildSession -----------------------------
(***************************************************************************)
(* One run of the build command (cmd/shmocker/main.go): the main           *)
(* goroutine, which builds and pushes; the goroutine that prints progress; *)
(* and the one that waits for a signal.  They share the progress channel,  *)
(* the done channel, the signal channel and the context.                   *)
(*                                                                         *)
(* The builder is that of Linux (builder.go) or the stub of the other      *)
(* systems (builder_stub.go): the first skips an event that finds the      *)
(* channel full, the second waits.                                         *)
(***************************************************************************)
EXTENDS Naturals, Sequences

CONSTANTS
    Stub,       \* the builder is builder_stub.go's
    Capacity,   \* of the progress channel, 100 in the code
    Tags,       \* how many tags of the request name a registry
    MaxSignals  \* bound on the signals the user sends

ASSUME SessionAssumption ==
    /\ Stub \in BOOLEAN
    /\ Capacity \in Nat \ {0}
    /\ Tags \in Nat
    /\ MaxSignals \in Nat

(* Progress events, numbered: the start, the stub's four steps, the end. *)
LastEvent == IF Stub THEN 6 ELSE 2

VARIABLES
    quiet,      \* the --quiet flag
    main,       \* where the main goroutine is
    opened,     \* the builder is created and not closed
    sent,       \* the events BuildWithProgress has sent or skipped
    channel,    \* progressChan
    closed,     \* close(progressChan) was called
    reporter,   \* where the progress goroutine is
    hand,       \* the event it received last
    printed,    \* the events it printed
    result,     \* what the build returned
    tag,        \* the tag to push next
    outcome,    \* what became of each tag
    signals,    \* how many signals were sent
    sigChan,    \* sigChan holds a signal
    handler,    \* where the signal goroutine is
    cancelled,  \* the context is cancelled
    exit        \* what executeBuild returned

buildVars    == <<opened, sent, channel, closed, result>>
reporterVars == <<reporter, hand, printed>>
pushVars     == <<tag, outcome>>
signalVars   == <<signals, sigChan, handler>>
vars == <<quiet, main, buildVars, reporterVars, pushVars, signalVars, cancelled, exit>>

Running == main # "exited"

Init ==
    /\ quiet \in BOOLEAN
    /\ main = "new" /\ opened = FALSE
    /\ sent = 0 /\ channel = << >> /\ closed = FALSE
    /\ reporter = "absent" /\ hand = 0 /\ printed = << >>
    /\ result = "none"
    /\ tag = 1 /\ outcome = [t \in 1..Tags |-> "untried"]
    /\ signals = 0 /\ sigChan = FALSE /\ handler = "waiting"
    /\ cancelled = FALSE /\ exit = "none"

-----------------------------------------------------------------------------
(***************************************************************************)
(* The main goroutine.                                                     *)
(***************************************************************************)
NewBuilder ==
    /\ main = "new"
    /\ \/ /\ opened' = TRUE
          /\ main' = IF quiet THEN "build" ELSE "spawn"
          /\ UNCHANGED exit
       \/ /\ main' = "cancel" /\ exit' = "error"
          /\ UNCHANGED opened
    /\ UNCHANGED <<quiet, sent, channel, closed, result, reporterVars, pushVars,
                   signalVars, cancelled>>

StartReporter ==
    /\ main = "spawn"
    /\ reporter' = "receive"
    /\ main' = "send"
    /\ UNCHANGED <<quiet, buildVars, hand, printed, pushVars, signalVars, cancelled, exit>>

(* Mutant: the stub skips an event that finds the channel full. *)
SendOrSkip ==
    /\ sent' = sent + 1
    /\ channel' = IF Len(channel) < Capacity THEN Append(channel, sent + 1) ELSE channel

Send ==
    /\ Stub => Len(channel) < Capacity
    /\ sent' = sent + 1
    /\ channel' = IF Len(channel) < Capacity THEN Append(channel, sent + 1) ELSE channel

(* Mutant: one step too many is reported. *)
SendOneMore ==
    /\ main = "send"
    /\ Send
    /\ main' = IF sent + 1 = LastEvent THEN "build" ELSE "send"
    /\ UNCHANGED <<quiet, opened, closed, result, reporterVars, pushVars, signalVars,
                   cancelled, exit>>

SendProgress ==
    /\ main = "send"
    /\ Send
    /\ main' = IF sent + 2 = LastEvent THEN "build" ELSE "send"
    /\ UNCHANGED <<quiet, opened, closed, result, reporterVars, pushVars, signalVars,
                   cancelled, exit>>

(***************************************************************************)
(* Builder.Build.  It may take for ever; when the context is cancelled it  *)
(* returns.                                                                *)
(***************************************************************************)
BuildReturns ==
    /\ main = "build"
    /\ result' \in {"ok", "error"}
    /\ IF quiet THEN main' = "closeBuilder" /\ exit' = result'
       ELSE main' = "sendEnd" /\ UNCHANGED exit
    /\ UNCHANGED <<quiet, opened, sent, channel, closed, reporterVars, pushVars,
                   signalVars, cancelled>>

SendEnd ==
    /\ main = "sendEnd"
    /\ Send
    /\ main' = "close"
    /\ UNCHANGED <<quiet, opened, closed, result, reporterVars, pushVars, signalVars,
                   cancelled, exit>>

CloseChannel ==
    /\ main = "close"
    /\ closed' = TRUE
    /\ main' = "wait"
    /\ UNCHANGED <<quiet, opened, sent, channel, result, reporterVars, pushVars,
                   signalVars, cancelled, exit>>

(* Mutant: a build that failed is pushed too. *)
PushAnyway ==
    /\ main = "wait" /\ reporter = "done"
    /\ main' = "push"
    /\ UNCHANGED <<quiet, buildVars, reporterVars, pushVars, signalVars, cancelled, exit>>

(* Mutant: nobody waits for the reporter. *)
DontWait ==
    /\ main = "wait"
    /\ IF result = "ok" THEN main' = "push" /\ UNCHANGED exit
       ELSE main' = "closeBuilder" /\ exit' = "error"
    /\ UNCHANGED <<quiet, buildVars, reporterVars, pushVars, signalVars, cancelled>>

WaitForReporter ==
    /\ main = "wait" /\ reporter = "done"
    /\ IF result = "ok" THEN main' = "push" /\ UNCHANGED exit
       ELSE main' = "closeBuilder" /\ exit' = "error"
    /\ UNCHANGED <<quiet, buildVars, reporterVars, pushVars, signalVars, cancelled>>

(* Once the context is cancelled every request fails. *)
PushOutcomes == IF cancelled THEN {"cancelled"} ELSE {"pushed", "failed"}

(* Mutant: the tags after one that fails are not tried. *)
PushUntilFailure ==
    /\ main = "push" /\ tag <= Tags
    /\ \E o \in PushOutcomes :
           /\ outcome' = [outcome EXCEPT ![tag] = o]
           /\ tag' = IF o = "pushed" THEN tag + 1 ELSE Tags + 1
    /\ UNCHANGED <<quiet, main, buildVars, reporterVars, signalVars, cancelled, exit>>

(* A tag is pushed, or a warning printed with the cause. *)
PushTag ==
    /\ main = "push" /\ tag <= Tags
    /\ \E o \in PushOutcomes : outcome' = [outcome EXCEPT ![tag] = o]
    /\ tag' = tag + 1
    /\ UNCHANGED <<quiet, main, buildVars, reporterVars, signalVars, cancelled, exit>>

PrintResult ==
    /\ main = "push" /\ tag > Tags
    /\ main' = "closeBuilder" /\ exit' = "ok"
    /\ UNCHANGED <<quiet, buildVars, reporterVars, pushVars, signalVars, cancelled>>

(* The deferred calls. *)
CloseBuilder ==
    /\ main = "closeBuilder"
    /\ opened' = FALSE
    /\ main' = "cancel"
    /\ UNCHANGED <<quiet, sent, channel, closed, result, reporterVars, pushVars,
                   signalVars, cancelled, exit>>

CancelContext ==
    /\ main = "cancel"
    /\ cancelled' = TRUE
    /\ main' = "exited"
    /\ UNCHANGED <<quiet, buildVars, reporterVars, pushVars, signalVars, exit>>

-----------------------------------------------------------------------------
(***************************************************************************)
(* reportProgress, on its own goroutine.                                   *)
(***************************************************************************)
Receive ==
    /\ Running /\ reporter = "receive" /\ channel # << >>
    /\ hand' = Head(channel) /\ channel' = Tail(channel)
    /\ reporter' = "print"
    /\ UNCHANGED <<quiet, main, opened, sent, closed, result, printed, pushVars,
                   signalVars, cancelled, exit>>

PrintEvent ==
    /\ Running /\ reporter = "print"
    /\ printed' = Append(printed, hand)
    /\ reporter' = "receive"
    /\ UNCHANGED <<quiet, main, buildVars, hand, pushVars, signalVars, cancelled, exit>>

(* Mutant: the reporter stops at the close and leaves what is buffered. *)
StopAtClose ==
    /\ Running /\ reporter = "receive" /\ closed
    /\ reporter' = "done"
    /\ UNCHANGED <<quiet, main, buildVars, hand, printed, pushVars, signalVars,
                   cancelled, exit>>

ReporterEnds ==
    /\ Running /\ reporter = "receive" /\ channel = << >> /\ closed
    /\ reporter' = "done"
    /\ UNCHANGED <<quiet, main, buildVars, hand, printed, pushVars, signalVars,
                   cancelled, exit>>

-----------------------------------------------------------------------------
(***************************************************************************)
(* Signals.  The runtime does not wait to deliver one: sigChan holds one   *)
(* and the next is dropped.  The goroutine takes one and is gone.          *)
(***************************************************************************)
Signal ==
    /\ Running /\ signals < MaxSignals
    /\ signals' = signals + 1
    /\ sigChan' = TRUE
    /\ UNCHANGED <<quiet, main, buildVars, reporterVars, pushVars, handler, cancelled, exit>>

PrintInterrupted ==
    /\ Running /\ handler = "waiting" /\ sigChan
    /\ sigChan' = FALSE
    /\ handler' = "cancel"
    /\ UNCHANGED <<quiet, main, buildVars, reporterVars, pushVars, signals, cancelled, exit>>

(* Mutant: the signal is only printed. *)
OnlyPrintSignal ==
    /\ Running /\ handler = "cancel"
    /\ handler' = "returned"
    /\ UNCHANGED <<quiet, main, buildVars, reporterVars, pushVars, signals, sigChan,
                   cancelled, exit>>

CancelOnSignal ==
    /\ Running /\ handler = "cancel"
    /\ cancelled' = TRUE
    /\ handler' = "returned"
    /\ UNCHANGED <<quiet, main, buildVars, reporterVars, pushVars, signals, sigChan, exit>>

-----------------------------------------------------------------------------
Terminated == ~Running /\ UNCHANGED vars

Main     == \/ NewBuilder \/ StartReporter \/ SendProgress \/ SendEnd \/ CloseChannel
            \/ WaitForReporter \/ PrintResult \/ CloseBuilder \/ CancelContext
Reporter == Receive \/ PrintEvent \/ ReporterEnds
Handler  == PrintInterrupted \/ CancelOnSignal
Next == Main \/ BuildReturns \/ PushTag \/ Reporter \/ Signal \/ Handler \/ Terminated

Spec == Init /\ [][Next]_vars

(***************************************************************************)
(* The goroutines are scheduled fairly.  A build and a push may take for   *)
(* ever, but not with a cancelled context.                                 *)
(***************************************************************************)
FairSpec ==
    /\ Spec
    /\ WF_vars(Main) /\ WF_vars(Reporter) /\ WF_vars(Handler)
    /\ WF_vars(cancelled /\ BuildReturns) /\ WF_vars(cancelled /\ PushTag)

-----------------------------------------------------------------------------
(***************************************************************************)
(* Properties                                                              *)
(***************************************************************************)
TypeOK ==
    /\ quiet \in BOOLEAN
    /\ main \in {"new", "spawn", "send", "build", "sendEnd", "close", "wait", "push",
                 "closeBuilder", "cancel", "exited"}
    /\ opened \in BOOLEAN
    /\ sent \in 0..LastEvent
    /\ channel \in Seq(1..LastEvent) /\ Len(channel) <= Capacity
    /\ closed \in BOOLEAN
    /\ reporter \in {"absent", "receive", "print", "done"}
    /\ hand \in 0..LastEvent
    /\ printed \in Seq(1..LastEvent)
    /\ result \in {"none", "ok", "error"}
    /\ tag \in 1..(Tags + 1)
    /\ outcome \in [1..Tags -> {"untried", "pushed", "failed", "cancelled"}]
    /\ signals \in 0..MaxSignals
    /\ sigChan \in BOOLEAN
    /\ handler \in {"waiting", "cancel", "returned"}
    /\ cancelled \in BOOLEAN
    /\ exit \in {"none", "ok", "error"}

InHand == IF reporter = "print" THEN <<hand>> ELSE << >>

(***************************************************************************)
(* What was printed, what the reporter holds and what the channel holds    *)
(* are together the events sent, in order: none is lost, doubled or        *)
(* overtaken.  The Linux builder, which skips events, needs a channel that *)
(* holds all of its two; the stub does not.                                *)
(***************************************************************************)
EventsAccounted ==
    Stub \/ Capacity >= LastEvent =>
        printed \o InHand \o channel = [k \in 1..sent |-> k]

(***************************************************************************)
(* A push begins, and the command returns, only when every event of the    *)
(* build is printed: the user never sees an event after the result.        *)
(***************************************************************************)
ResultComesLast ==
    (Stub \/ Capacity >= LastEvent) /\ ~quiet /\ opened
        /\ main \in {"push", "closeBuilder"} =>
            printed = [k \in 1..LastEvent |-> k]

(***************************************************************************)
(* What the reporter shows is the whole build, in order, before its result. *)
(***************************************************************************)
EventsAreShown == EventsAccounted /\ ResultComesLast

(***************************************************************************)
(* A signal ends the command, wherever it finds it: the builder, the       *)
(* reporter and the main goroutine never wait for one another for ever.    *)
(***************************************************************************)
InterruptEnds == signals > 0 ~> ~Running

(***************************************************************************)
(* The tags are tried in order, only after a build that succeeded and, by  *)
(* a command that reports success and is not quiet, all of them: a failure *)
(* does not hide the tags after it.  A tag is given up as cancelled only   *)
(* when a signal was taken, and so are then all that follow; the command   *)
(* reports success all the same.  A quiet one returns before the pushes.   *)
(***************************************************************************)
TagsAreTried ==
    /\ \A t \in 1..Tags :
           /\ outcome[t] # "untried" => result = "ok"
           /\ outcome[t] = "cancelled" => handler = "returned"
           /\ exit = "ok" /\ ~quiet => outcome[t] # "untried"
    /\ \A t, u \in 1..Tags : t < u =>
           /\ outcome[u] # "untried" => outcome[t] # "untried"
           /\ outcome[t] = "cancelled" => outcome[u] \in {"untried", "cancelled"}
=============================================================================
