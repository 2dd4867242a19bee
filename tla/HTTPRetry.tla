------------------------------ MODULE HTTPRetry ------------------------------
(***************************************************************************)
(* RetryableHTTPClient.Do of pkg/registry/retry.go: the retry loop around  *)
(* one HTTP request.  Every attempt sends a clone of the request, and the  *)
(* clones share one body reader, so what an attempt read of the body is    *)
(* gone for the next.  The loop itself is Retry, unchanged; it is still    *)
(* run with any other operation too.                                       *)
(***************************************************************************)
EXTENDS Retry

CONSTANTS BodyLen,         \* parts of the request's body
          Statuses,        \* HTTP status codes the server may answer
          TransportErrors  \* the errors of http.Client.Do

IsHTTPRetryable(status) == status \in {429, 500, 502, 503, 504}

(* WrapHTTPError marks the error for the loop. *)
WrapHTTPError(status) ==
  [ctx     |-> FALSE,
   wrapped |-> IF IsHTTPRetryable(status) THEN "retryable" ELSE "final",
   net     |-> "no",
   text    |-> FALSE]

(* The operation of the loop fails with one of these. *)
ASSUME HTTPAssumption ==
  /\ BodyLen \in Nat \ {0}
  /\ Statuses \subseteq 200 .. 599
  /\ TransportErrors \subseteq {e \in Errors : e.wrapped = "no"}
  /\ \A status \in Statuses : IsHTTPRetryable(status) => WrapHTTPError(status) \in Errors

VARIABLES request,         \* "other" (no HTTP), or how the body's length is known
          unread,          \* parts of the body the reader still has
          open,            \* the attempts whose response body is open
          response         \* status of the response kept, and what its server had read

httpVars == <<request, unread, open, response>>
allVars  == <<retryVars, httpVars>>

NoResponse == [status |-> 0, got |-> 0]

------------------------------------------------------------------------------
(* Mutant: the clone is sent without the length of its body. *)
LengthForgotten == FALSE

(* The clone carries the Content-Length of the request. *)
LengthAnnounced == request = "sized"

(* What may be left of the body when the server answers.  A server that     *)
(* accepts has read the body to its end, and has seen as much as was        *)
(* announced; one that refuses may do so at any point.                      *)
LeftAfter(status) ==
  IF status < 400
    THEN {n \in {0} : LengthAnnounced => unread = BodyLen}
    ELSE 0 .. unread

------------------------------------------------------------------------------
HTTPInit ==
  /\ RetryInit
  /\ request \in {"other", "empty", "sized", "unsized"}
  /\ unread = IF request \in {"sized", "unsized"} THEN BodyLen ELSE 0
  /\ open = {}
  /\ response = NoResponse

(* client.Do fails: the request may have been sent in part. *)
SendFails(e) ==
  /\ request # "other"
  /\ ReturnError(e)
  /\ unread' \in 0 .. unread
  /\ UNCHANGED <<request, open, response>>

(* Mutant: the status is not looked at. *)
RespondAnyStatus(status) ==
  /\ request # "other"
  /\ \E left \in LeftAfter(status) :
       /\ unread' = left
       /\ response' = [status |-> status, got |-> unread - left]
  /\ ReturnSuccess /\ open' = open \cup {returned + 1}
  /\ UNCHANGED request

(* Mutant: the body of a response that is retried stays open. *)
RespondLeavingOpen(status) ==
  /\ request # "other"
  /\ \E left \in LeftAfter(status) :
       /\ unread' = left
       /\ response' = [status |-> status, got |-> unread - left]
  /\ open' = open \cup {returned + 1}
  /\ IF IsHTTPRetryable(status) THEN ReturnError(WrapHTTPError(status))
     ELSE ReturnSuccess
  /\ UNCHANGED request

(* The server answers.  A response whose status is retried is closed. *)
Respond(status) ==
  /\ request # "other"
  /\ \E left \in LeftAfter(status) :
       /\ unread' = left
       /\ response' = [status |-> status, got |-> unread - left]
  /\ IF IsHTTPRetryable(status)
       THEN ReturnError(WrapHTTPError(status)) /\ UNCHANGED open
       ELSE ReturnSuccess /\ open' = open \cup {returned + 1}
  /\ UNCHANGED request

(* Any other operation under the same loop, and the loop's own steps. *)
OtherReturns ==
  /\ request = "other"
  /\ ReturnSuccess \/ \E e \in Errors : ReturnError(e)
  /\ UNCHANGED httpVars

LoopStep == (Call \/ SeeCancelled \/ StartTimer \/ TimerFires) /\ UNCHANGED httpVars

CallerCancels == Cancel /\ UNCHANGED httpVars

HTTPNext ==
  \/ \E e \in TransportErrors : SendFails(e)
  \/ \E status \in Statuses : Respond(status)
  \/ OtherReturns
  \/ LoopStep
  \/ CallerCancels

HTTPSpec == HTTPInit /\ [][HTTPNext]_allVars

------------------------------------------------------------------------------
(* The caller gets a response exactly when the loop succeeds: that of the   *)
(* last attempt, not to be retried, its body open for the caller to read.   *)
(* No other response is left open, whether the call is cancelled, gives up  *)
(* or goes on.                                                              *)
OnlyTheAnswerIsOpen ==
  request # "other" =>
    IF result = "ok"
      THEN open = {returned} /\ ~IsHTTPRetryable(response.status)
      ELSE open = {}

(* A request that a server accepted was accepted whole, however many        *)
(* attempts before it had read from the body they share.  This needs a body *)
(* of known length: one without is sent, empty, again.                      *)
AcceptedWhole ==
  request = "sized" /\ result = "ok" /\ response.status < 400 =>
    response.got = BodyLen

(* What a caller of RetryableHTTPClient.Do counts on. *)
ResponsesAreRight == OnlyTheAnswerIsOpen /\ AcceptedWhole
==============================================================================
