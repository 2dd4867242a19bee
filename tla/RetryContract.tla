---------------------------- MODULE RetryContract ----------------------------
(***************************************************************************)
(* What RetryWithBackoff (pkg/registry/retry.go) promises its caller,      *)
(* delays left out: the operation is called at most MaxCalls times; a      *)
(* success or a final error ends the call at once; a transient error ends  *)
(* it only when the budget is spent or the caller's context is cancelled.  *)
(***************************************************************************)
EXTENDS Naturals

CONSTANT MaxCalls          \* MaxRetries + 1

VARIABLES returned,        \* how many times the operation has returned
          cancelled,       \* the caller's context is done
          outcome,         \* what it returned last
          verdict          \* what the caller is told

contractVars == <<returned, cancelled, outcome, verdict>>

Outcomes == {"success", "transient", "final"}

Verdict(n, o) ==
  CASE o = "success"                   -> "ok"
    [] o = "transient" /\ n < MaxCalls -> "pending"
    [] OTHER                           -> "error"

Init ==
  /\ returned = 0
  /\ cancelled = FALSE
  /\ outcome = "none"
  /\ verdict = "pending"

(* Only a transient error, with calls left, is followed by another call. *)
Attempt(o) ==
  /\ verdict = "pending"
  /\ returned < MaxCalls
  /\ returned' = returned + 1
  /\ outcome' = o
  /\ verdict' = Verdict(returned + 1, o)
  /\ UNCHANGED cancelled

Abandon ==
  /\ verdict = "pending"
  /\ cancelled
  /\ verdict' = "cancelled"
  /\ UNCHANGED <<returned, cancelled, outcome>>

Cancel ==
  /\ ~cancelled
  /\ cancelled' = TRUE
  /\ UNCHANGED <<returned, outcome, verdict>>

Next ==
  \/ \E o \in Outcomes : Attempt(o)
  \/ Abandon
  \/ Cancel

Spec == Init /\ [][Next]_contractVars
==============================================================================
