-------------------------------- MODULE Retry --------------------------------
(***************************************************************************)
(* RetryWithBackoff of pkg/registry/retry.go: one call of the retry loop,  *)
(* the operation it retries, and the cancellation of the caller's context, *)
(* which can come at any moment.  Delays are signed integers of the width  *)
(* IntMax stands for (time.Duration is an int64).                          *)
(***************************************************************************)
EXTENDS Integers

CONSTANTS MaxRetries,      \* RetryConfig.MaxRetries
          InitialDelay,    \* RetryConfig.InitialDelay
          MaxDelay,        \* RetryConfig.MaxDelay
          Multiplier, Unit, \* RetryConfig.BackoffMultiplier, the fraction Multiplier / Unit
          Jitter,          \* RetryConfig.Jitter
          IntMax,          \* the largest time.Duration
          Errors           \* the errors the operation may return

ErrorType ==
  [ctx     : BOOLEAN,                              \* is Canceled or DeadlineExceeded
   wrapped : {"no", "retryable", "final"},         \* a *RetryableError and its flag
   net     : {"no", "transient", "permanent"},     \* a net.Error, temporary or a timeout
   text    : BOOLEAN]                              \* "connection refused" and the like

ASSUME RetryAssumption ==
  /\ MaxRetries \in Nat
  /\ IntMax \in Nat
  /\ InitialDelay \in 0 .. IntMax
  /\ MaxDelay \in 0 .. IntMax
  /\ Multiplier \in Nat /\ Unit \in Nat \ {0}
  /\ Jitter \in BOOLEAN
  /\ Errors \subseteq ErrorType

VARIABLES stage,           \* where the loop is
          attempt,         \* the loop variable
          delay,           \* the next delay before jitter
          wait,            \* actualDelay, what the timer is set to
          cancelled,       \* ctx.Done() is closed
          err,             \* what the operation returned last: {}, or the error
          result,          \* what the call returned
          returned,        \* history: how often the operation returned
          lateCalls        \* history: operations begun after the cancellation

retryVars == <<stage, attempt, delay, wait, cancelled, err, result, returned, lateCalls>>

Duration == -(IntMax + 1) .. IntMax

------------------------------------------------------------------------------
(* IsRetryable looks at the context errors first, then at an explicit mark, *)
(* then at net.Error, and at the text only when nothing else matched.       *)
IsRetryable(e) ==
  /\ ~e.ctx
  /\ \/ e.wrapped = "retryable"
     \/ e.wrapped = "no" /\ e.net = "transient"
     \/ e.wrapped = "no" /\ e.net = "no" /\ e.text

(* Two's complement addition. *)
Wrap(n) == ((n + IntMax + 1) % (2 * (IntMax + 1))) - (IntMax + 1)

(* A float converted to an integer: what follows the point is cut off. *)
Truncated(n) == IF n < 0 THEN -((-n) \div Unit) ELSE n \div Unit

(* time.Duration(float64(d) * multiplier), the rounding of a float64 apart: *)
(* the result of converting a float out of range is up to the machine,      *)
(* which either saturates or yields the smallest integer.                   *)
Scaled(d) ==
  LET product == Truncated(d * Multiplier)
  IN  IF product \in Duration THEN {product} ELSE {-(IntMax + 1), IntMax}

(* The delay with a jitter of at most a quarter of it, cut at MaxDelay. *)
(* Mutant: full jitter, anything from nothing to twice the delay. *)
JitteredFully(d) == IF Jitter THEN {Wrap(d + j) : j \in -d .. d} ELSE {d}

Jittered(d) ==
  LET quarter == IF d < 0 THEN (-d) \div 4 ELSE d \div 4
  IN  IF Jitter THEN {Wrap(d + j) : j \in -quarter .. quarter} ELSE {d}

AtMostMaxDelay(d) == IF d > MaxDelay THEN MaxDelay ELSE d

(* Mutant: the cut is made before the jitter is added. *)
WaitsCutFirst(d) == Jittered(AtMostMaxDelay(d))

Waits(d) == {AtMostMaxDelay(w) : w \in Jittered(d)}

(* math.Pow, of the multiplier's numerator or denominator. *)
Power(b) ==
  LET pow[n \in 0 .. MaxRetries] == IF n = 0 THEN 1 ELSE pow[n - 1] * b
  IN  pow

(* CalculateDelay, the closed form the package exports, where it fits. *)
Product(d, n) == (d * Power(Multiplier)[n]) \div Power(Unit)[n]

CalculateDelay(d, n) == AtMostMaxDelay(Product(d, n))

------------------------------------------------------------------------------
RetryInit ==
  /\ stage = "call"
  /\ attempt = 0
  /\ delay = InitialDelay
  /\ wait = 0
  /\ cancelled = FALSE
  /\ err = {}
  /\ result = "pending"
  /\ returned = 0
  /\ lateCalls = 0

Finish(r) ==
  /\ stage' = "done"
  /\ result' = r

Call ==
  /\ stage = "call"
  /\ stage' = "running"
  /\ lateCalls' = IF cancelled THEN lateCalls + 1 ELSE lateCalls
  /\ UNCHANGED <<attempt, delay, wait, cancelled, err, result, returned>>

(* The operation returns e, {} for nil. *)
Returns(e) ==
  /\ stage = "running"
  /\ returned' = returned + 1
  /\ err' = e
  /\ UNCHANGED <<attempt, delay, wait, cancelled, lateCalls>>

ReturnSuccess == Returns({}) /\ Finish("ok")

TryAgain == stage' = "check" /\ UNCHANGED result

(* Mutant: the last attempt is forgotten and the budget is one too large. *)
ReturnErrorOneMore(e) ==
  /\ Returns({e})
  /\ IF IsRetryable(e) /\ attempt <= MaxRetries THEN TryAgain ELSE Finish("error")

(* Mutant: every error is tried again, as long as there are attempts left. *)
ReturnErrorRetried(e) ==
  /\ Returns({e})
  /\ IF attempt < MaxRetries THEN TryAgain ELSE Finish("error")

ReturnError(e) ==
  /\ Returns({e})
  /\ IF IsRetryable(e) /\ attempt < MaxRetries THEN TryAgain ELSE Finish("error")

SeeCancelled ==
  /\ stage \in {"check", "sleep"}
  /\ cancelled
  /\ Finish("cancelled")
  /\ UNCHANGED <<attempt, delay, wait, cancelled, err, returned, lateCalls>>

(* Mutant: no look at the context before the timer starts. *)
StartTimerAnyway ==
  /\ stage = "check"
  /\ wait' \in Waits(delay)
  /\ stage' = "sleep"
  /\ UNCHANGED <<attempt, delay, cancelled, err, result, returned, lateCalls>>

StartTimer ==
  /\ stage = "check"
  /\ ~cancelled
  /\ wait' \in Waits(delay)
  /\ stage' = "sleep"
  /\ UNCHANGED <<attempt, delay, cancelled, err, result, returned, lateCalls>>

(* Mutant: the delay grows linearly. *)
TimerFiresLinear ==
  /\ stage = "sleep"
  /\ delay' = delay + InitialDelay
  /\ attempt' = attempt + 1
  /\ stage' = "call"
  /\ UNCHANGED <<wait, cancelled, err, result, returned, lateCalls>>

(* When the timer and the context are both ready select takes either. *)
TimerFires ==
  /\ stage = "sleep"
  /\ delay' \in Scaled(delay)
  /\ attempt' = attempt + 1
  /\ stage' = "call"
  /\ UNCHANGED <<wait, cancelled, err, result, returned, lateCalls>>

Cancel ==
  /\ ~cancelled
  /\ cancelled' = TRUE
  /\ UNCHANGED <<stage, attempt, delay, wait, err, result, returned, lateCalls>>

Loop ==
  \/ Call
  \/ ReturnSuccess
  \/ \E e \in Errors : ReturnError(e)
  \/ SeeCancelled
  \/ StartTimer
  \/ TimerFires

RetryNext == Loop \/ Cancel

(* The operation returns (the HTTP client has a timeout), the timer fires   *)
(* and the goroutine runs; nobody has to cancel.                            *)
RetrySpec == RetryInit /\ [][RetryNext]_retryVars /\ WF_retryVars(Loop)

------------------------------------------------------------------------------
(* Every variable stays within its type; attempt never passes MaxRetries. *)
RetryTypeOK ==
  /\ stage \in {"call", "running", "check", "sleep", "done"}
  /\ attempt \in 0 .. MaxRetries
  /\ delay \in Duration
  /\ wait \in Duration
  /\ cancelled \in BOOLEAN
  /\ \A e \in err : err = {e} /\ e \in Errors
  /\ result \in {"pending", "ok", "error", "cancelled"}
  /\ returned \in 0 .. MaxRetries + 1
  /\ lateCalls \in Nat

(* No wait is longer than MaxDelay, jitter included, however often the     *)
(* delay has been multiplied.                                              *)
NeverWaitsTooLong == stage = "sleep" => wait <= MaxDelay

(* The loop checks the context only between attempts, so an operation may   *)
(* still begin after the cancellation, when the timer wins the race, but    *)
(* never more than one.                                                     *)
OneCallAfterCancellation == lateCalls <= 1

(* The delays the loop computes step by step are those CalculateDelay gives *)
(* in closed form, until the product outgrows its type.  With a multiplier  *)
(* of at least one that is no whole number the loop cuts off a fraction at   *)
(* every retry: its delay is never above CalculateDelay's, and never below  *)
(* that for an initial delay shorter by a nanosecond for every retry.       *)
Fits(n) == Product(InitialDelay, n) <= IntMax

DelaysAreCalculateDelay ==
  stage = "sleep" /\ Fits(attempt) =>
    /\ AtMostMaxDelay(delay) <= CalculateDelay(InitialDelay, attempt)
    /\ AtMostMaxDelay(delay) >= CalculateDelay(InitialDelay - attempt, attempt)
    /\ Unit = 1 => AtMostMaxDelay(delay) = CalculateDelay(InitialDelay, attempt)

(* Every wait is at least three quarters of the initial delay, or MaxDelay  *)
(* when that is shorter: the loop does not retry without backing off before *)
(* the delay, which the code never cuts itself, outgrows its type.  With    *)
(* the jitter, which is added before the cut, it does so one retry earlier. *)
FitsWithJitter(n) ==
  LET d == Product(InitialDelay, n) IN d + d \div 4 <= IntMax

BacksOff ==
  stage = "sleep" /\ FitsWithJitter(attempt) =>
    wait >= AtMostMaxDelay(InitialDelay - InitialDelay \div 4)

(* The waits, as a user of the loop counts on them. *)
DelaysAreRight == NeverWaitsTooLong /\ DelaysAreCalculateDelay /\ BacksOff

(* The loop implements the contract its callers rely on, where the outcome  *)
(* of an attempt is what the operation returned, as IsRetryable sees it.    *)
LastOutcome ==
  IF returned = 0 THEN "none"
  ELSE IF err = {} THEN "success"
  ELSE IF \A e \in err : IsRetryable(e) THEN "transient"
  ELSE "final"

Contract == INSTANCE RetryContract WITH
  MaxCalls <- MaxRetries + 1, outcome <- LastOutcome, verdict <- result

ImplementsContract == Contract!Spec
==============================================================================
