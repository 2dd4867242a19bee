------------------------------ MODULE MCRetry ------------------------------
(* Instances of HTTPRetry, and so of Retry.  Times are in units of a quarter *)
(* of a second or so: small enough to enumerate every jitter, large enough   *)
(* to reach MaxDelay.                                                        *)
EXTENDS HTTPRetry

E(c, w, n, t) == [ctx |-> c, wrapped |-> w, net |-> n, text |-> t]

\* The errors of an http.Client are a url.Error, which is a net.Error.
MCTransportErrors ==
  {E(FALSE, "no", "transient", FALSE),     \* a temporary network error
   E(FALSE, "no", "permanent", TRUE),      \* a url.Error around ECONNREFUSED
   E(TRUE, "no", "transient", FALSE)}      \* the client's timeout, or a cancelled request

(* One error of each kind the client and the HTTP wrapper produce. *)
MCErrors == MCTransportErrors \cup
  {E(FALSE, "no", "no", TRUE),             \* plain text "connection refused"
   E(FALSE, "retryable", "no", FALSE),     \* WrapHTTPError of a 503
   E(FALSE, "final", "no", TRUE),          \* WrapHTTPError of a 404
   E(TRUE, "retryable", "transient", TRUE)}\* a cancelled request, marked all the same
============================================================================
