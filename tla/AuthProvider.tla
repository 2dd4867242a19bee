---------------------------- MODULE AuthProvider ----------------------------
(***************************************************************************)
(* RegistryAuthProvider of pkg/registry/auth.go: the credentials it hands   *)
(* to every request of the client, kept in a map by registry and refreshed *)
(* at the registry's token endpoint once they have expired.                *)
(*                                                                         *)
(* The provider is used by one goroutine at a time.  Of a credential the   *)
(* model keeps what kind it is and how long it is still good for; of a     *)
(* token, whether it came with a refresh token and whether the endpoint    *)
(* still takes that: an endpoint may take a refresh token once only.       *)
(***************************************************************************)
EXTENDS Naturals, Functions

CONSTANTS
  Hosts,        \* normalized names of registries
  Lifetimes,    \* [Endpoints -> expires_in of its answers], 0 when it does not say
  Never,        \* stands for no ExpiresAt, beyond every lifetime
  Endpoints,    \* hosts a token endpoint is configured for
  ConfigFiles,  \* set of [Hosts -> the entry a Docker config file has for the host]
  OwnVars,      \* [Hosts -> environment variables of the host that are set]
  RegistryVars  \* the generic variables (REGISTRY_...) that are set

\* An entry gives a password in its auth string or in its fields, or its auth
\* string is malformed; a file that cannot be read has no entry.
Entries == {"none", "auth", "fields", "malformed"}
Variables == {"USERNAME", "PASSWORD", "TOKEN"}

ASSUME AuthAssumption ==
  /\ Endpoints \subseteq Hosts
  /\ Never \in Nat
  /\ Lifetimes \in [Endpoints -> SUBSET (0..Never-1)]
  /\ ConfigFiles \subseteq [Hosts -> Entries]
  /\ OwnVars \in [Hosts -> SUBSET Variables]
  /\ RegistryVars \subseteq Variables

VARIABLES
  credentials,   \* [Hosts -> the cached credential: its kind and the time it has left]
  tokens,        \* [Hosts -> the refresh token of the cached token]
  call,          \* the request under way: for whom, with what, and what for
  endpoint       \* [Endpoints -> the token endpoint: "up" or "down"]

authVars == <<credentials, tokens, call, endpoint>>

Credential(kind, left) == [kind |-> kind, left |-> left]
Of(kind) == Credential(kind, Never)
NoCall == [asks |-> "nothing", updates |-> FALSE, host |-> CHOOSE h \in Hosts : TRUE]

Expired(h) == credentials[h].kind # "none" /\ credentials[h].left = 0

(***************************************************************************)
(* Where credentials come from that no endpoint gives: they do not expire,  *)
(* so a token of the environment is a "password" here as well.              *)
(***************************************************************************)
\* An entry that gives none leaves what an earlier file gave.
Stored(h) == IF \E file \in ConfigFiles : file[h] \in {"auth", "fields"}
             THEN "password" ELSE "none"

\* Any variable of the host's own hides the generic ones, also a username that
\* comes without its password.
FromEnv(h) ==
  LET used == IF OwnVars[h] = {} THEN RegistryVars ELSE OwnVars[h]
  IN  IF "TOKEN" \in used \/ {"USERNAME", "PASSWORD"} \subseteq used
      THEN "password" ELSE "none"

AuthInit ==
  /\ credentials = [h \in Hosts |-> Of(Stored(h))]
  /\ tokens = [h \in Hosts |-> "none"]
  /\ call = NoCall
  /\ endpoint = [h \in Endpoints |-> "up"]

Ask(h, what, updates) ==
  /\ call = NoCall
  /\ call' = [asks |-> what, updates |-> updates, host |-> h]
  /\ UNCHANGED <<credentials, tokens, endpoint>>

\* RefreshToken asks with the refresh token it holds, or for a new token.
RefreshRequest(h) == IF tokens[h] = "none" THEN "grant" ELSE "refresh"

(***************************************************************************)
(* GetCredentials.  What is cached and has not expired it returns as it is *)
(* (no step here); without an endpoint it goes to the environment at once. *)
(***************************************************************************)
StartRefresh(h) == Expired(h) /\ h \in Endpoints /\ Ask(h, RefreshRequest(h), TRUE)

StartGrant(h) == credentials[h].kind = "none" /\ h \in Endpoints /\ Ask(h, "grant", TRUE)

TakeFromEnvironment(h) ==
  /\ call = NoCall /\ credentials[h].kind = "none" /\ h \notin Endpoints
  /\ credentials' = [credentials EXCEPT ![h] = Of(FromEnv(h))]
  /\ UNCHANGED <<tokens, call, endpoint>>

\* RefreshToken called from outside: the cached credential is not touched.
RefreshToken(h) == h \in Endpoints /\ Ask(h, RefreshRequest(h), FALSE)

(* Mutant: a refreshed credential keeps its expiry. *)
KeepExpiry(old, lifetime) ==
  IF old.kind = "none" THEN Credential("token", lifetime) ELSE old

(* Mutant: only a refresh sets an expiry, a first grant does not. *)
ExpiryByRefreshOnly(old, lifetime) ==
  IF old.kind = "none" THEN Of("token")
  ELSE IF lifetime > 0 THEN Credential("token", lifetime) ELSE old

\* A new credential without expires_in never expires; a cached one that is
\* refreshed without it keeps the ExpiresAt it has.
Renewed(old, lifetime) ==
  IF lifetime > 0 THEN Credential("token", lifetime)
  ELSE IF old.kind = "none" THEN Of("token") ELSE old

\* The endpoint answers with a token, which may come with a refresh token; what
\* comes replaces the cached token (getOAuth2Token, refreshOAuth2Token).
Answered(h) ==
  /\ call # NoCall /\ call.host = h /\ endpoint[h] = "up"
  /\ call.asks = "refresh" => tokens[h] = "accepted"
  /\ \E new \in {"none", "accepted"} : tokens' = [tokens EXCEPT ![h] = new]
  /\ \E lifetime \in Lifetimes[h] :
       credentials' = IF call.updates
                      THEN [credentials EXCEPT ![h] = Renewed(@, lifetime)] ELSE credentials
  /\ call' = NoCall
  /\ UNCHANGED endpoint

\* A request that fails leaves the cached token; a credential that has expired
\* is returned as it is, and only a first grant falls back to the environment.
GiveUp(h) ==
  /\ credentials' = IF call.updates /\ credentials[h].kind = "none"
                    THEN [credentials EXCEPT ![h] = Of(FromEnv(h))] ELSE credentials
  /\ call' = NoCall
  /\ UNCHANGED endpoint

Refused(h) ==
  /\ call # NoCall /\ call.host = h
  /\ endpoint[h] = "down" \/ (call.asks = "refresh" /\ tokens[h] = "revoked")
  /\ GiveUp(h)
  /\ UNCHANGED tokens

\* The answer is lost on its way: an endpoint that takes a refresh token once
\* has by then spent it.
AnswerLost(h) ==
  /\ call # NoCall /\ call.host = h /\ endpoint[h] = "up"
  /\ \/ UNCHANGED tokens
     \/ call.asks = "refresh" /\ tokens' = [tokens EXCEPT ![h] = "revoked"]
  /\ GiveUp(h)

ClearCredentials(h) ==
  /\ call = NoCall
  /\ credentials' = [credentials EXCEPT ![h] = Of("none")]
  /\ tokens' = [tokens EXCEPT ![h] = "none"]
  /\ UNCHANGED <<call, endpoint>>

GivenLifetimes == (UNION Range(Lifetimes)) \ {0}

SetCredentials(h) ==
  /\ call = NoCall
  /\ \E c \in {Of("password")} \union {Credential("token", l) : l \in GivenLifetimes} :
       credentials' = [credentials EXCEPT ![h] = c]
  /\ UNCHANGED <<tokens, call, endpoint>>

\* Time passes, also while a request is under way.
Aged(c) == IF c.left \in {0, Never} THEN c ELSE [c EXCEPT !.left = @ - 1]
Tick ==
  /\ \E h \in Hosts : credentials[h].left \notin {0, Never}
  /\ credentials' = [h \in Hosts |-> Aged(credentials[h])]
  /\ UNCHANGED <<tokens, call, endpoint>>

EndpointChanges(h) ==
  /\ h \in Endpoints
  /\ endpoint' = [endpoint EXCEPT ![h] = IF @ = "up" THEN "down" ELSE "up"]
  /\ UNCHANGED <<credentials, tokens, call>>

AuthNext ==
  \/ \E h \in Hosts :
       \/ StartRefresh(h) \/ StartGrant(h) \/ TakeFromEnvironment(h) \/ RefreshToken(h)
       \/ Answered(h) \/ Refused(h) \/ AnswerLost(h)
       \/ ClearCredentials(h) \/ SetCredentials(h)
       \/ EndpointChanges(h)
  \/ Tick

AuthSpec == AuthInit /\ [][AuthNext]_authVars

\* The client asks for credentials again and again (addAuth of every request),
\* its requests end (the HTTP client's timeout), and not every answer to
\* GetCredentials is lost.
AuthFairSpec ==
  /\ AuthSpec
  /\ \A h \in Endpoints : /\ SF_authVars(StartRefresh(h))
                          /\ WF_authVars(Answered(h) \/ Refused(h) \/ AnswerLost(h))
                          /\ SF_authVars(Answered(h) /\ call.updates)

-----------------------------------------------------------------------------
AuthTypeOK ==
  /\ credentials \in [Hosts -> [kind : {"none", "password", "token"}, left : 0..Never]]
  /\ \A h \in Hosts : credentials[h].kind # "token" => credentials[h].left = Never
  /\ tokens \in [Hosts -> {"none", "accepted", "revoked"}]
  /\ call.asks = "refresh" => tokens[call.host] # "none"
  /\ endpoint \in [Endpoints -> {"up", "down"}]

(* A credential that has expired is renewed in the end when the endpoint    *)
(* stays up, tells lifetimes and the client keeps asking, whatever requests *)
(* failed before: "RefreshToken refreshes an access token if needed"        *)
(* (interfaces.go).  Only a refresh token that was spent by a request whose *)
(* answer was lost prevents it: RefreshToken never drops that one.          *)
ExpiredIsRenewed ==
  \A h \in Endpoints :
    0 \notin Lifetimes[h] /\ <>[](endpoint[h] = "up") =>
      (Expired(h) ~> (~Expired(h) \/ tokens[h] = "revoked"))

(* A cached token has an expiry, at which it is asked for again, unless its *)
(* endpoint is one that may not tell lifetimes: whether a first grant or a  *)
(* refresh gave it, and whatever was cached before.  Without it             *)
(* ExpiredIsRenewed would hold of a token that is kept for ever.  A token   *)
(* that was set without an expiry counts as a password here.                *)
TokensExpire ==
  \A h \in Hosts :
    credentials[h] = Of("token") => h \in Endpoints /\ 0 \in Lifetimes[h]
=============================================================================
