--------------------------- MODULE MCAuthProvider ---------------------------
(* Instance of AuthProvider for TLC.                                        *)
EXTENDS AuthProvider

MCNever == 99

\* Two hosts with an endpoint, of which one may not tell a lifetime, and one
\* with a password in the Docker config.
MCHosts     == {"hub", "quay", "private"}
MCEndpoints == {"hub", "quay"}
MCLifetimes == [h \in MCEndpoints |-> IF h = "hub" THEN {1, 2} ELSE {0, 1}]
MCConfigFiles ==
  {[h \in MCHosts |-> IF h = "private" THEN "auth" ELSE "none"],
   [h \in MCHosts |-> IF h = "quay" THEN "none" ELSE "malformed"]}

\* quay has a username without a password, which hides the generic token.
MCOwnVars == [h \in MCHosts |-> IF h = "quay" THEN {"USERNAME"} ELSE {}]
MCRegistryVars == {"TOKEN"}
=============================================================================
