-------------------------------- MODULE Config -----------------------------
(***************************************************************************)
(* The part of the configuration that decides where requests go: what      *)
(* LoadConfig makes of the environment, what ConfigValidator accepts of    *)
(* it, and the URLs it holds.                                              *)
(***************************************************************************)

-----------------------------------------------------------------------------
(* URLs. *)

\* A URL has at most one "://".  The text in front of it ("none" if there is no
\* "://", "HTTPS" for any text but "http", "https" and the empty one), the host,
\* and the end of the path, of which only "/v1" and a "/" after it matter.
Schemes == {"none", "", "http", "https", "HTTPS"}
Paths == {<< >>, <<"v1">>, <<"v1", "/">>}

URL(hosts) == [scheme: Schemes, host: hosts \cup {""}, path: Paths]

AnyURL == [scheme: Schemes, host: STRING, path: Paths]

EmptyURL == [scheme |-> "none", host |-> "", path |-> << >>]

\* url.Parse finds a scheme, in capitals or not, and a host.
IsAbsolute(u) == u.scheme \notin {"none", ""} /\ u.host # ""

-----------------------------------------------------------------------------
(* LoadConfig. *)

\* A variable that is unset or empty leaves the default.
Unset == [kind |-> "unset"]
Set(value) == [kind |-> "set", value |-> value]

GetEnvWithDefault(variable, default) ==
  IF variable.kind = "set" THEN variable.value ELSE default

Defaults ==
  [APIBaseURL |-> [scheme |-> "https", host |-> "portal.qwen.ai", path |-> <<"v1">>],
   DefaultModel |-> "qwen3-coder-plus"]

LoadedConfig(env) ==
  [field \in DOMAIN Defaults |-> GetEnvWithDefault(env[field], Defaults[field])]

\* What ValidateConfig asks of the fields above.  Its checks of the others (port,
\* durations, limits, log level, QWEN_OAUTH_BASE_URL) are left open: Completion's
\* LoadConfigFails may happen in any environment.
ValidateConfig(config) == IsAbsolute(config.APIBaseURL)
=============================================================================
