------------------------------- MODULE Server -------------------------------
(***************************************************************************)
(* main and the request handlers: startup, listening, the signal and       *)
(* Shutdown; and what APIController, ProxyUseCase and AIService make of a  *)
(* request, from its arrival to what its client receives.                  *)
(*                                                                         *)
(* EnsureAuthenticated succeeds or fails (Auth), the rate limiter lets a   *)
(* request through or not (RateLimit), and the relay of a stream writes    *)
(* some events and ends (Stream).  A kind of request stands for a handler: *)
(*   simple      /, /health, /v1/models                                    *)
(*   detailed    /health/detailed                                          *)
(*   auth        /auth                                                     *)
(*   chat        /v1/chat/completions                                      *)
(*   completion  /v1/completions                                           *)
(*   stream      either of these two, with "stream": true                  *)
(*   preflight   OPTIONS, on any path                                      *)
(*   unmatched   a path or a method without a route                        *)
(***************************************************************************)
EXTENDS Naturals, FiniteSets

CONSTANTS
  Handlers,   \* the goroutines of net/http that serve requests
  Serves      \* the kinds of request each of them may get

VARIABLES
  main,       \* loading: the configuration; startup; serving: waits for
              \* ctx.Done(); draining: in Shutdown; exited
  listener,   \* the goroutine of ListenAndServe: none, spawned, open, failed, closed
  signalled,  \* ctx.Done() is closed, by a signal or by stop()
  stage,      \* where each handler stands
  kind,       \* the kind of its request
  upstream,   \* the answer of the upstream to it: none, ok, error
  late,       \* the write deadline of its connection has passed
  answer      \* what its client has received

mainVars == <<main, listener, signalled>>
handlerVars == <<stage, kind, upstream, late, answer>>
vars == <<mainVars, handlerVars>>

Proxied == {"chat", "completion", "stream"}
Kinds == {"simple", "detailed", "auth", "preflight", "unmatched"} \cup Proxied
Labels == {"idle", "begin", "auth", "manual", "call", "body", "relay"}
Parts == {"json", "error", "event"}
Statuses == {0, 200, 204, 400, 404, 405, 429, 500}

\* Nothing has been received; status 0 stands for no header.
NoAnswer == [status |-> 0, parts |-> {}]

TypeOK ==
  /\ main \in {"loading", "startup", "serving", "draining", "exited"}
  /\ listener \in {"none", "spawned", "open", "failed", "closed"}
  /\ signalled \in BOOLEAN
  /\ stage \in [Handlers -> Labels]
  /\ kind \in [Handlers -> Kinds]
  /\ upstream \in [Handlers -> {"none", "ok", "error"}]
  /\ late \in [Handlers -> BOOLEAN]
  /\ answer \in [Handlers -> [status: Statuses, parts: SUBSET Parts]]
  /\ \A h \in Handlers :
       /\ stage[h] \in {"call", "body", "relay"} => kind[h] \in Proxied
       /\ stage[h] = "manual" => kind[h] = "auth"
       /\ stage[h] = "relay" => kind[h] = "stream" /\ upstream[h] = "ok"

Init ==
  /\ main = "loading"
  /\ listener = "none"
  /\ signalled = FALSE
  /\ stage = [h \in Handlers |-> "idle"]
  /\ kind = [h \in Handlers |-> "simple"]
  /\ upstream = [h \in Handlers |-> "none"]
  /\ late = [h \in Handlers |-> FALSE]
  /\ answer = [h \in Handlers |-> NoAnswer]

-----------------------------------------------------------------------------
(* main. *)

\* LoadConfig returns a valid configuration; signals are caught from here on.
LoadConfig ==
  /\ main = "loading"
  /\ main' = "startup"
  /\ UNCHANGED <<listener, signalled, handlerVars>>

\* The startup check returns, with or without credentials; the goroutine of
\* ListenAndServe is started.
StartupDone ==
  /\ main = "startup"
  /\ main' = "serving"
  /\ listener' = "spawned"
  /\ UNCHANGED <<signalled, handlerVars>>

\* ListenAndServe listens, unless Shutdown has been called before.
Listen ==
  /\ listener = "spawned"
  /\ listener' = IF main = "serving" THEN "open" ELSE "closed"
  /\ UNCHANGED <<main, signalled, handlerVars>>

\* Mutant: the failure is logged only.
ListenFailsLogged ==
  /\ listener \in {"spawned", "open"}
  /\ main = "serving"
  /\ listener' = "failed"
  /\ UNCHANGED <<main, signalled, handlerVars>>

\* ListenAndServe fails: the port is taken, or Accept fails; stop() is called.
ListenFails ==
  /\ listener \in {"spawned", "open"}
  /\ main = "serving"
  /\ listener' = "failed"
  /\ signalled' = TRUE
  /\ UNCHANGED <<main, handlerVars>>

\* SIGINT or SIGTERM.  Nothing looks at it before main is serving.
Signal ==
  /\ main \notin {"loading", "exited"}
  /\ ~signalled
  /\ signalled' = TRUE
  /\ UNCHANGED <<main, listener, handlerVars>>

\* Shutdown is called and closes the listener.
BeginShutdown ==
  /\ main = "serving"
  /\ signalled
  /\ main' = "draining"
  /\ listener' = IF listener = "open" THEN "closed" ELSE listener
  /\ UNCHANGED <<signalled, handlerVars>>

\* The process exits, and every handler with it; the connections are cut.
Exit ==
  /\ main' = "exited"
  /\ listener' = "closed"
  /\ stage' = [h \in Handlers |-> "idle"]
  /\ UNCHANGED <<signalled, kind, upstream, late, answer>>

\* log.Fatalf: LoadConfig returns an error.
LoadConfigFails ==
  /\ main = "loading"
  /\ Exit

\* Mutant: nobody waits for the handlers.
ShutdownDoneEarly ==
  /\ main = "draining"
  /\ Exit

\* Shutdown returns nil: no connection is active.
ShutdownDone ==
  /\ main = "draining"
  /\ \A h \in Handlers : stage[h] = "idle"
  /\ Exit

\* Shutdown gives up after ShutdownTimeout.
ShutdownTimesOut ==
  /\ main = "draining"
  /\ \E h \in Handlers : stage[h] # "idle"
  /\ Exit

\* The process is started again, as its container is configured to be.
Restart ==
  /\ main = "exited"
  /\ main' = "loading"
  /\ listener' = "none"
  /\ signalled' = FALSE
  /\ UNCHANGED handlerVars

-----------------------------------------------------------------------------
(* Parts of the handlers. *)

At(h, label) == stage[h] = label
Goto(h, label) == stage' = [stage EXCEPT ![h] = label]

\* WriteHeader(s), which counts only the first time, and a part of the body.
\* Past the deadline nothing reaches the client any more.
Written(h, s, part) ==
  IF late[h] THEN answer[h]
  ELSE [status |-> IF answer[h].status = 0 THEN s ELSE answer[h].status,
        parts |-> answer[h].parts \cup part]

\* The handler writes its response, if any, and returns; net/http sends the
\* status 200 of a handler that wrote none.
Respond(h, s, part) ==
  /\ answer' = [answer EXCEPT ![h] = Written(h, s, part)]
  /\ Goto(h, "idle")
  /\ UNCHANGED <<kind, upstream, late, mainVars>>

\* StreamChatCompletionsHandler gets an error: it is logged and that is all.
StreamFails(h) ==
  /\ kind[h] = "stream"
  /\ Respond(h, 200, {})

\* Mutant: a use case error is answered like that of a chat that is not streamed.
UseCaseFailsAlways(h) == Respond(h, 500, {"error"})

\* The use case returns an error: sendInternalError, but not for a stream.
UseCaseFails(h) ==
  \/ kind[h] # "stream" /\ Respond(h, 500, {"error"})
  \/ StreamFails(h)

-----------------------------------------------------------------------------
(* The handlers. *)

\* A request comes in.
Arrive(h, k) ==
  /\ listener = "open"
  /\ At(h, "idle")
  /\ Goto(h, "begin")
  /\ kind' = [kind EXCEPT ![h] = k]
  /\ upstream' = [upstream EXCEPT ![h] = "none"]
  /\ late' = [late EXCEPT ![h] = FALSE]
  /\ answer' = [answer EXCEPT ![h] = NoAnswer]
  /\ UNCHANGED mainVars

\* RateLimit turns the request away, whatever it is.
RateLimited(h) ==
  /\ At(h, "begin")
  /\ Respond(h, 429, {"error"})

\* CORS answers every OPTIONS request.
Preflight(h) ==
  /\ At(h, "begin")
  /\ kind[h] = "preflight"
  /\ Respond(h, 204, {})

\* The router has no route for it, or only one with another method.
NotFound(h) ==
  /\ At(h, "begin")
  /\ kind[h] = "unmatched"
  /\ Respond(h, 404, {"error"}) \/ Respond(h, 405, {})

\* The handlers that need nothing but the request.
Static(h) ==
  /\ At(h, "begin")
  /\ kind[h] = "simple"
  /\ Respond(h, 200, {"json"})

\* The body does not decode, or has no prompt.
BadRequest(h) ==
  /\ At(h, "begin")
  /\ kind[h] \in Proxied
  /\ Respond(h, 400, {"error"})

\* The handler turns to AuthUseCase.
CallAuth(h) ==
  /\ At(h, "begin")
  /\ kind[h] \in {"detailed", "auth"} \cup Proxied
  /\ Goto(h, "auth")
  /\ UNCHANGED <<kind, upstream, late, answer, mainVars>>

\* Mutant: every request goes on to the upstream.
AuthSucceedsAll(h) ==
  /\ At(h, "auth")
  /\ Goto(h, "call")
  /\ UNCHANGED <<kind, upstream, late, answer, mainVars>>

\* EnsureAuthenticated returns credentials.
AuthSucceeds(h) ==
  /\ At(h, "auth")
  /\ \/ kind[h] \notin Proxied /\ Respond(h, 200, {"json"})
     \/ /\ kind[h] \in Proxied
        /\ Goto(h, "call")
        /\ UNCHANGED <<kind, upstream, late, answer, mainVars>>

\* EnsureAuthenticated returns an error.
AuthFails(h) ==
  /\ At(h, "auth")
  /\ \/ kind[h] = "detailed" /\ Respond(h, 200, {"json"})
     \/ kind[h] \in Proxied /\ UseCaseFails(h)
     \/ /\ kind[h] = "auth"
        /\ Goto(h, "manual")
        /\ UNCHANGED <<kind, upstream, late, answer, mainVars>>

\* AuthenticateManually returns.
ManualSucceeds(h) ==
  /\ At(h, "manual")
  /\ Respond(h, 200, {"json"})

ManualFails(h) ==
  /\ At(h, "manual")
  /\ Respond(h, 500, {"error"})

\* The request to the upstream cannot be made, or is not answered.
CallFails(h) ==
  /\ At(h, "call")
  /\ UseCaseFails(h)

\* The upstream answers with status 200 or another one.
CallAnswered(h) ==
  /\ At(h, "call")
  /\ \E a \in {"ok", "error"} : upstream' = [upstream EXCEPT ![h] = a]
  /\ Goto(h, "body")
  /\ UNCHANGED <<kind, late, answer, mainVars>>

\* Mutant: the status of the upstream is not looked at.
ReadBodyAny(h) ==
  /\ At(h, "body")
  /\ \/ kind[h] # "stream" /\ Respond(h, 200, {"json"})
     \/ UseCaseFails(h)
     \/ /\ kind[h] = "stream"
        /\ answer' = [answer EXCEPT ![h] = Written(h, 200, {})]
        /\ Goto(h, "relay")
        /\ UNCHANGED <<kind, upstream, late, mainVars>>

\* The body is read: for the message of an error, for the response to convert
\* (which may not decode, or have no choices), or by the relay, which first
\* writes the header.
ReadBody(h) ==
  /\ At(h, "body")
  /\ \/ upstream[h] = "error" /\ UseCaseFails(h)
     \/ /\ upstream[h] = "ok" /\ kind[h] # "stream"
        /\ Respond(h, 200, {"json"}) \/ Respond(h, 500, {"error"})
     \/ /\ upstream[h] = "ok" /\ kind[h] = "stream"
        /\ answer' = [answer EXCEPT ![h] = Written(h, 200, {})]
        /\ Goto(h, "relay")
        /\ UNCHANGED <<kind, upstream, late, mainVars>>

\* The relay writes an event.
RelayEvent(h) ==
  /\ At(h, "relay")
  /\ answer' = [answer EXCEPT ![h] = Written(h, 200, {"event"})]
  /\ UNCHANGED <<stage, kind, upstream, late, mainVars>>

\* ProcessStreamingResponse returns nil, or the error of a failed read.
RelayEnds(h) ==
  /\ At(h, "relay")
  /\ Respond(h, 200, {}) \/ UseCaseFails(h)

\* WriteTimeout has passed since the request was read.
DeadlinePasses(h) ==
  /\ ~At(h, "idle")
  /\ ~late[h]
  /\ late' = [late EXCEPT ![h] = TRUE]
  /\ UNCHANGED <<stage, kind, upstream, answer, mainVars>>

\* The steps of a request before it asks for credentials, while it waits for
\* them, and after it has got them.
Enter(h) ==
  \/ RateLimited(h) \/ Preflight(h) \/ NotFound(h) \/ Static(h) \/ BadRequest(h)

Authenticate(h) ==
  \/ CallAuth(h) \/ AuthSucceeds(h) \/ AuthFails(h)
  \/ ManualSucceeds(h) \/ ManualFails(h)

Proxy(h) ==
  \/ CallFails(h) \/ CallAnswered(h) \/ ReadBody(h) \/ RelayEvent(h) \/ RelayEnds(h)

Progress(h) == Enter(h) \/ Authenticate(h) \/ Proxy(h)

Lifecycle ==
  \/ LoadConfig \/ LoadConfigFails \/ StartupDone
  \/ Listen \/ ListenFails \/ BeginShutdown
  \/ ShutdownDone \/ ShutdownTimesOut \/ Restart

Next ==
  \/ Lifecycle
  \/ Signal
  \/ \E h \in Handlers : Progress(h) \/ DeadlinePasses(h)
  \/ \E h \in Handlers : \E k \in Serves[h] \cap Kinds : Arrive(h, k)

Spec == Init /\ [][Next]_vars

\* main runs; a startup check returns (CallsReturn of Auth), a shutdown ends at
\* its timeout.  Nothing is assumed of the handlers.
FairSpec ==
  /\ Spec
  /\ WF_vars(StartupDone) /\ WF_vars(Listen)
  /\ WF_vars(BeginShutdown) /\ WF_vars(ShutdownDone \/ ShutdownTimesOut)

-----------------------------------------------------------------------------
(* Properties. *)

\* A client receives one response: no error is written behind a response or
\* into a stream of events, whenever the relay fails (api.go:357-363).
OneResponse == \A h \in Handlers : Cardinality(answer[h].parts) <= 1

\* Whoever is sent a completion or events was answered by the upstream with
\* status 200 for this very request (proxy.go:87, 144); every other end of the
\* request is an error status, an empty response or a cut connection.
SuccessNeedsUpstream ==
  \A h \in Handlers :
    kind[h] \in Proxied /\ answer[h].parts \cap {"json", "event"} # {}
    => answer[h].status = 200 /\ upstream[h] = "ok"

\* A signal, or a failure to listen, ends the process, whatever the handlers do
\* and whenever it comes, the startup check included (main.go:163-195).
Exits == signalled \/ listener = "failed" ~> main = "exited"

\* "For streaming, we can't send JSON error after headers are set"
\* (api.go:359): an error of StreamChatCompletions comes after the header.
StreamErrorsFollowHeader ==
  [][\A h \in Handlers : StreamFails(h) /\ ~late[h] => answer[h].status # 0]_vars
=============================================================================
