------------------------------- MODULE System ------------------------------
(***************************************************************************)
(* The process as main puts it together: Server, whose handlers and whose  *)
(* startup check call AuthUseCase, and Auth, whose callers they are.  A    *)
(* step that the two share is a step of both; every other step leaves one  *)
(* of them alone.  The end of the process is the death of all callers of   *)
(* Auth, wherever they stand, a save included; the credentials file stays  *)
(* and the next start finds it as it is.                                   *)
(***************************************************************************)
EXTENDS Naturals, FiniteSets

CONSTANTS
  Handlers,    \* the goroutines of net/http that serve requests
  Serves,      \* the kinds of request each of them may get
  Main,        \* the goroutine of main
  None,        \* no caller
  MaxGrants,   \* bound on the answers the token endpoint ever gives
  Urls,        \* resource URLs an account may be served from
  NoUrl,       \* the empty resource URL
  Faults       \* the faults of the environment that may happen to Auth

ASSUME MainAssumption == Main \notin Handlers
ASSUME NoneAssumption == None \notin Handlers \cup {Main}
ASSUME GrantsAssumption == MaxGrants \in Nat \ {0}
ASSUME NoUrlAssumption == NoUrl \notin Urls
ASSUME ExitAssumption == "crash" \in Faults /\ Faults \subseteq {"crash", "disk", "clear"}

VARIABLES
  main, listener, signalled, stage, kind, upstream, late, answer,
  pc, op, via, cred, outcome, presented, refreshHolder, tokenWriter, since,
  retired, file, damaged, version, versions, issued, home, stale

serverVars == <<main, listener, signalled, stage, kind, upstream, late, answer>>
authVars ==
  <<pc, op, via, cred, outcome, presented, refreshHolder, tokenWriter, since,
    retired, file, damaged, version, versions, issued, home, stale>>
vars == <<serverVars, authVars>>

\* All of them may call AuthUseCase.
Callers == Handlers \cup {Main}

S == INSTANCE Server
A == INSTANCE Auth

Init == S!Init /\ A!Init

-----------------------------------------------------------------------------
(* Steps of the server that AuthUseCase does not notice. *)

Apart ==
  /\ \/ S!LoadConfig \/ S!LoadConfigFails \/ S!Listen \/ S!ListenFails
     \/ S!BeginShutdown \/ S!Restart \/ S!Signal
     \/ \E h \in Handlers : S!Enter(h) \/ S!Proxy(h) \/ S!DeadlinePasses(h)
     \/ \E h \in Handlers : \E k \in Serves[h] \cap S!Kinds : S!Arrive(h, k)
  /\ UNCHANGED authVars

-----------------------------------------------------------------------------
(* main. *)

\* The startup check begins.
StartupCall ==
  /\ main = "startup"
  /\ op[Main] = "none"
  /\ A!Call(Main, "ensure")
  /\ UNCHANGED serverVars

\* It goes on.
StartupStep ==
  /\ A!Progress(Main)
  /\ UNCHANGED serverVars

\* Its result is looked at, and the server starts with or without credentials.
StartupDone ==
  /\ op[Main] # "none"
  /\ pc[Main] = "idle"
  /\ S!StartupDone
  /\ UNCHANGED authVars

\* The process exits, after the last handler or in the middle of some.
Shutdown ==
  /\ S!ShutdownDone \/ S!ShutdownTimesOut
  /\ A!Crash

-----------------------------------------------------------------------------
(* Handlers in AuthUseCase. *)

\* AuthenticateHandler and the others call EnsureAuthenticated.
CallAuth(h) ==
  /\ S!CallAuth(h)
  /\ A!Call(h, IF kind[h] = "auth" THEN "handler" ELSE "ensure")

\* The check of AuthenticateHandler has failed, and it calls AuthenticateManually.
TurnsManual(h) ==
  /\ op'[h] = "manual"
  /\ stage[h] = "auth"
  /\ S!AuthFails(h)

\* The call goes on, or ends: it has released its mutexes and left its result
\* for the handler, which has not looked at it yet.
GoesOn(h) ==
  /\ op'[h] = "manual" => stage[h] = "manual"
  /\ UNCHANGED serverVars

AuthStep(h) ==
  /\ A!Progress(h)
  /\ TurnsManual(h) \/ GoesOn(h)

\* Mutant: the handlers do not look at the error.
CallReturnedIgnoringErrors(h) ==
  /\ pc[h] = "idle"
  /\ S!AuthSucceeds(h) \/ S!ManualSucceeds(h)
  /\ UNCHANGED authVars

\* The handler looks at the result: it goes on to the upstream or writes its
\* response.  Other goroutines may have locked and truncated the file since.
CallReturned(h) ==
  /\ pc[h] = "idle"
  /\ \/ outcome[h] = "ok" /\ S!AuthSucceeds(h)
     \/ outcome[h] = "initiated" /\ S!ManualSucceeds(h)
     \/ outcome[h] = "error" /\ S!AuthFails(h)
     \/ outcome[h] = "error" /\ S!ManualFails(h)
  /\ UNCHANGED authVars

TimePasses == A!TimePasses /\ UNCHANGED serverVars

Next ==
  \/ Apart
  \/ StartupCall \/ StartupStep \/ StartupDone \/ Shutdown
  \/ \E h \in Handlers : CallAuth(h) \/ AuthStep(h) \/ CallReturned(h)
  \/ TimePasses

Spec == Init /\ [][Next]_vars

\* main runs, and the goroutines in AuthUseCase do (Auth); nothing else is
\* assumed of the handlers.
FairSpec ==
  /\ Spec
  /\ WF_vars(StartupCall) /\ WF_vars(StartupDone) /\ WF_vars(Shutdown)
  /\ WF_vars(S!Listen /\ UNCHANGED authVars)
  /\ WF_vars(S!BeginShutdown /\ UNCHANGED authVars)
  /\ SF_vars(StartupStep)
  /\ \A h \in Handlers : SF_vars(AuthStep(h))

-----------------------------------------------------------------------------
(* Properties. *)

TypeOK == S!TypeOK /\ A!TypeOK
OneResponse == S!OneResponse
SuccessNeedsUpstream == S!SuccessNeedsUpstream
Exits == S!Exits

ImplementsAuth == A!Spec
ImplementsServer == S!Spec

\* A request calls the upstream with credentials that have been stored, and with
\* the resource URL of their own account, whatever other requests have done
\* since it got them (proxy.go:66, 81).
CallsWithStoredCredentials ==
  \A h \in Handlers : stage[h] \in {"call", "body", "relay"} =>
    /\ cred[h] # A!NoCredential
    /\ version[cred[h].grant] > 0
    /\ cred[h].url = home[cred[h].grant]

\* "Server stopped gracefully" (main.go:188): a shutdown that has waited for
\* the handlers leaves intact credentials behind.  Only one that gave up cuts
\* off a save, and then the file is torn.
GracefulExitKeepsCredentials ==
  [][S!ShutdownDone /\ ~damaged => ~damaged']_vars

\* Whoever is told by /auth that there is a login, or that one has been made
\* (api.go:146, 181), is told so while a complete save is in the file, or while
\* another goroutine is just replacing one by the next: not over a file that is
\* missing or that somebody has left torn, whatever the other handlers have done
\* since its own call loaded or stored the credentials.
AuthAnswersTruly ==
  [][\A h \in Handlers :
       /\ kind[h] = "auth"
       /\ answer[h].status = 0 /\ answer'[h].status = 200
       => ~damaged']_vars
=============================================================================
