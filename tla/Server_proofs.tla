---------------------------- MODULE Server_proofs ---------------------------
(***************************************************************************)
(* What a client of Server receives, for any number of handlers: the type  *)
(* invariant, OneResponse and SuccessNeedsUpstream.  A handler writes only *)
(* when it returns, except in the relay, so its answer is empty until then *)
(* and holds at most events in the relay.                                  *)
(***************************************************************************)
EXTENDS Server, FiniteSetTheorems, TLAPS

\* Before it returns a handler has written nothing, or the events of a relay.
Quiet(h) ==
  /\ stage[h] \in {"begin", "auth", "manual", "call", "body"} => answer[h] = NoAnswer
  /\ stage[h] = "relay" =>
       answer[h].status \in {0, 200} /\ answer[h].parts \subseteq {"event"}

\* The response of h is of one part, and that of the upstream if it is a success.
Sound(h) ==
  /\ \A p, q \in answer[h].parts : p = q
  /\ kind[h] \in Proxied /\ answer[h].parts \cap {"json", "event"} # {}
       => answer[h].status = 200 /\ upstream[h] = "ok"

IInv ==
  /\ TypeOK
  /\ \A h \in Handlers : Quiet(h) /\ Sound(h)

-----------------------------------------------------------------------------
(* The two ways to write. *)

\* A handler that has written nothing returns with a response of one part.
LEMMA Answers ==
  ASSUME IInv, NEW h \in Handlers, answer[h] = NoAnswer,
         NEW s \in Statuses \ {0}, NEW part,
         part \in {{}, {"json"}, {"error"}},
         part = {"json"} /\ kind[h] \in Proxied => s = 200 /\ upstream[h] = "ok",
         Respond(h, s, part)
  PROVE  IInv'
<1>1. Written(h, s, part) \in [status: Statuses, parts: SUBSET Parts]
  BY DEF Written, NoAnswer, Parts, Statuses
<1>2. answer' = [answer EXCEPT ![h] = Written(h, s, part)] /\ stage' = [stage EXCEPT ![h] = "idle"]
  BY DEF Respond, Goto
<1>3. TypeOK'
  <2>1. answer' \in [Handlers -> [status: Statuses, parts: SUBSET Parts]]
    BY <1>1, <1>2 DEF IInv, TypeOK
  <2>2. stage' \in [Handlers -> Labels] /\ \A d \in Handlers : stage'[d] # "idle" => stage'[d] = stage[d]
    BY <1>2 DEF IInv, TypeOK, Labels
  <2> QED
    BY <2>1, <2>2 DEF IInv, TypeOK, Respond, mainVars
<1>4. \A d \in Handlers \ {h} : Quiet(d)' /\ Sound(d)'
  BY <1>2 DEF IInv, TypeOK, Quiet, Sound, Respond
<1>5. Quiet(h)'
  BY <1>2 DEF IInv, TypeOK, Quiet
<1>6. Sound(h)'
  <2>1. answer'[h] = Written(h, s, part) /\ kind' = kind /\ upstream' = upstream
    BY <1>2 DEF IInv, TypeOK, Respond
  <2>2. CASE late[h]
    BY <2>1, <2>2 DEF Written, NoAnswer, Sound
  <2>3. CASE ~late[h]
    <3>1. answer'[h].status = s /\ answer'[h].parts = part
      BY <2>1, <2>3 DEF Written, NoAnswer
    <3> QED
      BY <3>1, <2>1 DEF Sound
  <2> QED
    BY <2>2, <2>3
<1> QED
  BY <1>3, <1>4, <1>5, <1>6 DEF IInv

\* A relay writes its header, an event, or nothing more, and goes to l.
LEMMA Relays ==
  ASSUME IInv, NEW h \in Handlers, kind[h] = "stream", upstream[h] = "ok",
         answer[h].status \in {0, 200}, answer[h].parts \subseteq {"event"},
         NEW part \in {{}, {"event"}}, NEW l \in {"relay", "idle"},
         answer' = [answer EXCEPT ![h] = Written(h, 200, part)],
         stage' = [stage EXCEPT ![h] = l],
         UNCHANGED <<kind, upstream, late, mainVars>>
  PROVE  IInv'
<1>1. /\ Written(h, 200, part) \in [status: {0, 200}, parts: SUBSET {"event"}]
      /\ Written(h, 200, part).parts # {} =>
           Written(h, 200, part).status = 200 \/ answer[h].parts # {}
  BY DEF IInv, TypeOK, Written, Parts
<1>2. TypeOK'
  <2>1. answer' \in [Handlers -> [status: Statuses, parts: SUBSET Parts]]
    BY <1>1 DEF IInv, TypeOK, Parts, Statuses
  <2>2. /\ stage' \in [Handlers -> Labels]
        /\ \A d \in Handlers \ {h} : stage'[d] = stage[d]
        /\ stage'[h] = l
    BY DEF IInv, TypeOK, Labels
  <2> QED
    BY <2>1, <2>2 DEF IInv, TypeOK, mainVars, Proxied
<1>3. \A d \in Handlers \ {h} : Quiet(d)' /\ Sound(d)'
  BY DEF IInv, TypeOK, Quiet, Sound
<1>4. Quiet(h)'
  BY <1>1 DEF IInv, TypeOK, Quiet
<1>5. Sound(h)'
  <2>1. answer'[h] = Written(h, 200, part)
    BY DEF IInv, TypeOK
  <2>2. answer[h].parts # {} => answer[h].status = 200
    BY DEF IInv, Sound, Proxied
  <2>3. answer'[h].parts # {} => answer'[h].status = 200
    BY <1>1, <2>1, <2>2 DEF Written
  <2> QED
    BY <1>1, <2>1, <2>3 DEF Sound
<1> QED
  BY <1>2, <1>3, <1>4, <1>5 DEF IInv

-----------------------------------------------------------------------------
\* A handler that only moves on, or has its request answered by the upstream.
LEMMA Moves ==
  ASSUME IInv, NEW h \in Handlers, answer[h] = NoAnswer,
         NEW l \in {"auth", "manual", "call", "body"}, Goto(h, l),
         l \in {"call", "body"} => kind[h] \in Proxied,
         l = "manual" => kind[h] = "auth",
         \/ UNCHANGED upstream
         \/ \E a \in {"ok", "error"} : upstream' = [upstream EXCEPT ![h] = a],
         UNCHANGED <<kind, late, answer, mainVars>>
  PROVE  IInv'
<1>1. /\ stage' \in [Handlers -> Labels] /\ stage'[h] = l
      /\ upstream' \in [Handlers -> {"none", "ok", "error"}]
      /\ \A d \in Handlers \ {h} : stage'[d] = stage[d] /\ upstream'[d] = upstream[d]
  BY DEF IInv, TypeOK, Goto, Labels
<1>2. TypeOK'
  BY <1>1 DEF IInv, TypeOK, mainVars
<1>3. \A d \in Handlers : Quiet(d)' /\ Sound(d)'
  BY <1>1 DEF IInv, Quiet, Sound, NoAnswer
<1> QED
  BY <1>2, <1>3 DEF IInv

\* UseCaseFails before the handler has written anything.
LEMMA Failures ==
  ASSUME IInv, NEW h \in Handlers, answer[h] = NoAnswer, UseCaseFails(h)
  PROVE  IInv'
<1>1. CASE Respond(h, 500, {"error"})
  BY <1>1, Answers DEF Statuses
<1>2. CASE StreamFails(h)
  BY <1>2, Answers DEF StreamFails, Statuses
<1> QED
  BY <1>1, <1>2 DEF UseCaseFails

\* Answers, with the status spelled out.
LEMMA Replies ==
  ASSUME IInv, NEW h \in Handlers, answer[h] = NoAnswer,
         \/ \E s \in {204, 405} : Respond(h, s, {})
         \/ \E s \in {400, 404, 429, 500} : Respond(h, s, {"error"})
         \/ kind[h] \notin Proxied /\ Respond(h, 200, {"json"})
  PROVE  IInv'
<1>1. ASSUME NEW s \in {204, 405}, Respond(h, s, {}) PROVE IInv'
  <2>1. s \in Statuses \ {0}
    BY DEF Statuses
  <2> QED
    BY <1>1, <2>1, Answers
<1>2. ASSUME NEW s \in {400, 404, 429, 500}, Respond(h, s, {"error"}) PROVE IInv'
  <2>1. s \in Statuses \ {0}
    BY DEF Statuses
  <2> QED
    BY <1>2, <2>1, Answers
<1>3. CASE kind[h] \notin Proxied /\ Respond(h, 200, {"json"})
  BY <1>3, Answers DEF Statuses
<1> QED
  BY <1>1, <1>2, <1>3

LEMMA EnterIInv == ASSUME IInv, NEW h \in Handlers, Enter(h) PROVE IInv'
<1>1. answer[h] = NoAnswer
  BY DEF Enter, RateLimited, Preflight, NotFound, Static, BadRequest, At, IInv, Quiet
<1>2. CASE RateLimited(h)
  BY <1>1, <1>2, Replies DEF RateLimited
<1>3. CASE Preflight(h)
  BY <1>1, <1>3, Replies DEF Preflight
<1>4. CASE NotFound(h)
  BY <1>1, <1>4, Replies DEF NotFound
<1>5. CASE Static(h)
  BY <1>1, <1>5, Replies DEF Static, Proxied
<1>6. CASE BadRequest(h)
  BY <1>1, <1>6, Replies DEF BadRequest
<1> QED
  BY <1>2, <1>3, <1>4, <1>5, <1>6 DEF Enter

LEMMA AuthenticateIInv == ASSUME IInv, NEW h \in Handlers, Authenticate(h) PROVE IInv'
<1>1. answer[h] = NoAnswer
  BY DEF Authenticate, CallAuth, AuthSucceeds, AuthFails, ManualSucceeds, ManualFails, At,
         IInv, Quiet
<1>2. CASE CallAuth(h)
  BY <1>1, <1>2, Moves DEF CallAuth
<1>3. CASE AuthSucceeds(h)
  <2>1. CASE kind[h] \notin Proxied /\ Respond(h, 200, {"json"})
    BY <1>1, <2>1, Replies
  <2>2. CASE /\ kind[h] \in Proxied /\ Goto(h, "call")
             /\ UNCHANGED <<kind, upstream, late, answer, mainVars>>
    BY <1>1, <2>2, Moves
  <2> QED
    BY <1>3, <2>1, <2>2 DEF AuthSucceeds
<1>4. CASE AuthFails(h)
  <2>1. CASE kind[h] = "detailed" /\ Respond(h, 200, {"json"})
    BY <1>1, <2>1, Replies DEF Proxied
  <2>2. CASE UseCaseFails(h)
    BY <1>1, <2>2, Failures
  <2>3. CASE /\ kind[h] = "auth" /\ Goto(h, "manual")
             /\ UNCHANGED <<kind, upstream, late, answer, mainVars>>
    BY <1>1, <2>3, Moves
  <2> QED
    BY <1>4, <2>1, <2>2, <2>3 DEF AuthFails
<1>5. CASE ManualSucceeds(h)
  <2>1. kind[h] \notin Proxied
    BY <1>5 DEF ManualSucceeds, At, IInv, TypeOK, Proxied
  <2> QED
    BY <1>1, <1>5, <2>1, Replies DEF ManualSucceeds
<1>6. CASE ManualFails(h)
  BY <1>1, <1>6, Replies DEF ManualFails
<1> QED
  BY <1>2, <1>3, <1>4, <1>5, <1>6 DEF Authenticate

LEMMA ProxyIInv == ASSUME IInv, NEW h \in Handlers, Proxy(h) PROVE IInv'
<1>0. stage[h] \in {"call", "body"} => answer[h] = NoAnswer
  BY DEF IInv, Quiet
<1>1. CASE CallFails(h)
  BY <1>0, <1>1, Failures DEF CallFails, At
<1>2. CASE CallAnswered(h)
  <2>1. kind[h] \in Proxied
    BY <1>2 DEF CallAnswered, At, IInv, TypeOK
  <2> QED
    BY <1>0, <1>2, <2>1, Moves DEF CallAnswered, At
<1>3. CASE ReadBody(h)
  <2>0. answer[h] = NoAnswer
    BY <1>0, <1>3 DEF ReadBody, At
  <2>1. CASE UseCaseFails(h)
    BY <2>0, <2>1, Failures
  <2>2. CASE upstream[h] = "ok" /\ Respond(h, 200, {"json"})
    BY <2>0, <2>2, Answers DEF Statuses
  <2>3. CASE Respond(h, 500, {"error"})
    BY <2>0, <2>3, Replies
  <2>4. CASE /\ upstream[h] = "ok" /\ kind[h] = "stream"
             /\ answer' = [answer EXCEPT ![h] = Written(h, 200, {})]
             /\ Goto(h, "relay")
             /\ UNCHANGED <<kind, upstream, late, mainVars>>
    <3>1. answer[h].status \in {0, 200} /\ answer[h].parts \subseteq {"event"}
      BY <2>0 DEF NoAnswer
    <3>2. stage' = [stage EXCEPT ![h] = "relay"]
      BY <2>4 DEF Goto
    <3> QED
      BY <2>4, <3>1, <3>2, Relays
  <2> QED
    BY <1>3, <2>1, <2>2, <2>3, <2>4 DEF ReadBody
<1>4. CASE RelayEvent(h)
  <2>1. /\ kind[h] = "stream" /\ upstream[h] = "ok"
        /\ answer[h].status \in {0, 200} /\ answer[h].parts \subseteq {"event"}
    BY <1>4 DEF RelayEvent, At, IInv, TypeOK, Quiet
  <2>2. stage' = [stage EXCEPT ![h] = "relay"]
    BY <1>4 DEF RelayEvent, At, IInv, TypeOK
  <2> QED
    BY <1>4, <2>1, <2>2, Relays DEF RelayEvent
<1>5. CASE RelayEnds(h)
  <2>1. /\ kind[h] = "stream" /\ upstream[h] = "ok"
        /\ answer[h].status \in {0, 200} /\ answer[h].parts \subseteq {"event"}
    BY <1>5 DEF RelayEnds, At, IInv, TypeOK, Quiet
  <2>2. Respond(h, 200, {})
    BY <1>5, <2>1 DEF RelayEnds, UseCaseFails, StreamFails
  <2> QED
    BY <2>1, <2>2, Relays DEF Respond, Goto
<1> QED
  BY <1>1, <1>2, <1>3, <1>4, <1>5 DEF Proxy

-----------------------------------------------------------------------------
\* Steps of main, a signal and the end of the process write nothing.
LEMMA MainIInv == ASSUME IInv, Lifecycle \/ Signal PROVE IInv'
<1>1. /\ UNCHANGED <<kind, upstream, late, answer>>
      /\ \/ stage' = stage
         \/ stage' = [h \in Handlers |-> "idle"]
  BY DEF Lifecycle, Signal, LoadConfig, LoadConfigFails, StartupDone, Listen, ListenFails,
         BeginShutdown, ShutdownDone, ShutdownTimesOut, Restart, Exit, handlerVars
<1>2. /\ main' \in {"loading", "startup", "serving", "draining", "exited"}
      /\ listener' \in {"none", "spawned", "open", "failed", "closed"}
      /\ signalled' \in BOOLEAN
  <2>1. CASE LoadConfig \/ StartupDone \/ Listen \/ ListenFails \/ BeginShutdown
             \/ Signal \/ Restart
    <3>1. main' = main \/ main' \in {"loading", "startup", "serving", "draining"}
      BY <2>1 DEF LoadConfig, StartupDone, Listen, ListenFails, BeginShutdown, Signal, Restart
    <3>2. listener' = listener \/ listener' \in {"none", "spawned", "open", "failed", "closed"}
      BY <2>1 DEF LoadConfig, StartupDone, Listen, ListenFails, BeginShutdown, Signal, Restart
    <3>3. signalled' = signalled \/ signalled' = TRUE \/ signalled' = FALSE
      BY <2>1 DEF LoadConfig, StartupDone, Listen, ListenFails, BeginShutdown, Signal, Restart
    <3>4. signalled' \in BOOLEAN
      <4>1. signalled \in BOOLEAN
        BY DEF IInv, TypeOK
      <4> QED
        BY <3>3, <4>1, Zenon
    <3> QED
      BY <3>1, <3>2, <3>4 DEF IInv, TypeOK
  <2>2. CASE Exit
    BY <2>2 DEF Exit, IInv, TypeOK
  <2> QED
    BY <2>1, <2>2 DEF Lifecycle, LoadConfigFails, ShutdownDone, ShutdownTimesOut
<1>3. TypeOK'
  BY <1>1, <1>2 DEF IInv, TypeOK, Labels
<1>4. \A h \in Handlers : Quiet(h)' /\ Sound(h)'
  BY <1>1 DEF IInv, Quiet, Sound
<1> QED
  BY <1>3, <1>4 DEF IInv

LEMMA ArriveIInv ==
  ASSUME IInv, NEW h \in Handlers, NEW k \in Kinds, Arrive(h, k)
  PROVE  IInv'
<1>1. /\ stage' = [stage EXCEPT ![h] = "begin"]
      /\ kind' = [kind EXCEPT ![h] = k]
      /\ upstream' = [upstream EXCEPT ![h] = "none"]
      /\ late' = [late EXCEPT ![h] = FALSE]
      /\ answer' = [answer EXCEPT ![h] = NoAnswer]
      /\ UNCHANGED mainVars
  BY DEF Arrive, Goto
<1>2. \A d \in Handlers \ {h} : /\ stage'[d] = stage[d] /\ kind'[d] = kind[d]
                                /\ upstream'[d] = upstream[d] /\ answer'[d] = answer[d]
  BY <1>1 DEF IInv, TypeOK
<1>3. stage'[h] = "begin" /\ answer'[h] = NoAnswer
  BY <1>1 DEF IInv, TypeOK
<1>4. TypeOK'
  <2>1. NoAnswer \in [status: Statuses, parts: SUBSET Parts]
    BY DEF NoAnswer, Statuses
  <2>2. /\ stage' \in [Handlers -> Labels] /\ kind' \in [Handlers -> Kinds]
        /\ upstream' \in [Handlers -> {"none", "ok", "error"}]
        /\ late' \in [Handlers -> BOOLEAN]
        /\ answer' \in [Handlers -> [status: Statuses, parts: SUBSET Parts]]
    BY <1>1, <2>1 DEF IInv, TypeOK, Labels
  <2>3. UNCHANGED <<main, listener, signalled>>
    BY <1>1 DEF mainVars
  <2>4. \A d \in Handlers :
          /\ stage'[d] \in {"call", "body", "relay"} => kind'[d] \in Proxied
          /\ stage'[d] = "manual" => kind'[d] = "auth"
          /\ stage'[d] = "relay" => kind'[d] = "stream" /\ upstream'[d] = "ok"
    BY <1>2, <1>3 DEF IInv, TypeOK
  <2> QED
    BY <2>2, <2>3, <2>4 DEF IInv, TypeOK
<1>5. \A d \in Handlers : Quiet(d)' /\ Sound(d)'
  BY <1>2, <1>3 DEF IInv, Quiet, Sound, NoAnswer
<1> QED
  BY <1>4, <1>5 DEF IInv

LEMMA InitIInv == Init => IInv
<1> SUFFICES ASSUME Init PROVE IInv
  OBVIOUS
<1>1. NoAnswer \in [status: Statuses, parts: SUBSET Parts]
  BY DEF NoAnswer, Statuses
<1>2. TypeOK
  <2>1. /\ main = "loading" /\ listener = "none" /\ signalled \in BOOLEAN
        /\ \A h \in Handlers : stage[h] = "idle"
    BY DEF Init
  <2>2. stage \in [Handlers -> Labels] /\ kind \in [Handlers -> Kinds]
    BY DEF Init, Labels, Kinds
  <2>3. upstream \in [Handlers -> {"none", "ok", "error"}] /\ late \in [Handlers -> BOOLEAN]
    BY DEF Init
  <2>4. answer \in [Handlers -> [status: Statuses, parts: SUBSET Parts]]
    BY <1>1 DEF Init
  <2> QED
    BY <2>1, <2>2, <2>3, <2>4 DEF TypeOK
<1>3. \A h \in Handlers : Quiet(h) /\ Sound(h)
  BY DEF Init, Quiet, Sound, NoAnswer
<1> QED
  BY <1>2, <1>3 DEF IInv

LEMMA NextIInv == IInv /\ [Next]_vars => IInv'
<1> SUFFICES ASSUME IInv, [Next]_vars PROVE IInv'
  OBVIOUS
<1>1. CASE Lifecycle \/ Signal
  BY <1>1, MainIInv
<1>2. ASSUME NEW h \in Handlers, Progress(h) PROVE IInv'
  BY <1>2, EnterIInv, AuthenticateIInv, ProxyIInv DEF Progress
<1>3. ASSUME NEW h \in Handlers, DeadlinePasses(h) PROVE IInv'
  <2>1. late' \in [Handlers -> BOOLEAN] /\ UNCHANGED <<stage, kind, upstream, answer, mainVars>>
    BY <1>3 DEF DeadlinePasses, IInv, TypeOK
  <2> QED
    BY <2>1 DEF IInv, TypeOK, Quiet, Sound, mainVars
<1>4. ASSUME NEW h \in Handlers, NEW k \in Serves[h] \cap Kinds, Arrive(h, k) PROVE IInv'
  BY <1>4, ArriveIInv
<1>5. CASE UNCHANGED vars
  BY <1>5 DEF IInv, TypeOK, Quiet, Sound, vars, mainVars, handlerVars
<1> QED
  BY <1>1, <1>2, <1>3, <1>4, <1>5 DEF Next

-----------------------------------------------------------------------------
\* The inductive invariant: what a handler has written at each point of its
\* way through APIController and ProxyUseCase.
THEOREM Invariance == Spec => []IInv
<1>1. Init => IInv
  BY InitIInv
<1>2. IInv /\ [Next]_vars => IInv'
  BY NextIInv
<1> QED
  BY <1>1, <1>2, PTL DEF Spec

\* Every variable keeps its type, and a handler is at a point its kind of
\* request can reach.
THEOREM TypeCorrect == Spec => []TypeOK
<1>1. IInv => TypeOK
  BY DEF IInv
<1> QED
  BY <1>1, Invariance, PTL

\* A client never receives an error behind a response or inside a stream.
THEOREM SingleResponse == Spec => []OneResponse
<1>1. IInv => OneResponse
  <2> SUFFICES ASSUME IInv, NEW h \in Handlers PROVE Cardinality(answer[h].parts) <= 1
    BY DEF OneResponse
  <2>1. \A p, q \in answer[h].parts : p = q
    BY DEF IInv, Sound
  <2>2. CASE answer[h].parts = {}
    <3>1. Cardinality(answer[h].parts) = 0
      BY <2>2, FS_EmptySet
    <3> QED
      BY <3>1
  <2>3. CASE \E p : p \in answer[h].parts
    <3>1. PICK p : answer[h].parts = {p}
      BY <2>1, <2>3
    <3>2. Cardinality(answer[h].parts) = 1
      BY <3>1, FS_Singleton
    <3> QED
      BY <3>2
  <2> QED
    BY <2>2, <2>3
<1> QED
  BY <1>1, Invariance, PTL

\* A completion or an event reaches only clients whose own request the
\* upstream has answered with status 200.
THEOREM SuccessFromUpstream == Spec => []SuccessNeedsUpstream
<1>1. IInv => SuccessNeedsUpstream
  BY DEF IInv, Sound, SuccessNeedsUpstream
<1> QED
  BY <1>1, Invariance, PTL
=============================================================================
