---------------------------- MODULE System_proofs ---------------------------
(***************************************************************************)
(* Proofs about System for any number of handlers: it implements both its  *)
(* parts, so what is proved of Auth and Server holds in the whole process; *)
(* and a joint invariant ties the point a handler has reached in Server to *)
(* where it stands in Auth, from which the two properties that neither     *)
(* part can state by itself follow.                                        *)
(***************************************************************************)
EXTENDS System, TLAPS

\* The modules of the proofs, instantiated like S and A themselves.
SP == INSTANCE Server_proofs
AP == INSTANCE Auth_proofs

-----------------------------------------------------------------------------
(* A and AP, and S and SP, are instances of the same modules. *)

LEMMA AuthAssumptions ==
  /\ AP!MaxGrantsAssumption /\ AP!UrlAssumption
  /\ AP!CallersAssumption /\ AP!FaultsAssumption
BY GrantsAssumption, NoUrlAssumption, NoneAssumption, ExitAssumption
   DEF AP!MaxGrantsAssumption, AP!UrlAssumption, AP!CallersAssumption, AP!FaultsAssumption,
       AP!FaultKinds, Callers

LEMMA SameAuthInit == A!Init <=> AP!Init
BY DEF A!Init, AP!Init, A!RepoInit, AP!RepoInit, A!OAuthInit, AP!OAuthInit,
   A!Absent, AP!Absent, A!NoCredential, AP!NoCredential, A!NoToken, AP!NoToken,
   A!Grants, AP!Grants

LEMMA SameAuthNext ==
  /\ A!Next <=> AP!Next
  /\ UNCHANGED A!vars <=> UNCHANGED AP!vars
  /\ \A c \in Callers : A!Progress(c) <=> AP!Progress(c)
BY DEF A!Grants, AP!Grants, A!NoToken, AP!NoToken, A!Resource, AP!Resource,
   A!Credential, AP!Credential, A!NoCredential, AP!NoCredential, A!repoVars, AP!repoVars,
   A!File, AP!File, A!Absent, AP!Absent, A!Torn, AP!Torn, A!Holding, AP!Holding,
   A!Loads, AP!Loads, A!ReadFails, AP!ReadFails, A!LoadFails, AP!LoadFails, A!OpenFails, AP!OpenFails, A!Truncate, AP!Truncate,
   A!CompleteWrite, AP!CompleteWrite, A!WriteFails, AP!WriteFails,
   A!ProcessDies, AP!ProcessDies, A!DirectoryCleared, AP!DirectoryCleared,
   A!oauthVars, AP!oauthVars, A!NextGrant, AP!NextGrant, A!Issue, AP!Issue,
   A!Answer, AP!Answer, A!TokensAfterRefresh, AP!TokensAfterRefresh,
   A!TokensAfterDevice, AP!TokensAfterDevice, A!ServiceFails, AP!ServiceFails,
   A!Expire, AP!Expire, A!callerVars, AP!callerVars, A!lockVars, AP!lockVars, A!vars, AP!vars,
   A!At, AP!At, A!Goto, AP!Goto, A!Take, AP!Take, A!Forget, AP!Forget, A!Readable, AP!Readable,
   A!IsExpired, AP!IsExpired, A!ReleaseRefresh, AP!ReleaseRefresh, A!Finish, AP!Finish,
   A!Succeed, AP!Succeed, A!GoManual, AP!GoManual, A!Fail, AP!Fail,
   A!StartDeviceFlow, AP!StartDeviceFlow, A!Call, AP!Call, A!Load, AP!Load,
   A!CheckExpiry, AP!CheckExpiry, A!LockRefresh, AP!LockRefresh, A!Recheck, AP!Recheck,
   A!Reload, AP!Reload, A!Refresh, AP!Refresh, A!RefreshAnswered, AP!RefreshAnswered,
   A!RefreshFails, AP!RefreshFails, A!DeviceGranted, AP!DeviceGranted,
   A!DeviceFails, AP!DeviceFails, A!SaveFailed, AP!SaveFailed, A!BeginSave, AP!BeginSave,
   A!SaveNotOpened, AP!SaveNotOpened, A!SaveCompletes, AP!SaveCompletes,
   A!SaveTears, AP!SaveTears, A!TimePasses, AP!TimePasses, A!Crash, AP!Crash,
   A!ClearDirectory, AP!ClearDirectory, A!Progress, AP!Progress, A!Next, AP!Next

LEMMA SameAuthInv ==
  /\ A!IInv <=> AP!IInv
  /\ A!TypeOK <=> AP!TypeOK
BY DEF A!IInv, AP!IInv, A!TypeOK, AP!TypeOK, A!RepoTypeOK, AP!RepoTypeOK,
   A!OAuthTypeOK, AP!OAuthTypeOK, A!LockInv, AP!LockInv, A!StoreInv, AP!StoreInv,
   A!HandInv, AP!HandInv, A!InUse, AP!InUse, A!TokenInv, AP!TokenInv, A!FreshInv, AP!FreshInv,
   A!Unsaved, AP!Unsaved, A!Loaded, AP!Loaded, A!Genuine, AP!Genuine, A!Labels, AP!Labels,
   A!Operations, AP!Operations, A!Outcomes, AP!Outcomes,
   A!TokenMatchesResource, AP!TokenMatchesResource, A!At, AP!At, A!Loads, AP!Loads,
   A!Grants, AP!Grants, A!Credential, AP!Credential, A!NoCredential, AP!NoCredential,
   A!Resource, AP!Resource, A!NoToken, AP!NoToken, A!File, AP!File

LEMMA SameServer ==
  /\ S!Init <=> SP!Init
  /\ S!Next <=> SP!Next
  /\ UNCHANGED S!vars <=> UNCHANGED SP!vars
BY DEF S!Init, SP!Init, S!Next, SP!Next, S!Lifecycle, SP!Lifecycle, S!Signal, SP!Signal,
   S!Progress, SP!Progress, S!Enter, SP!Enter, S!Authenticate, SP!Authenticate,
   S!Proxy, SP!Proxy, S!LoadConfig, SP!LoadConfig, S!LoadConfigFails, SP!LoadConfigFails,
   S!StartupDone, SP!StartupDone, S!Listen, SP!Listen, S!ListenFails, SP!ListenFails,
   S!BeginShutdown, SP!BeginShutdown, S!ShutdownDone, SP!ShutdownDone,
   S!ShutdownTimesOut, SP!ShutdownTimesOut, S!Restart, SP!Restart, S!Exit, SP!Exit,
   S!Arrive, SP!Arrive, S!RateLimited, SP!RateLimited, S!Preflight, SP!Preflight,
   S!NotFound, SP!NotFound, S!Static, SP!Static, S!BadRequest, SP!BadRequest,
   S!CallAuth, SP!CallAuth, S!AuthSucceeds, SP!AuthSucceeds, S!AuthFails, SP!AuthFails,
   S!ManualSucceeds, SP!ManualSucceeds, S!ManualFails, SP!ManualFails,
   S!CallFails, SP!CallFails, S!CallAnswered, SP!CallAnswered, S!ReadBody, SP!ReadBody,
   S!RelayEvent, SP!RelayEvent, S!RelayEnds, SP!RelayEnds, S!DeadlinePasses, SP!DeadlinePasses,
   S!UseCaseFails, SP!UseCaseFails, S!StreamFails, SP!StreamFails, S!Respond, SP!Respond,
   S!Written, SP!Written, S!Goto, SP!Goto, S!At, SP!At, S!NoAnswer, SP!NoAnswer,
   S!Kinds, SP!Kinds, S!Proxied, SP!Proxied, S!vars, SP!vars, S!mainVars, SP!mainVars,
   S!handlerVars, SP!handlerVars

LEMMA SameServerType == S!TypeOK <=> SP!TypeOK
BY DEF S!TypeOK, SP!TypeOK, S!Labels, SP!Labels, S!Parts, SP!Parts, S!Statuses, SP!Statuses,
   S!Kinds, SP!Kinds, S!Proxied, SP!Proxied

LEMMA SameResponses ==
  /\ S!OneResponse <=> SP!OneResponse
  /\ S!SuccessNeedsUpstream <=> SP!SuccessNeedsUpstream
BY DEF S!OneResponse, SP!OneResponse, S!SuccessNeedsUpstream, SP!SuccessNeedsUpstream,
   S!Proxied, SP!Proxied, S!Cardinality, SP!Cardinality

-----------------------------------------------------------------------------
(* Every step of System is a step of both parts, or leaves one as it is. *)

LEMMA AuthSteps == [Next]_vars => [A!Next]_(A!vars)
<1> SUFFICES ASSUME [Next]_vars PROVE [A!Next]_(A!vars)
  OBVIOUS
<1>1. CASE UNCHANGED authVars
  BY <1>1 DEF authVars, A!vars, A!callerVars, A!lockVars, A!repoVars, A!oauthVars
<1>2. CASE StartupCall
  <2>1. Main \in Callers
    BY DEF Callers
  <2> QED
    BY <1>2, <2>1 DEF StartupCall, A!Next
<1>3. CASE StartupStep
  <2>1. Main \in Callers
    BY DEF Callers
  <2> QED
    BY <1>3, <2>1 DEF StartupStep, A!Next
<1>4. CASE Shutdown
  BY <1>4 DEF Shutdown, A!Next
<1>5. ASSUME NEW h \in Handlers, CallAuth(h) PROVE A!Next
  <2>1. PICK o \in {"ensure", "handler"} : A!Call(h, o)
    BY <1>5 DEF CallAuth
  <2>2. h \in Callers
    BY DEF Callers
  <2> QED
    BY <2>1, <2>2 DEF A!Next
<1>6. ASSUME NEW h \in Handlers, AuthStep(h) PROVE A!Next
  <2>1. h \in Callers /\ A!Progress(h)
    BY <1>6 DEF Callers, AuthStep
  <2> QED
    BY <2>1 DEF A!Next
<1>7. CASE TimePasses
  BY <1>7 DEF TimePasses, A!Next
<1> QED
  BY <1>1, <1>2, <1>3, <1>4, <1>5, <1>6, <1>7 DEF Next, Apart, StartupDone, CallReturned, vars

LEMMA ServerSteps == [Next]_vars => [S!Next]_(S!vars)
<1> SUFFICES ASSUME [Next]_vars PROVE [S!Next]_(S!vars)
  OBVIOUS
<1>1. CASE UNCHANGED serverVars
  BY <1>1 DEF serverVars, S!vars, S!mainVars, S!handlerVars
<1>2. CASE Apart
  BY <1>2 DEF Apart, S!Next, S!Lifecycle, S!Progress
<1>3. CASE StartupDone \/ Shutdown
  BY <1>3 DEF StartupDone, Shutdown, S!Next, S!Lifecycle
<1>4. ASSUME NEW h \in Handlers, CallAuth(h) PROVE S!Next
  BY <1>4 DEF CallAuth, S!Next, S!Progress, S!Authenticate
<1>5. ASSUME NEW h \in Handlers, AuthStep(h) PROVE [S!Next]_(S!vars)
  <2>1. S!Authenticate(h) \/ UNCHANGED serverVars
    BY <1>5 DEF AuthStep, TurnsManual, GoesOn, S!Authenticate
  <2> QED
    BY <1>1, <2>1 DEF S!Next, S!Progress
<1>6. ASSUME NEW h \in Handlers, CallReturned(h) PROVE S!Next
  BY <1>6 DEF CallReturned, S!Next, S!Progress, S!Authenticate
<1> QED
  BY <1>1, <1>2, <1>3, <1>4, <1>5, <1>6 DEF Next, StartupCall, StartupStep, TimePasses, vars

\* Every behaviour of the process is one of AuthUseCase, so what holds of Auth
\* with any callers holds with main and the handlers as its callers.
THEOREM AuthImplemented == Spec => ImplementsAuth
<1>1. Init => A!Init
  BY DEF Init
<1> QED
  BY <1>1, AuthSteps, PTL DEF Spec, ImplementsAuth, A!Spec

\* Likewise of the server: the answers of EnsureAuthenticated that Server takes
\* as they come are those that Auth gives.
THEOREM ServerImplemented == Spec => ImplementsServer
<1>1. Init => S!Init
  BY DEF Init
<1> QED
  BY <1>1, ServerSteps, PTL DEF Spec, ImplementsServer, S!Spec

\* The inductive invariants of the parts, in terms of System.
LEMMA PartsInvariance == Spec => [](A!IInv /\ S!TypeOK)
<1>1. AP!Spec => []AP!IInv
  BY AuthAssumptions, AP!Invariance, PTL
<1>2. SP!Spec => []SP!TypeOK
  BY SP!TypeCorrect, PTL
<1>3. Init => AP!Init /\ SP!Init
  BY SameAuthInit, SameServer DEF Init
<1>4. [Next]_vars => [AP!Next]_(AP!vars) /\ [SP!Next]_(SP!vars)
  BY AuthSteps, ServerSteps, SameAuthNext, SameServer
<1>5. AP!IInv /\ SP!TypeOK => A!IInv /\ S!TypeOK
  BY SameAuthInv, SameServerType
<1> QED
  BY <1>1, <1>2, <1>3, <1>4, <1>5, PTL DEF Spec, AP!Spec, SP!Spec

\* Every variable of both parts keeps its type.
THEOREM TypeCorrect == Spec => []TypeOK
<1>1. A!IInv /\ S!TypeOK => TypeOK
  BY DEF TypeOK, A!IInv
<1> QED
  BY <1>1, PartsInvariance, PTL

LEMMA ResponsesAlways == Spec => [](S!OneResponse /\ S!SuccessNeedsUpstream)
<1>1. SP!Spec => []SP!OneResponse
  BY SP!SingleResponse, PTL
<1>2. SP!Spec => []SP!SuccessNeedsUpstream
  BY SP!SuccessFromUpstream, PTL
<1>3. Init => SP!Init
  BY SameServer DEF Init
<1>4. [Next]_vars => [SP!Next]_(SP!vars)
  BY ServerSteps, SameServer
<1>5. SP!OneResponse /\ SP!SuccessNeedsUpstream => S!OneResponse /\ S!SuccessNeedsUpstream
  BY SameResponses
<1> QED
  BY <1>1, <1>2, <1>3, <1>4, <1>5, PTL DEF Spec, SP!Spec

\* A client of the process receives one response.
THEOREM SingleResponse == Spec => []OneResponse
<1>1. S!OneResponse => OneResponse
  BY DEF OneResponse
<1> QED
  BY <1>1, ResponsesAlways, PTL

\* A completion or an event reaches only clients whose own request the
\* upstream has answered with status 200.
THEOREM SuccessFromUpstream == Spec => []SuccessNeedsUpstream
<1>1. S!SuccessNeedsUpstream => SuccessNeedsUpstream
  BY DEF SuccessNeedsUpstream
<1> QED
  BY <1>1, ResponsesAlways, PTL

-----------------------------------------------------------------------------
(* The joint invariant. *)

\* A handler of Server stands at AuthUseCase while it is a caller of Auth under
\* way, in the call its request asks for, and until it has looked at the result.
Linked(h) ==
  /\ pc[h] # "idle" => stage[h] \in {"auth", "manual"}
  /\ stage[h] = "auth" => op[h] = IF kind[h] = "auth" THEN "handler" ELSE "ensure"
  /\ stage[h] = "manual" => op[h] = "manual"
  /\ pc[h] = "idle" /\ stage[h] = "auth" =>
       outcome[h] = "ok" \/ (outcome[h] = "error" /\ kind[h] # "auth")
  /\ pc[h] = "idle" /\ stage[h] = "manual" => outcome[h] \in {"initiated", "error"}

\* h has been given credentials, whether it has looked at them yet or not.
Given(h) ==
  \/ stage[h] \in {"call", "body", "relay"}
  \/ pc[h] = "idle" /\ stage[h] = "auth" /\ outcome[h] = "ok"

\* A handler past AuthUseCase holds credentials that have been stored.
Equipped(h) == Given(h) => cred[h] # AP!NoCredential /\ AP!Stored(cred[h])

JInv ==
  /\ \A h \in Handlers : Linked(h) /\ Equipped(h)
  /\ pc[Main] # "idle" => main = "startup"
  /\ main \in {"loading", "startup", "exited"} => \A h \in Handlers : stage[h] = "idle"
  /\ listener = "open" => main = "serving"
  /\ AP!WriterWrites

\* The inductive invariants of the parts.
Parts == AP!IInv /\ SP!TypeOK

LEMMA PartsTypes ==
  ASSUME Parts
  PROVE  /\ AP!TypeOK /\ SP!TypeOK
         /\ stage \in [Handlers -> SP!Labels] /\ kind \in [Handlers -> SP!Kinds]
         /\ pc \in [Callers -> AP!Labels] /\ op \in [Callers -> AP!Operations]
BY DEF Parts, AP!IInv, AP!TypeOK, SP!TypeOK

\* Steps of the server that do not touch AuthUseCase take no handler into it,
\* and none to the upstream that was not there already.
LEMMA ApartStages ==
  ASSUME Parts, JInv, Apart
  PROVE  /\ \A h \in Handlers :
              \/ stage'[h] = stage[h] /\ kind'[h] = kind[h]
              \/ /\ stage[h] \notin {"auth", "manual"} /\ stage'[h] \notin {"auth", "manual"}
                 /\ stage'[h] \in {"call", "body", "relay"} => stage[h] \in {"call", "body", "relay"}
         /\ main' \in {"loading", "startup", "exited"} => \A h \in Handlers : stage'[h] = "idle"
         /\ listener' = "open" => main' = "serving"
         /\ pc[Main] # "idle" => main' = "startup"
<1> USE DEF S!At, S!Goto
<1>0. stage \in [Handlers -> SP!Labels] /\ kind \in [Handlers -> SP!Kinds]
  BY PartsTypes
<1>1. CASE S!LoadConfig \/ S!Listen \/ S!ListenFails \/ S!BeginShutdown \/ S!Restart \/ S!Signal
  BY <1>1 DEF S!LoadConfig, S!Listen, S!ListenFails, S!BeginShutdown, S!Restart, S!Signal,
     S!handlerVars, JInv
<1>2. CASE S!LoadConfigFails
  BY <1>2 DEF S!LoadConfigFails, S!Exit, JInv
<1>3. ASSUME NEW h \in Handlers, stage[h] \in {"begin", "call", "body", "relay"},
             NEW l \in {"idle", "body", "relay"}, stage' = [stage EXCEPT ![h] = l],
             stage[h] = "begin" => l = "idle", UNCHANGED <<kind, main, listener>>
      PROVE  /\ \A d \in Handlers :
                  \/ stage'[d] = stage[d] /\ kind'[d] = kind[d]
                  \/ /\ stage[d] \notin {"auth", "manual"} /\ stage'[d] \notin {"auth", "manual"}
                     /\ stage'[d] \in {"call", "body", "relay"} => stage[d] \in {"call", "body", "relay"}
             /\ main' \in {"loading", "startup", "exited"} => \A d \in Handlers : stage'[d] = "idle"
             /\ listener' = "open" => main' = "serving"
             /\ pc[Main] # "idle" => main' = "startup"
  BY <1>0, <1>3 DEF JInv
<1>4. ASSUME NEW h \in Handlers, S!Enter(h)
      PROVE  /\ stage[h] = "begin" /\ stage' = [stage EXCEPT ![h] = "idle"]
             /\ UNCHANGED <<kind, main, listener>>
  BY <1>4 DEF S!Enter, S!RateLimited, S!Preflight, S!NotFound, S!Static, S!BadRequest, S!Respond,
     S!mainVars
<1>5. ASSUME NEW h \in Handlers, S!Proxy(h)
      PROVE  /\ stage[h] \in {"call", "body", "relay"} /\ UNCHANGED <<kind, main, listener>>
             /\ \E l \in {"idle", "body", "relay"} : stage' = [stage EXCEPT ![h] = l]
  <2>1. ASSUME NEW st, NEW part, S!Respond(h, st, part)
        PROVE  stage' = [stage EXCEPT ![h] = "idle"] /\ UNCHANGED <<kind, main, listener>>
    BY <2>1 DEF S!Respond, S!mainVars
  <2>2. CASE S!UseCaseFails(h) /\ stage[h] \in {"call", "body", "relay"}
    BY <2>1, <2>2 DEF S!UseCaseFails, S!StreamFails
  <2>3. CASE S!CallFails(h)
    BY <2>2, <2>3 DEF S!CallFails
  <2>4. CASE S!CallAnswered(h)
    BY <2>4 DEF S!CallAnswered, S!mainVars
  <2>5. CASE S!ReadBody(h)
    BY <2>1, <2>2, <2>5 DEF S!ReadBody, S!mainVars
  <2>6. CASE S!RelayEvent(h)
    <3>1. stage' = [stage EXCEPT ![h] = "relay"]
      BY <1>0, <2>6 DEF S!RelayEvent
    <3> QED
      BY <2>6, <3>1 DEF S!RelayEvent, S!mainVars
  <2>7. CASE S!RelayEnds(h)
    BY <2>1, <2>2, <2>7 DEF S!RelayEnds
  <2> QED
    BY <1>5, <2>3, <2>4, <2>5, <2>6, <2>7 DEF S!Proxy
<1>6. ASSUME NEW h \in Handlers, S!Enter(h) \/ S!Proxy(h)
      PROVE  \E l \in {"idle", "body", "relay"} :
               /\ stage[h] \in {"begin", "call", "body", "relay"}
               /\ stage' = [stage EXCEPT ![h] = l]
               /\ stage[h] = "begin" => l = "idle"
               /\ UNCHANGED <<kind, main, listener>>
  BY <1>4, <1>5, <1>6
<1>7. CASE \E h \in Handlers : S!Enter(h) \/ S!Proxy(h)
  BY <1>3, <1>6, <1>7
<1>8. CASE \E h \in Handlers : S!DeadlinePasses(h)
  BY <1>8 DEF S!DeadlinePasses, S!mainVars, JInv
<1>9. ASSUME NEW h \in Handlers, NEW k, S!Arrive(h, k)
      PROVE  /\ stage[h] = "idle" /\ stage' = [stage EXCEPT ![h] = "begin"]
             /\ kind' = [kind EXCEPT ![h] = k] /\ main' = "serving" /\ main = "serving"
  BY <1>9 DEF S!Arrive, S!mainVars, JInv
<1>10. CASE \E h \in Handlers : \E k \in Serves[h] \cap S!Kinds : S!Arrive(h, k)
  <2>1. PICK h \in Handlers : \E k \in Serves[h] \cap S!Kinds : S!Arrive(h, k)
    BY <1>10
  <2>2. PICK k \in Serves[h] \cap S!Kinds : S!Arrive(h, k)
    BY <2>1
  <2> QED
    BY <1>0, <1>9, <2>2 DEF JInv
<1> QED
  BY <1>1, <1>2, <1>7, <1>8, <1>10 DEF Apart

LEMMA ApartJInv ==
  ASSUME Parts, JInv, Apart
  PROVE  JInv'
<1>1. /\ UNCHANGED <<pc, op, cred, outcome, tokenWriter, version, home, issued>>
      /\ \A h \in Handlers : AP!Stored(cred[h])' <=> AP!Stored(cred[h])
  BY DEF Apart, authVars, AP!Stored, AP!Genuine
<1>2. \A h \in Handlers : Linked(h)' /\ Equipped(h)'
  BY <1>1, ApartStages DEF JInv, Linked, Given, Equipped
<1>3. AP!WriterWrites'
  BY <1>1 DEF JInv, AP!WriterWrites, AP!At
<1> QED
  BY <1>1, <1>2, <1>3, ApartStages DEF JInv

\* What the callers who do not move keep, and what a step of one may change.
LEMMA OthersKeep ==
  ASSUME Parts, Parts', JInv, [AP!Next]_(AP!vars), NEW c \in Callers,
         AP!Progress(c) \/ \E o : AP!Call(c, o), NEW h \in Handlers \ {c}
  PROVE  /\ pc'[h] = pc[h] /\ op'[h] = op[h] /\ cred'[h] = cred[h] /\ outcome'[h] = outcome[h]
         /\ AP!Stored(cred[h]) => AP!Stored(cred[h])'
<1>1. h \in Callers /\ AP!TypeOK /\ AP!IInv /\ AP!IInv'
  BY PartsTypes DEF Callers, Parts
<1>2. pc'[h] = pc[h] /\ op'[h] = op[h] /\ cred'[h] = cred[h] /\ outcome'[h] = outcome[h]
  <2>1. CASE AP!Progress(c)
    BY <1>1, <2>1, AuthAssumptions, AP!OthersStay, AP!OutcomesStay
  <2>2. ASSUME NEW o, AP!Call(c, o)
        PROVE  pc'[h] = pc[h] /\ op'[h] = op[h] /\ cred'[h] = cred[h] /\ outcome'[h] = outcome[h]
    BY <1>1, <2>2 DEF AP!Call, AP!Goto, AP!Take, AP!TypeOK
  <2> QED
    BY <2>1, <2>2
<1>3. AP!Stored(cred[h]) => AP!Stored(cred[h])'
  <2>1. PICK cr : cr = cred[h]
    OBVIOUS
  <2>2. cred'[h] = cr
    BY <1>2, <2>1
  <2>3. AP!Stored(cr) => AP!Stored(cr)'
    BY <1>1, AuthAssumptions, AP!StoredStays
  <2>4. AP!Stored(cr) <=> AP!Stored(cred[h])
    BY <2>1
  <2>5. AP!Stored(cr)' <=> AP!Stored(cred[h])'
    BY <2>2 DEF AP!Stored, AP!Genuine
  <2> QED
    BY <2>3, <2>4, <2>5
<1> QED
  BY <1>2, <1>3

LEMMA StartupJInv ==
  ASSUME Parts, Parts', JInv, [AP!Next]_(AP!vars), StartupCall \/ StartupStep
  PROVE  JInv'
<1>1. /\ AP!Progress(Main) \/ \E o : AP!Call(Main, o)
      /\ UNCHANGED <<main, listener, stage, kind>>
  <2>1. CASE StartupStep
    <3>1. Main \in Callers
      BY DEF Callers
    <3> QED
      BY <2>1, <3>1, SameAuthNext DEF StartupStep, serverVars
  <2>2. CASE StartupCall
    <3>1. AP!Call(Main, "ensure")
      BY <2>2 DEF StartupCall, A!Call, AP!Call, A!At, AP!At, A!Goto, AP!Goto, A!Take, AP!Take,
         A!NoCredential, AP!NoCredential, A!NoToken, AP!NoToken, A!lockVars, AP!lockVars,
         A!repoVars, AP!repoVars, A!oauthVars, AP!oauthVars
    <3> QED
      BY <2>2, <3>1 DEF StartupCall, serverVars
  <2> QED
    BY <2>1, <2>2
<1>2. main = "startup"
  <2>1. CASE StartupCall
    BY <2>1 DEF StartupCall
  <2>2. CASE StartupStep
    <3>1. Main \in Callers /\ AP!TypeOK
      BY PartsTypes DEF Callers
    <3>2. pc[Main] # "idle"
      BY <2>2, <3>1, SameAuthNext, AuthAssumptions, AP!OpStep DEF StartupStep
    <3> QED
      BY <3>2 DEF JInv
  <2> QED
    BY <2>1, <2>2
<1>3. ASSUME NEW h \in Handlers PROVE Linked(h)' /\ Equipped(h)'
  <2>1. Main \in Callers /\ h \in Handlers \ {Main}
    BY MainAssumption DEF Callers
  <2>2. pc'[h] = pc[h] /\ op'[h] = op[h] /\ cred'[h] = cred[h] /\ outcome'[h] = outcome[h]
    BY <1>1, <2>1, OthersKeep
  <2>3. AP!Stored(cred[h]) => AP!Stored(cred[h])'
    BY <1>1, <2>1, OthersKeep
  <2> QED
    BY <1>1, <2>2, <2>3 DEF JInv, Linked, Given, Equipped
<1>4. AP!WriterWrites'
  BY AuthAssumptions, AP!WriterStep DEF JInv, Parts
<1> QED
  BY <1>1, <1>2, <1>3, <1>4 DEF JInv

LEMMA StartupDoneJInv == ASSUME JInv, StartupDone PROVE JInv'
<1>1. /\ UNCHANGED <<pc, op, cred, outcome, tokenWriter, version, home, issued, stage, kind>>
      /\ main' = "serving" /\ listener' = "spawned" /\ pc[Main] = "idle"
  BY DEF StartupDone, S!StartupDone, S!handlerVars, authVars
<1>2. \A h \in Handlers : Linked(h)' /\ Equipped(h)'
  BY <1>1 DEF JInv, Linked, Given, Equipped, AP!Stored, AP!Genuine
<1> QED
  BY <1>1, <1>2 DEF JInv, AP!WriterWrites, AP!At

LEMMA ShutdownJInv == ASSUME JInv, Shutdown PROVE JInv'
<1>1. /\ \A h \in Handlers : stage'[h] = "idle"
      /\ \A c \in Callers : pc'[c] = "idle"
      /\ tokenWriter' = None /\ listener' = "closed"
  BY DEF Shutdown, S!ShutdownDone, S!ShutdownTimesOut, S!Exit, A!Crash
<1> QED
  BY <1>1 DEF JInv, Linked, Given, Equipped, Callers, AP!WriterWrites

LEMMA TimeJInv == ASSUME JInv, TimePasses PROVE JInv'
<1>1. UNCHANGED <<pc, op, cred, outcome, tokenWriter, version, home, issued, main, listener,
                stage, kind>>
  BY DEF TimePasses, A!TimePasses, A!Expire, A!callerVars, A!lockVars, A!repoVars, serverVars
<1>2. \A h \in Handlers : Linked(h)' /\ Equipped(h)'
  BY <1>1 DEF JInv, Linked, Given, Equipped, AP!Stored, AP!Genuine
<1> QED
  BY <1>1, <1>2 DEF JInv, AP!WriterWrites, AP!At

-----------------------------------------------------------------------------
(* Steps of a handler in AuthUseCase. *)

\* What is left to show of such a step is what becomes of its own handler.
LEMMA HandlerJInv ==
  ASSUME Parts, Parts', JInv, [AP!Next]_(AP!vars), NEW h \in Handlers,
         AP!Progress(h) \/ \E o : AP!Call(h, o),
         NEW l, stage' = [stage EXCEPT ![h] = l], stage[h] # "idle",
         UNCHANGED <<kind, main, listener>>,
         Linked(h)', Equipped(h)'
  PROVE  JInv'
<1>0. h \in Callers /\ stage \in [Handlers -> SP!Labels]
  BY PartsTypes DEF Callers
<1>1. ASSUME NEW d \in Handlers \ {h} PROVE Linked(d)' /\ Equipped(d)'
  <2>1. stage'[d] = stage[d]
    BY <1>0
  <2>2. pc'[d] = pc[d] /\ op'[d] = op[d] /\ cred'[d] = cred[d] /\ outcome'[d] = outcome[d]
    BY <1>0, OthersKeep
  <2>3. AP!Stored(cred[d]) => AP!Stored(cred[d])'
    BY <1>0, OthersKeep
  <2> QED
    BY <2>1, <2>2, <2>3 DEF JInv, Linked, Given, Equipped
<1>2. pc'[Main] = pc[Main]
  <2>1. Main \in (Handlers \cup {Main}) \ {h}
    BY MainAssumption
  <2>2. CASE AP!Progress(h)
    BY <1>0, <2>1, <2>2, PartsTypes, AuthAssumptions, AP!OthersStay DEF Callers
  <2>3. ASSUME NEW o, AP!Call(h, o) PROVE pc'[Main] = pc[Main]
    BY <2>1, <2>3, PartsTypes DEF AP!Call, AP!Goto, Callers
  <2> QED
    BY <2>2, <2>3
<1>3. AP!WriterWrites'
  BY AuthAssumptions, AP!WriterStep DEF JInv, Parts
<1>4. ~(main \in {"loading", "startup", "exited"})
  BY DEF JInv
<1> QED
  BY <1>1, <1>2, <1>3, <1>4 DEF JInv

LEMMA CallAuthJInv ==
  ASSUME Parts, Parts', JInv, [AP!Next]_(AP!vars), NEW h \in Handlers, CallAuth(h)
  PROVE  JInv'
<1>1. PICK o : A!Call(h, o) /\ o = IF kind[h] = "auth" THEN "handler" ELSE "ensure"
  BY DEF CallAuth
<1>2. AP!Call(h, o)
  BY <1>1 DEF A!Call, AP!Call, A!At, AP!At, A!Goto, AP!Goto, A!Take, AP!Take,
     A!NoCredential, AP!NoCredential, A!NoToken, AP!NoToken, A!lockVars, AP!lockVars,
     A!repoVars, AP!repoVars, A!oauthVars, AP!oauthVars
<1>3. /\ stage[h] = "begin" /\ stage' = [stage EXCEPT ![h] = "auth"]
      /\ UNCHANGED <<kind, main, listener>>
  BY DEF CallAuth, S!CallAuth, S!At, S!Goto, S!mainVars
<1>4. stage'[h] = "auth" /\ pc'[h] = "load" /\ op'[h] = o
  BY <1>2, <1>3, PartsTypes DEF AP!Call, AP!Goto, Callers
<1>5. Linked(h)' /\ Equipped(h)'
  BY <1>1, <1>3, <1>4 DEF Linked, Given, Equipped
<1> QED
  BY <1>2, <1>3, <1>5, HandlerJInv

\* Where the server's side of a handler stands after its step in AuthUseCase.
LEMMA AuthStepStages ==
  ASSUME Parts, JInv, NEW h \in Handlers, AuthStep(h)
  PROVE  \E l \in {"auth", "manual"} :
           /\ stage' = [stage EXCEPT ![h] = l]
           /\ stage[h] \in {"auth", "manual"}
           /\ UNCHANGED <<kind, main, listener, answer>>
           /\ l = "auth" => stage[h] = "auth" /\ op'[h] = op[h]
           /\ l = "manual" => op'[h] = "manual"
<1> USE DEF S!At, S!Goto
<1>1. h \in Callers /\ AP!TypeOK /\ stage \in [Handlers -> SP!Labels] /\ AP!Progress(h)
  BY PartsTypes, SameAuthNext DEF Callers, AuthStep
<1>2. /\ pc[h] # "idle"
      /\ op'[h] = op[h] \/ (op[h] = "handler" /\ op'[h] = "manual" /\ pc'[h] = "device")
  BY <1>1, AuthAssumptions, AP!OpStep
<1>3. stage[h] \in {"auth", "manual"}
  BY <1>2 DEF JInv, Linked
<1>4. CASE TurnsManual(h)
  <2>1. op[h] = "handler" \/ op[h] = "manual"
    BY <1>2, <1>4 DEF TurnsManual
  <2>2. kind[h] = "auth"
    BY <1>4, <2>1 DEF TurnsManual, JInv, Linked
  <2>3. stage' = [stage EXCEPT ![h] = "manual"] /\ UNCHANGED <<kind, main, listener, answer>>
    BY <1>4, <2>2 DEF TurnsManual, S!AuthFails, S!Proxied, S!mainVars
  <2> QED
    BY <1>3, <1>4, <2>3 DEF TurnsManual
<1>5. CASE GoesOn(h)
  <2>1. /\ stage' = [stage EXCEPT ![h] = stage[h]]
        /\ UNCHANGED <<kind, main, listener, answer>>
    BY <1>1, <1>5 DEF GoesOn, serverVars
  <2>2. stage[h] = "auth" => op'[h] = op[h]
    BY <1>2, <1>5 DEF GoesOn
  <2>3. stage[h] = "manual" => op'[h] = "manual"
    BY <1>2 DEF JInv, Linked
  <2> QED
    BY <1>3, <2>1, <2>2, <2>3
<1> QED
  BY <1>4, <1>5 DEF AuthStep

LEMMA AuthStepJInv ==
  ASSUME Parts, Parts', JInv, [AP!Next]_(AP!vars), NEW h \in Handlers, AuthStep(h)
  PROVE  JInv'
<1>1. h \in Callers /\ AP!TypeOK /\ stage \in [Handlers -> SP!Labels] /\ AP!Progress(h)
  BY PartsTypes, SameAuthNext DEF Callers, AuthStep
<1>2. PICK l \in {"auth", "manual"} :
           /\ stage' = [stage EXCEPT ![h] = l]
           /\ stage[h] \in {"auth", "manual"}
           /\ UNCHANGED <<kind, main, listener, answer>>
           /\ l = "auth" => stage[h] = "auth" /\ op'[h] = op[h]
           /\ l = "manual" => op'[h] = "manual"
  BY AuthStepStages
<1>3. stage'[h] = l /\ kind'[h] = kind[h]
  BY <1>1, <1>2
<1>4. /\ pc'[h] = "idle" /\ outcome'[h] = "error" => op[h] # "handler"
      /\ pc'[h] = "idle" /\ outcome'[h] = "ok" => op[h] # "manual"
      /\ pc'[h] = "idle" /\ outcome'[h] = "initiated" => op[h] = "manual"
      /\ pc'[h] = "idle" => outcome'[h] \in {"ok", "error", "initiated"}
      /\ op'[h] = op[h] \/ pc'[h] = "device"
  BY <1>1, AuthAssumptions, AP!OpStep
<1>5. Linked(h)'
  BY <1>2, <1>3, <1>4 DEF JInv, Linked
<1>6. pc'[h] = "idle" /\ outcome'[h] = "ok" =>
        cred'[h] # AP!NoCredential /\ AP!Stored(cred[h])'
  BY <1>1, AuthAssumptions, AP!ReturnsStored DEF Parts
<1>7. Equipped(h)'
  BY <1>2, <1>3, <1>6 DEF Equipped, Given
<1> QED
  BY <1>1, <1>2, <1>5, <1>7, HandlerJInv

\* What a handler does when it looks at the result.
LEMMA CallReturnedStages ==
  ASSUME Parts, JInv, NEW h \in Handlers, CallReturned(h)
  PROVE  \E l \in {"idle", "call"} :
           /\ stage' = [stage EXCEPT ![h] = l]
           /\ stage[h] \in {"auth", "manual"}
           /\ UNCHANGED <<kind, main, listener>>
           /\ l = "call" => Given(h)
<1> USE DEF S!At, S!Goto
<1>1. ASSUME NEW st, NEW part, S!Respond(h, st, part)
      PROVE  stage' = [stage EXCEPT ![h] = "idle"] /\ UNCHANGED <<kind, main, listener>>
  BY <1>1 DEF S!Respond, S!mainVars
<1>2. CASE S!AuthSucceeds(h) /\ outcome[h] = "ok"
  BY <1>1, <1>2 DEF S!AuthSucceeds, CallReturned, S!mainVars, Given
<1>3. CASE S!ManualSucceeds(h) \/ S!ManualFails(h)
  BY <1>1, <1>3 DEF S!ManualSucceeds, S!ManualFails
<1>4. CASE S!AuthFails(h) /\ outcome[h] = "error"
  <2>1. kind[h] # "auth"
    BY <1>4 DEF S!AuthFails, CallReturned, JInv, Linked
  <2>2. \E st, part : S!Respond(h, st, part)
    BY <1>4, <2>1 DEF S!AuthFails, S!UseCaseFails, S!StreamFails
  <2> QED
    BY <1>1, <1>4, <2>2 DEF S!AuthFails
<1> QED
  BY <1>2, <1>3, <1>4 DEF CallReturned

LEMMA CallReturnedJInv ==
  ASSUME Parts, JInv, NEW h \in Handlers, CallReturned(h)
  PROVE  JInv'
<1>1. PICK l \in {"idle", "call"} :
           /\ stage' = [stage EXCEPT ![h] = l]
           /\ stage[h] \in {"auth", "manual"}
           /\ UNCHANGED <<kind, main, listener>>
           /\ l = "call" => Given(h)
  BY CallReturnedStages
<1>2. /\ UNCHANGED <<pc, op, cred, outcome, tokenWriter, version, home, issued>>
      /\ \A d \in Handlers : AP!Stored(cred[d])' <=> AP!Stored(cred[d])
      /\ pc[h] = "idle"
  BY DEF CallReturned, authVars, AP!Stored, AP!Genuine
<1>3. \A d \in Handlers : stage'[d] = IF d = h THEN l ELSE stage[d]
  BY <1>1, PartsTypes
<1>4. Linked(h)' /\ Equipped(h)'
  BY <1>1, <1>2, <1>3 DEF JInv, Linked, Given, Equipped
<1>5. ASSUME NEW d \in Handlers \ {h} PROVE Linked(d)' /\ Equipped(d)'
  BY <1>1, <1>2, <1>3 DEF JInv, Linked, Given, Equipped
<1>6. AP!WriterWrites'
  BY <1>2 DEF JInv, AP!WriterWrites, AP!At
<1>7. ~(main \in {"loading", "startup", "exited"})
  BY <1>1 DEF JInv
<1> QED
  BY <1>1, <1>2, <1>4, <1>5, <1>6, <1>7 DEF JInv

-----------------------------------------------------------------------------
(* The theorems about the two parts together. *)

LEMMA InitJInv == Init => JInv
BY DEF Init, S!Init, A!Init, JInv, Linked, Given, Equipped, AP!WriterWrites, Callers

LEMMA NextJInv == Parts /\ Parts' /\ JInv /\ [Next]_vars => JInv'
<1> SUFFICES ASSUME Parts, Parts', JInv, [Next]_vars PROVE JInv'
  OBVIOUS
<1>1. [AP!Next]_(AP!vars)
  BY AuthSteps, SameAuthNext
<1>2. CASE UNCHANGED vars
  BY <1>2 DEF vars, serverVars, authVars, JInv, Linked, Given, Equipped, AP!Stored, AP!Genuine,
     AP!WriterWrites, AP!At
<1> QED
  BY <1>1, <1>2, ApartJInv, StartupJInv, StartupDoneJInv, ShutdownJInv, TimeJInv, CallAuthJInv,
     AuthStepJInv, CallReturnedJInv DEF Next

\* The joint invariant: Server and Auth agree on where each handler stands.
THEOREM Invariance == Spec => [](Parts /\ JInv)
<1>1. Parts <=> A!IInv /\ S!TypeOK
  BY SameAuthInv, SameServerType DEF Parts
<1>2. Spec => []Parts
  BY <1>1, PartsInvariance, PTL
<1> QED
  BY <1>2, InitJInv, NextJInv, PTL DEF Spec

\* No request reaches the upstream with credentials that were never stored, or
\* with another account's resource URL, whatever the other handlers do between
\* EnsureAuthenticated and the call (proxy.go:66-81).
THEOREM StoredCredentialsUsed == Spec => []CallsWithStoredCredentials
<1>1. Parts /\ JInv => CallsWithStoredCredentials
  BY DEF JInv, Given, Equipped, CallsWithStoredCredentials, AP!Stored, A!NoCredential, AP!NoCredential,
     A!NoToken, AP!NoToken
<1> QED
  BY <1>1, Invariance, PTL

\* A graceful shutdown never cuts off a save: whoever writes the file is a
\* handler that Shutdown waits for, or main before it listens (main.go:181-188).
THEOREM GracefulExit == Spec => GracefulExitKeepsCredentials
<1>1. ASSUME Parts, JInv, [Next]_vars, S!ShutdownDone, ~damaged PROVE ~damaged'
  <2>1. main = "draining" /\ \A h \in Handlers : stage[h] = "idle"
    BY <1>1 DEF S!ShutdownDone
  <2>2. \A c \in Callers : pc[c] = "idle"
    BY <1>1, <2>1 DEF JInv, Linked, Callers
  <2>3. tokenWriter = None
    BY <1>1, <2>2, PartsTypes DEF JInv, AP!WriterWrites, AP!At, AP!TypeOK
  <2>4. file.state = "ok"
    BY <1>1, <2>3 DEF Parts, AP!IInv, AP!StoreInv, AP!Loads
  <2>5. damaged' = (file.state # "ok") \/ damaged' = damaged
    <3>1. main' # main
      BY <1>1 DEF S!ShutdownDone, S!Exit
    <3>2. CASE Apart \/ StartupDone
      BY <3>2 DEF Apart, StartupDone, authVars
    <3>3. CASE StartupCall \/ StartupStep \/ TimePasses \/ UNCHANGED vars
      BY <3>1, <3>3 DEF StartupCall, StartupStep, TimePasses, serverVars, vars
    <3>4. ASSUME NEW h \in Handlers, CallAuth(h) PROVE FALSE
      BY <3>1, <3>4 DEF CallAuth, S!CallAuth, S!mainVars
    <3>5. ASSUME NEW h \in Handlers, AuthStep(h) PROVE FALSE
      BY <1>1, <3>1, <3>5, AuthStepStages
    <3>6. ASSUME NEW h \in Handlers, CallReturned(h) PROVE FALSE
      BY <1>1, <3>1, <3>6, CallReturnedStages
    <3>7. CASE Shutdown
      BY <3>7 DEF Shutdown, A!Crash, A!ProcessDies
    <3> QED
      BY <1>1, <3>2, <3>3, <3>4, <3>5, <3>6, <3>7 DEF Next
  <2> QED
    BY <1>1, <2>4, <2>5
<1>2. Parts /\ JInv /\ [Next]_vars => [S!ShutdownDone /\ ~damaged => ~damaged']_vars
  BY <1>1
<1> QED
  BY <1>2, Invariance, PTL DEF Spec, GracefulExitKeepsCredentials

-----------------------------------------------------------------------------
(* What /auth says of the file. *)

\* While no write fails, a file that loads is whole, and whoever has loaded it
\* and looks at its expiry next, or whose call has ended without an error, can
\* rely on that: the next save truncates it and puts a whole one in its place.
WholeInv ==
  /\ AP!Loads => ~damaged
  /\ \A c \in Callers : pc[c] = "check" => ~damaged
  /\ \A c \in Callers : pc[c] = "idle" /\ outcome[c] \in {"ok", "initiated"} => ~damaged

\* A step in AuthUseCase that ends a call without an error leaves credentials
\* in the file: they were there, or it has just stored them.
LEMMA ProgressWhole ==
  ASSUME AP!IInv, WholeInv, "disk" \notin Faults, NEW c \in Callers, AP!Progress(c)
  PROVE  WholeInv'
<1> USE DEF AP!At, AP!Goto
<1>0. /\ AP!TypeOK
      /\ ~AP!Loads /\ tokenWriter = None => damaged
      /\ \A d \in Callers \ {c} : pc'[d] = pc[d] /\ outcome'[d] = outcome[d]
  BY AuthAssumptions, AP!OthersStay, AP!OutcomesStay DEF AP!IInv, AP!StoreInv
<1>1. ASSUME UNCHANGED <<file, damaged>>,
             pc'[c] = "check" => AP!Loads,
             pc'[c] = "idle" /\ outcome'[c] # "error" => AP!Loads
      PROVE  WholeInv'
  BY <1>0, <1>1 DEF WholeInv, AP!Loads
<1>2. ASSUME NEW cr, AP!Succeed(c, cr) PROVE pc'[c] = "idle"
  BY <1>0, <1>2 DEF AP!Succeed, AP!Finish, AP!TypeOK
<1>3. ASSUME AP!Fail(c) \/ AP!StartDeviceFlow(c)
      PROVE  pc'[c] = "device" \/ (pc'[c] = "idle" /\ outcome'[c] = "error")
  BY <1>0, <1>3 DEF AP!Fail, AP!GoManual, AP!StartDeviceFlow, AP!Finish, AP!TypeOK
<1>4. CASE AP!Load(c)
  <2>1. (pc'[c] = "check" /\ AP!Loads) \/ pc'[c] = "device"
    BY <1>0, <1>4 DEF AP!Load, AP!StartDeviceFlow, AP!TypeOK
  <2> QED
    BY <1>1, <1>4, <2>1 DEF AP!Load, AP!repoVars
<1>5. CASE AP!CheckExpiry(c)
  <2>1. AP!Loads
    BY <1>0, <1>5 DEF AP!CheckExpiry, AP!Readable, WholeInv
  <2> QED
    BY <1>1, <1>5, <2>1 DEF AP!CheckExpiry, AP!repoVars
<1>6. CASE AP!LockRefresh(c) \/ AP!Refresh(c)
  <2>1. pc'[c] \in {"recheck", "reply", "device"}
    BY <1>0, <1>3, <1>6 DEF AP!LockRefresh, AP!Refresh, AP!StartDeviceFlow, AP!TypeOK
  <2> QED
    BY <1>1, <1>6, <2>1 DEF AP!LockRefresh, AP!Refresh, AP!repoVars
<1>7. CASE AP!Recheck(c)
  <2>1. \/ pc'[c] \in {"refresh", "reload", "device"}
        \/ pc'[c] = "idle" /\ outcome'[c] = "error"
    BY <1>0, <1>3, <1>7 DEF AP!Recheck, AP!TypeOK
  <2> QED
    BY <1>1, <1>7, <2>1 DEF AP!Recheck, AP!repoVars
<1>8. CASE AP!Reload(c)
  <2>1. \/ pc'[c] = "idle" /\ AP!Loads
        \/ pc'[c] = "device"
        \/ pc'[c] = "idle" /\ outcome'[c] = "error"
    BY <1>2, <1>3, <1>8 DEF AP!Reload
  <2> QED
    BY <1>1, <1>8, <2>1 DEF AP!Reload, AP!repoVars
<1>9. CASE AP!RefreshAnswered(c) \/ AP!DeviceGranted(c)
  <2>1. pc'[c] = "save"
    BY <1>0, <1>9 DEF AP!RefreshAnswered, AP!DeviceGranted, AP!TypeOK
  <2> QED
    BY <1>1, <1>9, <2>1 DEF AP!RefreshAnswered, AP!DeviceGranted, AP!repoVars
<1>10. CASE AP!RefreshFails(c) \/ AP!DeviceFails(c)
  <2>1. pc'[c] = "device" \/ (pc'[c] = "idle" /\ outcome'[c] = "error")
    BY <1>3, <1>10 DEF AP!RefreshFails, AP!DeviceFails
  <2> QED
    BY <1>1, <1>10, <2>1 DEF AP!RefreshFails, AP!DeviceFails, AP!repoVars
<1>11. CASE AP!BeginSave(c)
  <2>1. pc'[c] = "write" /\ file'.state = "torn" /\ damaged' = damaged
    BY <1>0, <1>11 DEF AP!BeginSave, AP!Truncate, AP!Torn, AP!TypeOK
  <2> QED
    BY <1>0, <2>1 DEF WholeInv, AP!Loads
<1>12. CASE AP!SaveCompletes(c)
  <2>1. file'.state = "ok" /\ damaged' = FALSE
    BY <1>12 DEF AP!SaveCompletes, AP!CompleteWrite, AP!Holding
  <2> QED
    BY <2>1 DEF WholeInv, AP!Loads
<1> QED
  BY <1>4, <1>5, <1>6, <1>7, <1>8, <1>9, <1>10, <1>11, <1>12
     DEF AP!Progress, AP!SaveNotOpened, AP!SaveTears

LEMMA NextWhole ==
  ASSUME Parts, JInv, WholeInv, "disk" \notin Faults, [Next]_vars
  PROVE  WholeInv'
<1>1. CASE UNCHANGED authVars
  BY <1>1 DEF authVars, WholeInv, AP!Loads
<1>2. ASSUME NEW c \in Callers, A!Progress(c) PROVE WholeInv'
  BY <1>2, SameAuthNext, ProgressWhole DEF Parts
<1>3. ASSUME NEW c \in Callers, NEW o, A!Call(c, o) PROVE WholeInv'
  <2>1. /\ UNCHANGED <<file, damaged>>
        /\ \A d \in Callers : pc'[d] = "check" => pc[d] = "check"
        /\ \A d \in Callers : pc'[d] = "idle" => pc[d] = "idle" /\ outcome'[d] = outcome[d]
    BY <1>3, PartsTypes DEF A!Call, A!Goto, A!repoVars, AP!TypeOK
  <2> QED
    BY <2>1 DEF WholeInv, AP!Loads
<1>4. CASE TimePasses
  BY <1>4 DEF TimePasses, A!TimePasses, A!callerVars, A!repoVars, WholeInv, AP!Loads
<1>5. CASE Shutdown
  <2>1. /\ damaged' = (file.state # "ok") /\ file' = file
        /\ \A c \in Callers : pc'[c] = "idle" /\ outcome'[c] = "none"
    BY <1>5 DEF Shutdown, A!Crash, A!ProcessDies
  <2> QED
    BY <2>1 DEF WholeInv, AP!Loads
<1>6. Main \in Callers /\ Handlers \subseteq Callers
  BY DEF Callers
<1>7. CASE \E h \in Handlers : CallAuth(h) \/ AuthStep(h)
  BY <1>2, <1>3, <1>6, <1>7 DEF CallAuth, AuthStep
<1>8. CASE StartupCall \/ StartupStep
  BY <1>2, <1>3, <1>6, <1>8 DEF StartupCall, StartupStep
<1> QED
  BY <1>1, <1>4, <1>5, <1>7, <1>8 DEF Next, Apart, StartupDone, CallReturned, vars

\* The server answers /auth with status 200 only when its handler looks at the
\* result of a call of AuthUseCase that ended without an error.
LEMMA AuthAnswers ==
  ASSUME Parts, JInv, [Next]_vars, NEW h \in Handlers,
         kind[h] = "auth", answer[h].status = 0, answer'[h].status = 200
  PROVE  /\ pc[h] = "idle" /\ outcome[h] \in {"ok", "initiated"}
         /\ UNCHANGED authVars
<1> USE DEF S!At, S!Goto
<1>0. /\ answer \in [Handlers -> [status: SP!Statuses, parts: SUBSET SP!Parts]]
      /\ \A d \in Handlers : stage[d] \in {"call", "body", "relay"} => kind[d] \in SP!Proxied
  BY DEF Parts, SP!TypeOK
<1>1. answer'[h] # answer[h]
  OBVIOUS
<1>2. ASSUME NEW d \in Handlers, NEW st, NEW part, S!Respond(d, st, part)
      PROVE  d = h /\ st = 200
  <2>1. answer' = [answer EXCEPT ![d] = S!Written(d, st, part)]
    BY <1>2 DEF S!Respond
  <2>2. d = h
    BY <1>0, <1>1, <2>1
  <2>3. answer'[h] = S!Written(h, st, part)
    BY <1>0, <2>1, <2>2
  <2> QED
    BY <1>1, <2>2, <2>3 DEF S!Written
<1>3. ASSUME NEW d \in Handlers, S!Enter(d) PROVE FALSE
  <2>1. \A st, part : S!Respond(d, st, part) => d = h /\ st = 200
    BY <1>2
  <2> QED
    BY <1>3, <2>1 DEF S!Enter, S!RateLimited, S!Preflight, S!NotFound, S!Static, S!BadRequest,
       S!Proxied
<1>4. ASSUME NEW d \in Handlers, S!Proxy(d) PROVE FALSE
  <2>1. kind[d] \in SP!Proxied
    BY <1>0, <1>4 DEF S!Proxy, S!CallFails, S!CallAnswered, S!ReadBody, S!RelayEvent, S!RelayEnds
  <2>2. d # h
    BY <2>1 DEF SP!Proxied
  <2>3. \A st, part : ~S!Respond(d, st, part)
    BY <1>2, <2>2
  <2>4. ~S!UseCaseFails(d)
    BY <2>3 DEF S!UseCaseFails, S!StreamFails
  <2>5. answer' = answer \/ \E part : answer' = [answer EXCEPT ![d] = S!Written(d, 200, part)]
    BY <1>4, <2>3, <2>4 DEF S!Proxy, S!CallFails, S!CallAnswered, S!ReadBody, S!RelayEvent,
       S!RelayEnds
  <2> QED
    BY <1>0, <1>1, <2>2, <2>5
<1>5. ASSUME NEW d \in Handlers, NEW k, S!Arrive(d, k) PROVE FALSE
  <2>1. answer' = [answer EXCEPT ![d] = S!NoAnswer]
    BY <1>5 DEF S!Arrive
  <2> QED
    BY <1>0, <2>1 DEF S!NoAnswer
<1>6. ~Apart
  <2>1. CASE S!LoadConfig \/ S!LoadConfigFails \/ S!Listen \/ S!ListenFails
             \/ S!BeginShutdown \/ S!Restart \/ S!Signal
    BY <1>1, <2>1 DEF S!LoadConfig, S!LoadConfigFails, S!Listen, S!ListenFails,
       S!BeginShutdown, S!Restart, S!Signal, S!Exit, S!handlerVars
  <2>2. ASSUME NEW d \in Handlers, S!DeadlinePasses(d) PROVE FALSE
    BY <1>1, <2>2 DEF S!DeadlinePasses
  <2> QED
    BY <1>3, <1>4, <1>5, <2>1, <2>2 DEF Apart
<1>7. ~(StartupCall \/ StartupStep \/ StartupDone \/ Shutdown \/ TimePasses \/ UNCHANGED vars)
  BY <1>1 DEF StartupCall, StartupStep, StartupDone, Shutdown, TimePasses, vars, serverVars,
     S!StartupDone, S!ShutdownDone, S!ShutdownTimesOut, S!Exit, S!handlerVars
<1>8. ASSUME NEW d \in Handlers, CallAuth(d) PROVE FALSE
  BY <1>1, <1>8 DEF CallAuth, S!CallAuth
<1>9. ASSUME NEW d \in Handlers, AuthStep(d) PROVE FALSE
  BY <1>1, <1>9, AuthStepStages
<1>10. PICK d \in Handlers : CallReturned(d)
  BY <1>6, <1>7, <1>8, <1>9 DEF Next
<1>11. S!AuthFails(d) => d # h
  BY <1>1 DEF S!AuthFails, S!Proxied
<1>12. S!AuthFails(d) => answer'[h] = answer[h]
  <2>1. ASSUME S!AuthFails(d), NEW st, NEW part, S!Respond(d, st, part) PROVE FALSE
    BY <1>2, <1>11, <2>1
  <2> QED
    BY <2>1 DEF S!AuthFails, S!UseCaseFails, S!StreamFails
<1>13. ~S!AuthFails(d)
  BY <1>1, <1>12
<1>14. ~S!ManualFails(d)
  BY <1>2 DEF S!ManualFails
<1>15. /\ pc[d] = "idle" /\ outcome[d] \in {"ok", "initiated"}
       /\ S!AuthSucceeds(d) \/ S!ManualSucceeds(d)
       /\ UNCHANGED authVars
  BY <1>10, <1>13, <1>14 DEF CallReturned
<1>16. d = h
  BY <1>1, <1>2, <1>15 DEF S!AuthSucceeds, S!ManualSucceeds
<1> QED
  BY <1>15, <1>16

\* Whoever is told by /auth that there is a login, or that one has been made,
\* is told so while a complete save is in the file or is being replaced by the
\* next (api.go:146, 181), however other handlers save between the end of the
\* call and the answer and the process comes and goes.  The disk must not fail:
\* when the write of another handler does, the answer is given over a torn file.
THEOREM AuthAnswersHold ==
  ASSUME "disk" \notin Faults
  PROVE  Spec => AuthAnswersTruly
<1>1. Init => WholeInv
  BY DEF Init, A!Init, A!RepoInit, A!Absent, WholeInv, AP!Loads, Callers
<1>2. Parts /\ JInv /\ WholeInv /\ [Next]_vars => WholeInv'
  BY NextWhole
<1>3. Parts /\ JInv /\ WholeInv /\ [Next]_vars =>
        [\A h \in Handlers :
           /\ kind[h] = "auth"
           /\ answer[h].status = 0 /\ answer'[h].status = 200
           => ~damaged']_vars
  <2> SUFFICES ASSUME Parts, JInv, WholeInv, [Next]_vars, NEW h \in Handlers,
                      kind[h] = "auth", answer[h].status = 0, answer'[h].status = 200
               PROVE  ~damaged'
    OBVIOUS
  <2>1. pc[h] = "idle" /\ outcome[h] \in {"ok", "initiated"} /\ damaged' = damaged
    BY AuthAnswers DEF authVars
  <2>2. h \in Callers
    BY DEF Callers
  <2> QED
    BY <2>1, <2>2 DEF WholeInv
<1> QED
  BY <1>1, <1>2, <1>3, Invariance, PTL DEF Spec, AuthAnswersTruly
=============================================================================
