-------------------------------- MODULE Auth -------------------------------
(***************************************************************************)
(* AuthUseCase: EnsureAuthenticated and AuthenticateManually, called by    *)
(* any number of request goroutines.  tokenMutex (an RWMutex) serialises   *)
(* the use of the credentials file, refreshMutex the refreshes.            *)
(*                                                                         *)
(* A read section (RLock, Load, RUnlock) changes nothing and is one step,  *)
(* enabled while no goroutine holds the write lock.  A write section is    *)
(* two steps, because the file is torn in between and the process may die  *)
(* there.  Between any two steps of a caller every other caller may run.   *)
(*                                                                         *)
(* pc[c] is where c stands:                                                *)
(*   idle     no call; outcome[c] and cred[c] are what the last one gave   *)
(*   load     about to Load the credentials               (auth.go:47)     *)
(*   check    about to compare their expiry with the clock        (57)     *)
(*   lock     about to take refreshMutex                          (67)     *)
(*   recheck  holds it, about to Load and compare again           (71)     *)
(*   reload   another goroutine refreshed, about to Load          (92)     *)
(*   refresh  about to call refreshAccessToken                    (84)     *)
(*   reply    the refresh request is out                         (107)     *)
(*   device   a device flow is out                               (127)     *)
(*   save     has new credentials, about to Lock and Save   (115, 133)     *)
(*   write    holds tokenMutex, the file is truncated                      *)
(***************************************************************************)
EXTENDS CredentialRepository, OAuthService

CONSTANTS
  Callers,   \* the goroutines that call the use case
  None,      \* no caller
  Faults     \* the faults of the environment that may happen

FaultKinds == {"crash", "disk", "clear"}

ASSUME CallersAssumption == None \notin Callers
ASSUME FaultsAssumption == Faults \subseteq FaultKinds

VARIABLES
  pc,             \* where each caller stands
  op,             \* the call it is making
  via,            \* how the credentials it is about to save were obtained
  cred,           \* the credentials in its hands
  outcome,        \* how its last call ended
  presented,      \* the refresh token of its request to the token endpoint
  refreshHolder,  \* the owner of refreshMutex
  tokenWriter,    \* the goroutine that holds tokenMutex for writing
  since,          \* history: the number of saves completed when its call began
  retired         \* history: refresh tokens replaced by a stored refresh

callerVars == <<pc, op, via, cred, outcome, presented>>
lockVars == <<refreshHolder, tokenWriter>>
vars == <<callerVars, lockVars, since, retired, repoVars, oauthVars>>

Labels == {"idle", "load", "check", "lock", "recheck", "reload", "refresh",
           "reply", "device", "save", "write"}
Operations == {"none", "ensure", "handler", "manual"}
Outcomes == {"none", "ok", "error", "initiated"}

TypeOK ==
  /\ RepoTypeOK
  /\ OAuthTypeOK
  /\ pc \in [Callers -> Labels]
  /\ op \in [Callers -> Operations]
  /\ via \in [Callers -> {"none", "refresh", "device"}]
  /\ cred \in [Callers -> Credential \cup {NoCredential}]
  /\ outcome \in [Callers -> Outcomes]
  /\ presented \in [Callers -> Grants \cup {NoToken}]
  /\ refreshHolder \in Callers \cup {None}
  /\ tokenWriter \in Callers \cup {None}
  /\ since \in [Callers -> Nat]
  /\ retired \subseteq Grants \cup {NoToken}

Init ==
  /\ RepoInit
  /\ OAuthInit
  /\ pc = [c \in Callers |-> "idle"]
  /\ op = [c \in Callers |-> "none"]
  /\ via = [c \in Callers |-> "none"]
  /\ cred = [c \in Callers |-> NoCredential]
  /\ outcome = [c \in Callers |-> "none"]
  /\ presented = [c \in Callers |-> NoToken]
  /\ refreshHolder = None
  /\ tokenWriter = None
  /\ since = [c \in Callers |-> 0]
  /\ retired = {}

-----------------------------------------------------------------------------
(* Parts of the actions. *)

At(c, label) == pc[c] = label
Goto(c, label) == pc' = [pc EXCEPT ![c] = label]
Take(c, cr) == cred' = [cred EXCEPT ![c] = cr]
Forget(c) == presented' = [presented EXCEPT ![c] = NoToken]

\* Mutant: the read sections forget RLock.
ReadableUnlocked == TRUE

\* RLock can be had: no goroutine holds the write lock.
Readable == tokenWriter = None

\* Load returns an error: the file is missing or does not parse, or reading it
\* fails although it is intact (permission denied, an I/O error, no descriptor).
ReadFails == "disk" \in Faults
LoadFails == ~Loads \/ ReadFails

IsExpired(cr) == cr.grant \in stale

\* Mutant: the deferred Unlock is missing.
ReleaseNever(c) == UNCHANGED refreshHolder

\* The deferred refreshMutex.Unlock of a call that took it.
ReleaseRefresh(c) ==
  refreshHolder' = IF refreshHolder = c THEN None ELSE refreshHolder

\* The call ends with res and hands cr to whoever made it.
Finish(c, res, cr) ==
  /\ Goto(c, "idle")
  /\ outcome' = [outcome EXCEPT ![c] = res]
  /\ Take(c, cr)
  /\ ReleaseRefresh(c)
  /\ Forget(c)
  /\ via' = [via EXCEPT ![c] = "none"]
  /\ since' = [since EXCEPT ![c] = 0]
  /\ UNCHANGED op

\* AuthenticateManually discards the credentials it obtained.
Succeed(c, cr) ==
  \/ op[c] # "manual" /\ Finish(c, "ok", cr)
  \/ op[c] = "manual" /\ Finish(c, "initiated", NoCredential)

\* AuthenticateHandler answers the failure of its check with
\* AuthenticateManually: a device flow, with refreshMutex released.
GoManual(c) ==
  /\ Goto(c, "device")
  /\ op' = [op EXCEPT ![c] = "manual"]
  /\ via' = [via EXCEPT ![c] = "device"]
  /\ Take(c, NoCredential)
  /\ ReleaseRefresh(c)
  /\ Forget(c)
  /\ UNCHANGED <<outcome, since>>

Fail(c) ==
  \/ op[c] # "handler" /\ Finish(c, "error", NoCredential)
  \/ op[c] = "handler" /\ GoManual(c)

\* authenticateWithDeviceFlow begins; refreshMutex stays as it is.
StartDeviceFlow(c) ==
  /\ Goto(c, "device")
  /\ via' = [via EXCEPT ![c] = "device"]
  /\ Take(c, NoCredential)
  /\ Forget(c)
  /\ UNCHANGED <<op, outcome, since, refreshHolder>>

-----------------------------------------------------------------------------
(* EnsureAuthenticated. *)

\* A request handler (or main, at startup) calls EnsureAuthenticated; with
\* o = "handler" the caller is AuthenticateHandler.
Call(c, o) ==
  /\ At(c, "idle")
  /\ Goto(c, "load")
  /\ op' = [op EXCEPT ![c] = o]
  /\ outcome' = [outcome EXCEPT ![c] = "none"]
  /\ Take(c, NoCredential)
  /\ since' = [since EXCEPT ![c] = versions]
  /\ UNCHANGED <<via, presented, lockVars, retired, repoVars, oauthVars>>

\* The first Load; without credentials the caller turns to the device flow,
\* and does not take refreshMutex first.
Load(c) ==
  /\ At(c, "load")
  /\ Readable
  /\ \/ /\ Loads
        /\ Goto(c, "check")
        /\ Take(c, file.creds)
        /\ UNCHANGED <<op, via, outcome, presented, since, refreshHolder>>
     \/ /\ LoadFails
        /\ StartDeviceFlow(c)
  /\ UNCHANGED <<tokenWriter, retired, repoVars, oauthVars>>

\* The expiry of the loaded credentials, in a read section of its own.
CheckExpiry(c) ==
  /\ At(c, "check")
  /\ Readable
  /\ \/ /\ IsExpired(cred[c])
        /\ Goto(c, "lock")
        /\ UNCHANGED <<op, via, cred, outcome, presented, since, refreshHolder>>
     \/ /\ ~IsExpired(cred[c])
        /\ Succeed(c, cred[c])
  /\ UNCHANGED <<tokenWriter, retired, repoVars, oauthVars>>

\* Mutant: refreshMutex is not taken.
LockRefreshNot(c) ==
  /\ At(c, "lock")
  /\ refreshHolder' = c
  /\ Goto(c, "recheck")
  /\ UNCHANGED <<op, via, cred, outcome, presented, tokenWriter, since, retired,
                 repoVars, oauthVars>>

LockRefresh(c) ==
  /\ At(c, "lock")
  /\ refreshHolder = None
  /\ refreshHolder' = c
  /\ Goto(c, "recheck")
  /\ UNCHANGED <<op, via, cred, outcome, presented, tokenWriter, since, retired,
                 repoVars, oauthVars>>

\* Mutant: no second Load, the credentials in hand are refreshed.
RecheckNot(c) ==
  /\ At(c, "recheck")
  /\ Goto(c, "refresh")
  /\ UNCHANGED <<op, via, cred, outcome, presented, lockVars, since, retired,
                 repoVars, oauthVars>>

\* Load again, because another goroutine may have refreshed in the meantime.
Recheck(c) ==
  /\ At(c, "recheck")
  /\ Readable
  /\ \/ LoadFails /\ Fail(c)
     \/ /\ Loads
        /\ Goto(c, IF IsExpired(file.creds) THEN "refresh" ELSE "reload")
        /\ Take(c, file.creds)
        /\ UNCHANGED <<op, via, outcome, presented, since, refreshHolder>>
  /\ UNCHANGED <<tokenWriter, retired, repoVars, oauthVars>>

Reload(c) ==
  /\ At(c, "reload")
  /\ Readable
  /\ \/ Loads /\ Succeed(c, file.creds)
     \/ LoadFails /\ Fail(c)
  /\ UNCHANGED <<tokenWriter, retired, repoVars, oauthVars>>

\* refreshAccessToken up to the request; an empty refresh token is an error,
\* and an error is answered by a device flow under refreshMutex.
Refresh(c) ==
  /\ At(c, "refresh")
  /\ \/ /\ cred[c].refresh = NoToken
        /\ StartDeviceFlow(c)
     \/ /\ cred[c].refresh # NoToken
        /\ Goto(c, "reply")
        /\ presented' = [presented EXCEPT ![c] = cred[c].refresh]
        /\ UNCHANGED <<op, via, cred, outcome, since, refreshHolder>>
  /\ UNCHANGED <<tokenWriter, retired, repoVars, oauthVars>>

\* Mutant: the answer is saved as it came, without the old resource URL.
RefreshAnsweredBare(c) ==
  /\ At(c, "reply")
  /\ Issue(home[cred[c].grant])
  /\ \E t \in TokensAfterRefresh(presented[c]) : Take(c, Answer(t, NoUrl))
  /\ via' = [via EXCEPT ![c] = "refresh"]
  /\ Goto(c, "save")
  /\ UNCHANGED <<op, outcome, presented, lockVars, since, retired, repoVars>>

\* The token endpoint answers the refresh; the resource URL of the old
\* credentials is kept.
RefreshAnswered(c) ==
  /\ At(c, "reply")
  /\ Issue(home[cred[c].grant])
  /\ \E t \in TokensAfterRefresh(presented[c]) : Take(c, Answer(t, cred[c].url))
  /\ via' = [via EXCEPT ![c] = "refresh"]
  /\ Goto(c, "save")
  /\ UNCHANGED <<op, outcome, presented, lockVars, since, retired, repoVars>>

\* The refresh fails, or its answer never arrives.
RefreshFails(c) ==
  /\ At(c, "reply")
  /\ ServiceFails
  /\ StartDeviceFlow(c)
  /\ UNCHANGED <<tokenWriter, retired, repoVars>>

-----------------------------------------------------------------------------
(* authenticateWithDeviceFlow. *)

DeviceGranted(c) ==
  /\ At(c, "device")
  /\ \E url \in Resource :
       /\ Issue(url)
       /\ \E t \in TokensAfterDevice : Take(c, Answer(t, url))
  /\ Goto(c, "save")
  /\ UNCHANGED <<op, via, outcome, presented, lockVars, since, retired, repoVars>>

DeviceFails(c) ==
  /\ At(c, "device")
  /\ ServiceFails
  /\ Fail(c)
  /\ UNCHANGED <<tokenWriter, retired, repoVars>>

-----------------------------------------------------------------------------
(* tokenMutex.Lock, Save, and the deferred Unlock, for both kinds of save. *)

\* Mutant: the error of Save is dropped.
SaveFailedIgnored(c) == Succeed(c, cred[c])

\* What follows a Save that returned an error: the caller of
\* refreshAccessToken turns to the device flow, the device flow gives up.
SaveFailed(c) ==
  \/ via[c] = "refresh" /\ StartDeviceFlow(c)
  \/ via[c] = "device" /\ Fail(c)

\* Lock and open the file.
BeginSave(c) ==
  /\ At(c, "save")
  /\ tokenWriter = None
  /\ tokenWriter' = c
  /\ Goto(c, "write")
  /\ Truncate
  /\ UNCHANGED <<op, via, cred, outcome, presented, refreshHolder, since, retired,
                 oauthVars>>

\* Lock, fail to open the file and unlock.
SaveNotOpened(c) ==
  /\ "disk" \in Faults
  /\ At(c, "save")
  /\ tokenWriter = None
  /\ OpenFails
  /\ SaveFailed(c)
  /\ UNCHANGED <<tokenWriter, retired, oauthVars>>

SaveCompletes(c) ==
  /\ At(c, "write")
  /\ CompleteWrite(cred[c])
  /\ Succeed(c, cred[c])
  /\ tokenWriter' = None
  /\ retired' = IF via[c] = "refresh" /\ cred[c].refresh # presented[c]
                THEN retired \cup {presented[c]} ELSE retired
  /\ UNCHANGED oauthVars

SaveTears(c) ==
  /\ "disk" \in Faults
  /\ At(c, "write")
  /\ WriteFails
  /\ SaveFailed(c)
  /\ tokenWriter' = None
  /\ UNCHANGED <<retired, oauthVars>>

-----------------------------------------------------------------------------
(* The environment. *)

TimePasses ==
  /\ \E g \in Grants : Expire(g)
  /\ UNCHANGED <<callerVars, lockVars, since, retired, repoVars>>

\* The process dies and restarts: goroutines and mutexes are gone.
Crash ==
  /\ "crash" \in Faults
  /\ pc' = [c \in Callers |-> "idle"]
  /\ op' = [c \in Callers |-> "none"]
  /\ via' = [c \in Callers |-> "none"]
  /\ cred' = [c \in Callers |-> NoCredential]
  /\ outcome' = [c \in Callers |-> "none"]
  /\ presented' = [c \in Callers |-> NoToken]
  /\ since' = [c \in Callers |-> 0]
  /\ refreshHolder' = None
  /\ tokenWriter' = None
  /\ ProcessDies
  /\ UNCHANGED <<retired, oauthVars>>

\* The operator clears the directory while no save is in it.
ClearDirectory ==
  /\ "clear" \in Faults
  /\ tokenWriter = None
  /\ DirectoryCleared
  /\ UNCHANGED <<callerVars, lockVars, since, retired, oauthVars>>

\* One step of the code on behalf of c.
Progress(c) ==
  \/ Load(c) \/ CheckExpiry(c) \/ LockRefresh(c) \/ Recheck(c) \/ Reload(c)
  \/ Refresh(c) \/ RefreshAnswered(c) \/ RefreshFails(c)
  \/ DeviceGranted(c) \/ DeviceFails(c)
  \/ BeginSave(c) \/ SaveNotOpened(c) \/ SaveCompletes(c) \/ SaveTears(c)

Next ==
  \/ \E c \in Callers : Progress(c)
  \/ \E c \in Callers, o \in {"ensure", "handler"} : Call(c, o)
  \/ TimePasses
  \/ Crash
  \/ ClearDirectory

Spec == Init /\ [][Next]_vars

\* Go's mutexes are starvation-free and every request to the OAuth server has
\* a timeout, so a call that can move infinitely often does move.
Fairness == \A c \in Callers : SF_vars(Progress(c))

FairSpec == Spec /\ Fairness

-----------------------------------------------------------------------------
(* Properties. *)

\* At most one refresh request is out: the purpose of refreshMutex
\* (auth.go:66, "to prevent concurrent refreshes").
OneRefreshInFlight ==
  \A c, d \in Callers : At(c, "reply") /\ At(d, "reply") => c = d

\* A refresh token that a stored refresh has replaced is never sent again:
\* the purpose of the second Load under refreshMutex (auth.go:70).  A server
\* that rotates refresh tokens revokes the grant when it sees one reused.
RetiredTokenNeverPresented == \A c \in Callers : presented[c] \notin retired

\* Whoever holds an access token, file or caller, holds the resource URL of
\* the account it was granted for, through refreshes and concurrent device
\* flows for other accounts (auth.go:113).
TokenMatchesResource ==
  /\ Loads => file.creds.url = home[file.creds.grant]
  /\ \A c \in Callers : cred[c] # NoCredential => cred[c].url = home[cred[c].grant]

\* The credentials a call returns were in the file at some moment of the
\* call: they were stored completely, and no save that had finished before
\* the call began is newer.  Calls that follow one another never go back.
ReturnsCurrentCredentials ==
  [][\A c \in Callers :
       pc[c] # "idle" /\ pc'[c] = "idle" /\ outcome'[c] = "ok"
       => /\ version'[cred'[c].grant] > 0
          /\ version'[cred'[c].grant] >= since[c]]_vars

\* A save in progress is never observed: a caller that fails to load the
\* credentials either failed to read an intact file, or the file was missing,
\* cleared or left torn by a fault, and no goroutine was just writing it.
SaveNeverObserved ==
  [][\A c \in Callers :
       /\ pc[c] \in {"load", "recheck", "reload"}
       /\ pc'[c] = "device" \/ (pc'[c] = "idle" /\ outcome'[c] = "error")
       => \/ Loads /\ ReadFails
          \/ damaged /\ tokenWriter = None]_vars

\* The refreshed credentials a save stores can be refreshed in turn: "Token
\* Management: Automatic refresh of OAuth tokens" (README.md:17).
RefreshKeepsRefreshToken ==
  [][\A c \in Callers :
       /\ pc[c] = "write" /\ via[c] = "refresh"
       /\ Loads'
       => file'.creds.refresh # NoToken]_vars

\* CheckAuthentication answers "without performing device flow"
\* (auth.go:151): the check of AuthenticateHandler never starts one.
CheckOnlyChecks == \A c \in Callers : At(c, "device") => op[c] # "handler"

-----------------------------------------------------------------------------
(* AuthUseCase implements TokenStore: its steps under mutexes and its save   *)
(* in two steps amount to steps that take effect at once.                    *)

Abstract == INSTANCE TokenStore WITH
  Tokens <- Grants, NoGrant <- NoCredential.grant,
  stored <- version,
  saves <- versions,
  calls <- {c \in Callers : pc[c] # "idle"},
  begun <- since,
  given <- [c \in Callers |-> IF pc[c] = "idle" THEN cred[c].grant ELSE NoCredential.grant],
  refreshes <- {c \in Callers : pc[c] = "reply"},
  sent <- presented,
  spent <- retired

\* Every behaviour of the use case is one of the store of tokens, with goroutines
\* racing, saves failing and the process dying at any point.
ImplementsStore == Abstract!Safety

\* Every call returns: no caller waits for ever for a mutex, whichever error
\* path the holder takes (auth.go:68, 74, 92, 116).
CallsReturn == Abstract!Answers

-----------------------------------------------------------------------------
(* The inductive invariant behind the safety properties. *)

Unsaved(c) == pc[c] \in {"save", "write"}
Loaded(c) == pc[c] \in {"check", "lock", "reload", "refresh", "reply"}

\* Credentials made of what the token endpoint has issued.
Genuine(cr) == cr \in Credential /\ cr.grant <= issued /\ cr.refresh <= issued

\* Who must own which mutex.
LockInv == \A c \in Callers :
  /\ pc[c] \in {"recheck", "reload", "refresh", "reply"} => refreshHolder = c
  /\ At(c, "device") => via[c] = "device"
  /\ Unsaved(c) => via[c] = "device" \/ (via[c] = "refresh" /\ refreshHolder = c)
  /\ At(c, "write") => tokenWriter = c
  /\ op[c] = "manual" => pc[c] \in {"device", "save", "write", "idle"}

\* The file: it holds the latest save unless it is damaged or being written.
StoreInv ==
  /\ Loads => /\ Genuine(file.creds)
              /\ version[file.creds.grant] = versions
              /\ versions > 0
  /\ ~Loads /\ tokenWriter = None => damaged
  /\ \A c \in Callers : since[c] <= versions

\* Credentials in hand: loaded ones have been stored, unsaved ones never.
HandInv == \A c \in Callers :
  /\ cred[c] # NoCredential => Genuine(cred[c])
  /\ Loaded(c) \/ Unsaved(c) => cred[c] # NoCredential
  /\ At(c, "check") =>
       version[cred[c].grant] > 0 /\ version[cred[c].grant] >= since[c]

\* The refresh token c is about to present or has presented.
InUse(c) == IF At(c, "refresh") THEN cred[c].refresh ELSE presented[c]

\* Refresh tokens that may still be presented are not retired.
TokenInv ==
  /\ NoToken \notin retired
  /\ \A t \in retired : t <= issued
  /\ Loads => file.creds.refresh \notin retired
  /\ \A c \in Callers :
       /\ presented[c] # NoToken =>
            At(c, "reply") \/ (Unsaved(c) /\ via[c] = "refresh")
       /\ At(c, "reply") \/ (Unsaved(c) /\ via[c] = "refresh") =>
            presented[c] # NoToken
       /\ presented[c] <= issued
       /\ InUse(c) \notin retired
       /\ Unsaved(c) => cred[c].refresh \notin retired

\* The grant of an unsaved credential is nobody else's refresh token.
FreshInv == \A c \in Callers : Unsaved(c) =>
  /\ cred[c].refresh \in {NoToken, cred[c].grant, presented[c]}
  /\ cred[c].grant \notin retired
  /\ Loads => file.creds.refresh # cred[c].grant
  /\ \A d \in Callers : InUse(d) # cred[c].grant
  /\ \A d \in Callers \ {c} : Unsaved(d) => cred[d].grant # cred[c].grant

IInv ==
  /\ TypeOK
  /\ LockInv
  /\ StoreInv
  /\ HandInv
  /\ TokenInv
  /\ FreshInv
  /\ TokenMatchesResource
=============================================================================
