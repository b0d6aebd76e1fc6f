# qwen-go-proxy in TLA+

This directory holds a specification of qwen-go-proxy, an HTTP server that
offers the OpenAI API and forwards requests to Qwen with OAuth credentials it
obtains and refreshes itself. It consists of TLA+ modules translated from the
Go code, TLC configurations that check them on small instances, and proofs
that TLAPS checks for every value of the constants. Paths below are relative to
the repository.

## 1. The system

| Component | State | Operations | Modelled in |
|---|---|---|---|
| `AuthUseCase` (`internal/usecases/auth/auth.go`) | `tokenMutex` (RWMutex over the credentials file), `refreshMutex` | `EnsureAuthenticated`, `AuthenticateManually`, `CheckAuthentication` | `Auth`; abstractly `TokenStore` |
| `FileCredentialRepository` (`internal/infrastructure/repositories`) | one JSON file | `Load`, `Save` | `CredentialRepository` |
| `OAuthService` (`internal/infrastructure/services/external_services.go`) | none; the OAuth server's grants | `RefreshToken`, `AuthenticateWithDeviceFlow` | `OAuthService` |
| `StreamingUseCase`, `StreamProcessor` (`internal/usecases/streaming`) | `StreamState`: current state, buffered chunk, error count; per stream | `ProcessStreamingResponse`, `ProcessLine` and its handlers | `Stream` |
| `RateLimit` (`internal/infrastructure/middleware/middleware.go`) | `sync.Map` of address to `RequestTracker` | the handler, `getClientIP`, the cleanup goroutine | `RateLimit` |
| `APIController` (`internal/interfaces/controllers/api.go`), routes of `main` | none | the HTTP handlers | `Server` (outcomes), `Completion` (contents), `Auth` |
| `ProxyUseCase` (`internal/usecases/proxy/proxy.go`), `AIService` | none | `ChatCompletions`, `StreamChatCompletions`, `GetBaseURL`, `convertQwenToOpenAIResponse` | `Server`, `System`, `Completion` |
| lifecycle (`cmd/server/main.go`) | listener, signal context | load the configuration, startup check, serve, shutdown | `Server`, `System` |
| configuration (`internal/infrastructure/config`, `validation`) | the configuration | `LoadConfig`, `ConfigValidator` | `Config`, `Completion`; partly |
| `CORS`, `RequestLogging`, `RequestID` | none | answers preflights; wraps the writer; assigns an id | `Server`, `Stream`; partly |
| `QwenAPIGateway`, logging, mocks | - | - | not modelled (section 9) |

**Interactions.** A request passes the middleware (`RateLimit` last counts it),
is decoded by `APIController`, and `ProxyUseCase` calls `EnsureAuthenticated`
before every upstream call. Any number of request goroutines are therefore in
`AuthUseCase` at once; they share two mutexes and one file, and outside of this
process the OAuth server, which may revoke a refresh token once it has been
replaced. A streamed answer is relayed by `ProcessStreamingResponse` inside the
handler's goroutine. The cleanup goroutine of `RateLimit` shares the map of
trackers with all handlers. `main` calls `EnsureAuthenticated` before it
listens, and exits after a signal, waiting for the handlers no longer than
`ShutdownTimeout`.

**What is hard.** Credentials are loaded, then judged, then refreshed, with a
mutex released in between; a refresh that fails falls back to a device flow of
up to ten minutes while a mutex is held; `Save` truncates the file before it
writes it; device flows are not serialised with anything. The stream processor
decides on the text of one chunk what to do with the chunk before. The cleanup
goroutine decides under one lock and acts after releasing it. The write timeout
of the server is shorter than the timeouts of what its handlers wait for. The
file `PROJECT.json` lists these hazards with their lines and the properties
that cover them.

**What makes each part correct.**

- Authentication: refreshes never overlap; a replaced refresh token is not sent
  again; a token is never paired with another account's URL; what a call
  returns is stored and not older than what was stored when the call began; a
  save in progress is never observed; every call returns.
- Streaming: content is relayed in order and once; what the client does not receive
  is a chunk that stutters with the next one, or the end of a stream that broke off;
  after `[DONE]` nothing follows and the relay ends, with everything delivered.
- Rate limiting: the limit, or what remains of it in the presence of the cleanup
  goroutine; a rejection follows the limit's number of served requests; idle trackers are
  dropped.
- Requests: one response each; success only on the upstream's success; the upstream
  is called with stored credentials, at the URL of their account, and is sent what
  the client asked for; a signal or a failed listener ends the process, and a
  graceful end leaves the credentials intact.
- Configuration: the host that is called is the one the base URL names.

## 2. The modules

```
Credentials <- CredentialRepository \
Credentials <- OAuthService          > Auth       <- MCAuth, Auth_proofs
                                       TokenStore    (refined by Auth: TokenStore_proofs)
Server                                            <- MCServer, Server_proofs
Server, Auth                         > System     <- MCSystem, System_proofs
Stream                                            <- MCStream, Stream_proofs
Subsequences                         > RateLimit  <- MCRateLimit, RateLimit_proofs
Config, Subsequences                 > Completion <- MCCompletion, Completion_proofs
```

`Auth` composes the repository and the OAuth service by `EXTENDS`: their actions
are conjuncts of its own. `System` composes `Server` and `Auth`, two instances over
disjoint variables: a step in which a handler calls `AuthUseCase`, or is answered, is a
step of both, but what a call returns and what the handler does with it are two steps.
`Server` by itself takes the results of the others as nondeterministic
outcomes: `EnsureAuthenticated` succeeds or fails, a request is limited or not, a
relay writes events and ends. `Completion` follows the contents of one request through
the same handlers. `Subsequences` is what a loop leaves behind that appends some elements of
a slice to another one, as the limiter does with its requests and `extractTextContent` with
its blocks; `Subsequences_proofs` holds what the other proofs use of it.

### Credentials, CredentialRepository, OAuthService

An access token is the number of the *grant* (answer of the token endpoint)
it came with. A refresh token carries the number of the grant that introduced
it, 0 for the empty string. The file is absent, torn, or holds credentials;
`Save` is `Truncate` followed by `CompleteWrite` or `WriteFails`, or
`OpenFails` before it. `Load` returns what an intact file holds (`Loads`), unless
reading it fails. The expiry check `timeUntilExpiry < bufferInMillis` is
the set `stale` of grants, which only grows, and at any time.
`damaged`, `version`, `versions` and `home` are history variables: the code
does not have them.

### Auth

`pc[c]` says between which two lines of `EnsureAuthenticated` a goroutine is;
the header of the module lists the labels with their lines. A read section
under `RLock` changes nothing and is one step, enabled while nobody writes. A write
section is two steps, so that a crash can fall in between. A request to the OAuth
server is two steps, so that anything may happen while it is out. `op` tells
`EnsureAuthenticated` called by a use case (`ensure`), called by
`AuthenticateHandler` through `CheckAuthentication` (`handler`), and
`AuthenticateManually` (`manual`), which `AuthenticateHandler` runs when its
check has failed (`GoManual`). With disk faults any `Load` may fail although the file is intact (`ReadFails`: a
denied permission, an I/O error, no descriptor), so that a call may start a device flow, or
fail, over valid credentials. `Crash` is the death of the process at any point, a
forced shutdown included: goroutines and mutexes vanish, the file stays as it is.

### TokenStore

What callers may rely on without knowing of files, mutexes and device flows: calls
begin and end; a save takes effect in one step; a successful call hands out a grant that
is stored and no older than the store was when the call began; one refresh request is out
at a time, and a token that a save has replaced is not sent again. `Auth` holds the
refinement mapping (`Abstract`): `stored` is its `version`, `given` is the grant in the hands of
a caller that has returned successfully, `begun` is `since`, and so on.

### Stream

One action per step of the loop of `ProcessStreamingResponse` (`CheckContext`,
`ReadLine`, `ReadEOF`, `ReadFails`) and one operator per state handler of
`StreamProcessor`. Lines are identified by their position, so that `out` and
`buffer` say *which* chunk was written and not only with what text. `Prefix` is a
constant relation; nothing but "one text is a prefix of the other" matters to the
code. `StateRecovering` is left out: `handleChunkError` enters it for
`ActionRetry` only, and the one error type answered with it is never raised.
`delivered` counts the lines that `Flush` has handed to the connection; in `DebugMode`
the writer of `RequestLogging` hides `Flush`, and how much of what was written has been
handed over is up to net/http's buffer until the handler returns.
`ClientContext` is `TRUE` for a caller that passes a context which its client's
disconnect closes, as the function's contract and its tests have it, and `FALSE`
for the `context.Background()` of `StreamChatCompletions`. With `TRUE` the client may
still stay to the end, so the behaviours with `FALSE` are among those with `TRUE`; only
a client that leaves without being noticed is not, and it receives nothing anyway. `processed`
is a history variable: the lines that `ProcessLine` has looked at.

### RateLimit

`now` is taken in `Arrive`, the tracker in `LoadOrStore`, the section under
`tracker.Mu` is `Admit` or `Reject`. The cleanup goroutine looks at a tracker in
`Inspect` and deletes its key in `Delete`; handlers run between the two. A
tracker that neither the map nor a handler refers to is garbage and is reused, so
that the model is finite. Time stamps are kept as ages. `Range` visits
the keys present at its start, and possibly some that are stored meanwhile. The goroutine may
receive a tick late, by up to `MaxDelay`; the next one comes at its own time, so two runs of
the cleanup may be that much less than `Interval` apart.

### Server

`main`, `listener` and `signalled` are the life of the process; `stage`, `kind`,
`upstream`, `late` and `answer` are a request's way through `APIController` and
`ProxyUseCase`. `answer` is what the client has received: a status and the kinds
of parts of the body. After the write deadline (`late`) nothing reaches it any
more. Exits (`ShutdownDone`, `ShutdownTimesOut`, a configuration that does not load)
cut every connection, and `Restart` starts the process again.

### System

The handlers and `main` are the callers of `Auth`. `CallAuth` is the call of
`EnsureAuthenticated`; `AuthStep` is any step inside of it, up to the one in which it
releases its mutexes and leaves its outcome, and `TurnsManual` if `AuthenticateHandler` goes on
to `AuthenticateManually`. `CallReturned` is a later step: the handler looks at the outcome and
goes on to the upstream or writes its response, and meanwhile other goroutines may have
locked and truncated the file. `Shutdown` ends the process and
with it every call, wherever it stands; the file is found as it is by the next start.

### Config and Completion

`Config` has `LoadConfig` as a function of the environment and `ConfigValidator` as
a predicate, for the two variables that `Completion` depends on; its other checks are left
open, and `LoadConfigFails` may happen in any environment. (That the limit and the
shutdown timeout are not negative, `validators.go:55-69`, is what `RateLimit` and `Server`
start from.) `Completion` has one action
for each step a request takes: `Decode` (the handler), `Send` (`ProxyUseCase` and
`AIService`), `Answer` (the way back), `Relay` (a stream, see `Stream`). A JSON member is
absent, of the wrong type, or a number of either sign counted in halves, so that `1.5`
exists and `-1.5` is truncated towards zero. A URL is what stands in front of `://`, a host,
and the end of its path, because `GetBaseURL` works with prefixes and suffixes only; its
`target` is the URL as `http.NewRequest` parses it, so that of `HTTPS://account` the host is
`HTTPS`.

## 3. The runs

| Run | Module, instance | Shows |
|---|---|---|
| `auth` | `MCAuth`; 2 callers, 2 grants, crashes, disk faults, cleared directory; 430 thousand states | the safety and action properties of authentication, and that `IInv` is an invariant before it is proved inductive; under `FairSpec`, `ImplementsStore`, the refinement of `TokenStore` with its liveness, and `CallsReturn` |
| `check` | `MCAuth`, no faults | violation: `CheckOnlyChecks` |
| `rotation` | `MCAuth`, no faults | violation: `RefreshKeepsRefreshToken` |
| `relay` | `MCStream`; up to 5 lines over 4 texts | the order of the output, which content the client does not receive, what follows `[DONE]`, what has been delivered while the relay waits, and how it ends |
| `background` | `MCStream`, `ClientContext = FALSE` | violation: `StopsForGoneClient` |
| `debug` | `MCStream`, `DebugMode = TRUE` | violation: `DeliveredWhileWaiting` |
| `rates` | `MCRateLimit`; 1 address, 3 handlers, limit 2, delays of a tick, late ticks; 1.5 million states | `AtMostTwice`, `RejectedAtLimitOnly`, the bound on a tracker, and `IdleTrackerDropped` under `FairSpec` |
| `limit` | `MCRateLimit`; 1 address, 2 handlers | violation: `LimitHolds` |
| `system` | `MCSystem`; `main` and a handler that serves every kind of request, exits and restarts at any point | what clients receive, and `Exits` under `FairSpec` |
| `handlers` | `MCSystem`; `main`, a handler of `/auth` and one of chat completions; 4.9 million states | with which credentials the upstream is called, what `/auth` may claim, and what an exit leaves on disk |
| `silent` | `MCServer`; 2 handlers | violation: `StreamErrorsFollowHeader` |
| `translation` | `MCCompletion`; environments, bodies, accounts and responses that are unusual in one way at a time; 260 thousand states | what the upstream is sent and where, and what becomes of the answer |

Each property is preceded by its statement in words. For each property of a passing
run `PROJECT.json` names a mutant, a changed version of one definition that stands
beside it in the module (marked *Mutant*), with which the property fails.

## 4. Bounds, and why they are enough

- *Two callers* in `Auth`: each hazard is a race of one goroutine with another (the
  winner and the loser of `refreshMutex`, a writer and a reader, two device
  flows). The safety properties are proved for any number.
- *Two grants*: a first login, and a refresh or another login that races with whoever
  holds the first. With two, a token can be replaced by a stored refresh while it is in
  somebody else's hands, and two device flows for different accounts can overtake each
  other. Once `MaxGrants` is reached the endpoint only fails, which is also a behaviour of
  the code. What takes three, a refresh and a login that both succeed against a third
  grant, is not in this run: every safety and action property of it is proved for any
  number of grants (section 7).
- *One resource URL* and the empty one: two accounts that differ.
- *Five lines* in `Stream`: leave the initial state, hold back, replace, resolve, and
  one more line or `[DONE]`. *Four texts*, the empty word, `a`, `ab`, `b`: growth,
  shrinking, equality, and texts unrelated to one another. The safety properties are
  proved for any texts and streams of any length.
- `RateLimit`: a window of 2 ticks, so that "in the window" and "at its end" differ;
  a cleanup period of 4 and a horizon of 5, so that, as in the code (5 minutes and
  10), a tracker survives one cleanup and a window is shorter than a period. The
  assumptions `Window + MaxDelay < Horizon` and `Window + 2 * MaxDelay <= Interval` are the
  code's 1 second against 10 and 5 minutes. The second one is needed: with a period of 3, two
  runs of the cleanup can each detach a tracker within one window, and TLC finds
  `AtMostTwice` violated. `MaxDelay` bounds how long a handler or the cleaner may be held up between taking
  `now` and using it. A request that was held up may be let through after a later one has
  pruned the window it belongs to, which is why `AtMostTwice` is about the last `Window -
  MaxDelay` ticks (`Span`). One address is enough for TLC, since trackers of different
  addresses do not touch each other, which is part of what is proved for any number
  (`OwnInv`).
- `System`: in `system` one handler, which may get every kind of request in turn, and
  `main`, which calls `AuthUseCase` as well: two goroutines in `Auth`. What happens to one
  request because of another is the subject of `handlers`: `/auth`, which may store a login
  and reports one, against a chat completion, which may refresh and takes its credentials
  to the upstream. For any number of handlers and any kinds of request there are the
  theorems of section 7. The exit of the process is the only fault.
- `MCServer`: two handlers, so that one request is in flight while another begins.
- `Completion`: an environment sets at most one variable, the base URL to every form the
  model knows; a body deviates from a plain one in one member, with numbers from -1.5 to
  1.5, or has all parameters, each with a value of its own; a response has up to two choices with up to two tool calls.
  The steps treat each of these separately, so what goes wrong goes wrong with one.

No run uses symmetry.

## 5. Fairness

- `Auth`: strong fairness of each caller's next step. Go's mutexes hand over in
  FIFO order once a waiter has starved for a millisecond, so a goroutine for which
  a mutex is free again and again gets it; every request to the OAuth server has a
  timeout (30 s per request, ten minutes for a device flow), so an answer or a
  failure comes. Nothing forces an answer to be a success. A crash ends a call, too.
- `Stream`: none. The upstream may stay silent for ever, and that the relay ends with
  `[DONE]` is a safety property (`DoneEndsRelay`): the code has returned by then.
- `RateLimit`: time goes on, goroutines run. Arrivals are not fair.
- `System`: weak fairness of `main`, and that of `Auth` for the callers in it. Requests
  may hang in the upstream for ever: the end of `Shutdown` is its timeout.

## 6. Findings

Each is a run with the verdict *violation*; `PROJECT.json` quotes the lines.

1. `check`: `CheckAuthentication` is documented not to start a device flow, and does.
   `AuthenticateHandler` then starts a second one.
2. `rotation`: a refresh answer without `refresh_token` erases the stored one, so the
   next expiry cannot be refreshed and needs a login.
3. `background`: the streaming use case gets `context.Background()`, so its detection of
   a client that has gone never fires.
4. `debug`: in debug mode the response writer has no `Flush`, and events wait in a
   buffer while the relay waits for the upstream.
5. `limit`: the cleanup goroutine deletes a tracker that a request has just loaded, so
   two trackers count the same second. `AtMostTwice` shows how far this goes.
6. `silent`: a streaming request that fails before the relay is answered by status 200
   and an empty body.

Observations made while reading, without a run of their own because one place in the code
shows each:

- `burst` is the capacity of a slice and nothing else (`middleware.go:228`): requests are
  turned away from the limit per second on, although `.env.example:76` promises "Maximum
  burst requests allowed per IP address" and `README.md:144` a "Burst capacity for rate
  limiting". `RejectedAtLimitOnly` states the limit as the code applies it.
- `maxErrors` of the stream processor is set and never read.
- A transient failure to read a valid credentials file starts a device flow
  (`auth.go:51-54`).
- What is held back is lost when the upstream ends or fails without `[DONE]`, and so is
  an unterminated last line (`streaming.go:61-68`).
- An empty chunk, or a shorter one, counts as stuttering and replaces the text held back
  (`processor.go:636`).
- `ENABLE_TLS` (`README.md:149`) is read by nothing.
- `ConfigValidator` accepts base URLs with a scheme in capitals or a trailing slash.
  `GetBaseURL` makes `https://HTTPS://api.example.com/v1` of the first kind, which
  `http.NewRequest` takes for the host `HTTPS`, so that the request and its access token are
  addressed to another host than the one configured (`external_services.go:226`); and
  `.../v1//v1` of `.../v1/`.
- A list of prompts is refused, although `entities.go:85` says that `prompt` may be one;
  `ChatMessage` has no `tool_call_id`; parameters that are 0 are not sent, because of
  `omitempty`.
- The rate limiter is in front of `CORS`, so a 429 has no CORS headers (`main.go:70-73`).

## 7. Proofs

The modules `*_proofs` hold proofs checked by `tlapm`. Each theorem is of the form
`Spec => []P` or `Spec => [][A]_vars` and holds for every value of the constants that
satisfies the assumptions named in the modules.

**Authentication** (`Auth_proofs`). For any sets of callers and URLs, any number of grants
and any subset of the faults: `TypeCorrect`, `NoConcurrentRefresh`
(`OneRefreshInFlight`), `NoTokenReuse` (`RetiredTokenNeverPresented`), `UrlFollowsToken`
(`TokenMatchesResource`), `ReturnsCurrent` (`ReturnsCurrentCredentials`), `NoTornRead`
(`SaveNeverObserved`). None of them is inductive. `IInv` adds: who holds which mutex at
which label (`LockInv`); that the file, unless damaged or being written, holds the latest
save (`StoreInv`); that credentials in a caller's hands were issued, and were stored unless
the caller is about to store them (`HandInv`); that no token which may still be
presented or stored has been retired (`TokenInv`); and that a grant not stored yet is
known to its owner only (`FreshInv`). The argument for `NoTokenReuse`: a token is
retired by a save under `refreshMutex` in which the file's token is replaced. Whoever
still holds the old token holds it outside of `refreshMutex`, and on entering it
loads the file again. A device flow may save at any time, but a fresh grant is nobody
else's. The proof has a lemma for each conjunct of `IInv`, and in it a step per action.

**Refinement** (`TokenStore_proofs`). `Implementation`: `Auth` implements the safety part of
`TokenStore`. Initial states map to initial states, and under `IInv` every step of `Auth`
maps to a step of the store or a stutter: a read or a wait to a stutter, `Truncate` to
nothing, `CompleteWrite` to `Store`, a crash to `Lose`. The liveness part of
`TokenStore` is checked by `auth`.

**Relay** (`Stream_proofs`). For any texts, any relation `Prefix` and any `MaxLines`:
`TypeCorrect`, `ContentOrdered`, `ContentAccounted` (`ContentAccountedFor`),
`NothingDropped`, `DoneLast`, `DoneEnds` (`DoneEndsRelay`), `Terminates`, and, outside debug
mode, `Delivers`. The invariant says what each state of the
processor knows: in `Initial` no content has come, in `Stuttering` none has been written and
none has come after the line held back, in `NormalFlow` nothing is held back, and before
`Terminating` no `[DONE]` has been written (`StateInv`, `OutInv`). One lemma per
outcome of `ProcessLine` (skip, hold back, write, write `[DONE]`, flush) preserves it.

**Requests** (`Server_proofs`). For any set of handlers: `TypeCorrect`, `SingleResponse`
(`OneResponse`), `SuccessFromUpstream` (`SuccessNeedsUpstream`). The invariant says
that a handler which has not returned has written nothing, or is in the relay and has
written events (`Quiet`), and that every response is of one part and honest (`Sound`).

**Composition** (`System_proofs`). `AuthImplemented` and `ServerImplemented`: a step of
`System` is a step of each part, or leaves its variables alone. So every theorem about
`Auth` and `Server` holds of `System`: `TypeCorrect`, `SingleResponse`,
`SuccessFromUpstream` are proved in this way. On top, an invariant joins the two: where a
handler stands in `Server` determines where it stands in `Auth`, and between `AuthSucceeds` and
the end of the request it holds credentials that were stored (`Linked` and `Equipped` in
`JInv`). `SP` and `AP` are instances of the proof modules of the parts over the variables of
`System`, and the lemmas `SameAuth...` and `SameServer...` say that they speak of the same
actions as `S` and `A`. From it follow
`StoredCredentialsUsed` (`CallsWithStoredCredentials`), for any number of concurrent
handlers, and `GracefulExit` (`GracefulExitKeepsCredentials`): after the last handler
nobody is inside of a save. `AuthAnswersHold` (`AuthAnswersTruly`) has the hypothesis that the
disk does not fail. It follows from a second invariant, `WholeInv`: a caller that
has loaded the file and is about to look at the expiry, or whose call has ended without an
error and whose handler has not answered yet, can rely on the file, since without
failing writes nothing but a save takes it away, and a save puts it back before it
releases the lock. With a failing disk and two handlers the property is false, and TLC shows
it: one handler loads, the save of the other tears the file, and the first answers that
there is a login.

**Rate limiting** (`RateLimit_proofs`). For any finite sets of addresses and goroutines, any
limit, and any window, period, horizon and delay within `TimeAssumption`: `TypeCorrect`, with
the bound on the length of a tracker; `AtMostTwiceHolds` (`AtMostTwice`) and
`RejectionsJustified` (`RejectedAtLimitOnly`: neither the requests of others nor those turned
away count against an address). The invariant relates what was let through
(`admitted`, a history variable) to what is counted in trackers:

- `CountedInv`: what was let through of an address in the last `n` ticks is counted, by the
  tracker in the map alone if the key has not been deleted for long enough; by it and the
  limit once more otherwise; and by it and the detached tracker while a handler
  still holds a tracker that the cleanup has deleted. Counting looks `MaxDelay` ticks
  further back than the letting through, because a request is recorded under the time it
  arrived at.
- `DetachedInv`: the handlers of one address that hold a deleted tracker hold the same one and
  arrived before the deletion. This is what makes it *twice*, and where
  `Window + 2 * MaxDelay <= Interval` comes in: before a second deletion, the handlers
  overtaken by the first have finished, and what they let through has left the window.
- `HonestInv`: what is counted was let through, so a full tracker justifies a rejection.
- `OwnInv`, `HandlerInv`, `CleanerInv`: trackers are not shared between addresses; who holds
  one; the stages of the cleanup.

Each action is broken down to how it changes these counts (`AdmitEffect`, `TickEffect`,
`QuietEffect`), and those rest on lemmas about counting in a sequence (`YoungerAppend`,
`YoungerKept`, `YoungerOlder`) and about sums (`TotalMore`, `TotalShifted`). Sums and
filtered sequences are defined by cardinalities and not by recursion, which the prover
could not unfold. `FiniteAssumption` is needed for these cardinalities; a process only ever
sees finitely many addresses.

**Filtering** (`Subsequences_proofs`). That the positions kept can be numbered from 1 is
proved from the well-foundedness of the order on the naturals: a set of naturals has a least
element (`Smallest`), so there is no least counterexample. `SubsequenceProperties` says
that each element of the result is that of the position it came from, and
`SubsequenceCount` that counting in a prefix of the result is counting in the original.

**Contents** (`Completion_proofs`). For any environments, bodies, resource URLs and
responses: `TypeCorrect`, `RequestPreserved`
(`UpstreamGetsRequest`), `RightTarget` (`TargetFollowsAccount`), `ToolCallsAnswerable`
(`ToolCallsUsable`) and `TextPreserved` (`NoTextLost`). `RequestPreserved` is about the exact
value of every parameter, integer or half, of either sign. `RightTarget` is about base URLs
with no scheme, `http` or `https` (section 6 says what happens to the others), and its part about `/v1`
leaves out those that end in `/v1/`. The assumptions say what types decoding
and parsing leave; `ResponsesAssumption` adds that the ids of tool calls which the upstream
gives are not of the form of those that `convertQwenToOpenAIResponse` generates
(`call_0_1`): the code does not check it, and an upstream that imitated the form could make
two calls indistinguishable. The invariant says which operators made what is
sent and what is answered, out of what; the rest are lemmas about these operators
(`ConfigInUse`, `DecodedParams`, `Rounding`, `BaseURLs`), and for the text those about filtering.

**Only model-checked**: the liveness properties (`CallsReturn`, `IdleTrackerDropped`,
`Exits`) and the liveness of `TokenStore`, because liveness under fairness is not within
reach of the prover. Every safety and action property of a passing
run is proved.

## 8. Running

```
tlc -workers 2 -config MCAuth_safety.cfg MCAuth
tlapm Auth_proofs.tla
```

`rates` and `handlers` take two to three minutes, `auth`, `system` and `translation` one to
two, each other run a few seconds to half a minute; each proof module
about a minute, `RateLimit_proofs` and `Completion_proofs` a few.

## 9. Not modelled, and why

- Log lines, request ids, the wording of responses, headers: no state that outlives a request,
  and nothing reads them back.
- `RequestValidator`, `ExpirationValidator` and `QwenAPIGateway`: no code outside of the tests
  uses them.
- `ChatMessage` contents on the way to the upstream: they pass through unchanged.
- The variables of the configuration but for the base URL and the default model, and the
  checks of them.
- PKCE, HTTP, the browser and the polling loop of the device flow: they end in a
  grant or an error. The polling loop is golang.org/x/oauth2's and shares nothing with
  other goroutines.
- The panics of handlers, which net/http recovers, and failures of single writes to
  a client other than through the write deadline.
- The middleware in front of `Completion` and the relay inside of `System`: `Server` has the
  order of the middleware, and a relay is one step there; joining `Stream` to it would
  multiply two state spaces that share only the beginning and the end of a relay.

## 10. Order of work

The core came first: authentication with its proofs, then the relay, the limiter and the
requests; then the abstract store and the refinement, the composition, the contents of
requests, and the proofs of the relay; then those of the limiter and of the answers on their
way back. What would come next: an abstract rate limit that
`RateLimit` implements between two runs of the cleanup, the composition of `Stream` with
`Server`, and the unused gateway, should `main` come to use it.
