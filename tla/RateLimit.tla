----------------------------- MODULE RateLimit -----------------------------
(***************************************************************************)
(* The RateLimit middleware: one RequestTracker per client IP in a         *)
(* sync.Map, request goroutines that count themselves in it, and the       *)
(* cleanup goroutine that drops trackers which have been idle.             *)
(*                                                                         *)
(* Time is discrete and relative: instead of a time stamp the model keeps  *)
(* its age, which grows with every Tick up to Oldest, beyond which no      *)
(* comparison of the code can tell ages apart.  `x.After(now.Add(-d))'     *)
(* reads "the age of x is less than the age of now plus d".                *)
(***************************************************************************)
EXTENDS Integers, Sequences, FiniteSets, SequencesExt, Subsequences

CONSTANTS
  IPs,                \* client addresses
  Handlers,           \* goroutines serving requests
  None,               \* no address, no tracker
  RequestsPerSecond,  \* requestsPerSecond
  Window,             \* the second of the sliding window, in ticks
  Interval,           \* the period of the cleanup ticker, in ticks
  Horizon,            \* the idle time after which a tracker is dropped, in ticks
  MaxDelay            \* bound on the ticks between time.Now and its use

ASSUME RateAssumption == RequestsPerSecond \in Nat \ {0}
ASSUME TimeAssumption ==
  /\ {Window, Interval, Horizon} \subseteq Nat \ {0}
  /\ MaxDelay \in 0..(Window - 1)
  /\ Window + MaxDelay < Horizon
  /\ Window + 2 * MaxDelay <= Interval
ASSUME FiniteAssumption == IsFiniteSet(IPs) /\ IsFiniteSet(Handlers)
ASSUME NoneAssumption == None \notin IPs \cup Nat

Oldest == Horizon + MaxDelay + 1
Ages == 0..Oldest
Recent == 0..(MaxDelay + Window - 1)
Trackers == 1..(Cardinality(IPs) + Cardinality(Handlers))

VARIABLES
  requestCounts,  \* the sync.Map: the tracker of each address
  requests,       \* RequestTracker.Requests of each tracker, as ages
  pc,             \* idle; arrived: has taken `now'; holding: has its tracker
  ip,             \* clientIP of each handler
  age,            \* the age of `now' of each handler
  tracker,        \* the tracker each handler has loaded
  cleaner,        \* waiting; ranging; deleting
  cleanAge,       \* the age of the last cleanup's beginning and of its `now'
  todo,           \* the keys the Range has yet to visit
  admitted        \* history: admitted[i][n] requests of i were let through n
                  \* ticks ago, as far back as a window reaches

handlerVars == <<pc, ip, age, tracker>>
cleanerVars == <<cleaner, cleanAge, todo>>
vars == <<requestCounts, requests, handlerVars, cleanerVars, admitted>>

TypeOK ==
  /\ requestCounts \in [IPs -> Trackers \cup {None}]
  /\ requests \in [Trackers -> Seq(Ages)]
  /\ \A t \in Trackers : Len(requests[t]) <= RequestsPerSecond
  /\ pc \in [Handlers -> {"idle", "arrived", "holding"}]
  /\ ip \in [Handlers -> IPs \cup {None}]
  /\ age \in [Handlers -> 0..MaxDelay]
  /\ tracker \in [Handlers -> Trackers \cup {None}]
  /\ cleaner \in {"waiting", "ranging", "deleting"}
  /\ cleanAge \in 0..Interval
  /\ todo \in Seq(IPs)
  /\ admitted \in [IPs -> [Recent -> Nat]]

Init ==
  /\ requestCounts = [i \in IPs |-> None]
  /\ requests = [t \in Trackers |-> << >>]
  /\ pc = [h \in Handlers |-> "idle"]
  /\ ip = [h \in Handlers |-> None]
  /\ age = [h \in Handlers |-> 0]
  /\ tracker = [h \in Handlers |-> None]
  /\ cleaner = "waiting"
  /\ cleanAge = 0
  /\ todo = << >>
  /\ admitted = [i \in IPs |-> [n \in Recent |-> 0]]

-----------------------------------------------------------------------------
(* The handler. *)

\* What the middleware looks at in a request: the addresses X-Forwarded-For
\* lists, X-Real-IP, and the remote address of the connection.
Requests ==
  [forwarded: {<< >>} \cup (IPs \X IPs), real: IPs \cup {None}, remote: IPs]

\* The address a request is counted under: the first of those the proxies
\* have added, else the real address, else that of the connection.
getClientIP(r) ==
  IF r.forwarded # << >> THEN Head(r.forwarded)
  ELSE IF r.real # None THEN r.real ELSE r.remote

ClientIPs == {getClientIP(r) : r \in Requests}

\* A request comes in: clientIP and now are taken.
Arrive(h, i) ==
  /\ pc[h] = "idle"
  /\ pc' = [pc EXCEPT ![h] = "arrived"]
  /\ ip' = [ip EXCEPT ![h] = i]
  /\ age' = [age EXCEPT ![h] = 0]
  /\ UNCHANGED <<requestCounts, requests, tracker, cleanerVars, admitted>>

\* The trackers that are not garbage; a new RequestTracker replaces one that is.
Referenced == {requestCounts[i] : i \in IPs} \cup {tracker[h] : h \in Handlers}
Unused == CHOOSE t \in Trackers : t \notin Referenced

\* Mutant: a Store for every request.
LoadOrStoreAlways(h) ==
  /\ pc[h] = "arrived"
  /\ pc' = [pc EXCEPT ![h] = "holding"]
  /\ tracker' = [tracker EXCEPT ![h] = Unused]
  /\ requestCounts' = [requestCounts EXCEPT ![ip[h]] = Unused]
  /\ requests' = [requests EXCEPT ![Unused] = << >>]
  /\ UNCHANGED <<ip, age, cleanerVars, admitted>>

\* LoadOrStore.
LoadOrStore(h) ==
  /\ pc[h] = "arrived"
  /\ pc' = [pc EXCEPT ![h] = "holding"]
  /\ \/ /\ requestCounts[ip[h]] # None
        /\ tracker' = [tracker EXCEPT ![h] = requestCounts[ip[h]]]
        /\ UNCHANGED <<requestCounts, requests>>
     \/ /\ requestCounts[ip[h]] = None
        /\ tracker' = [tracker EXCEPT ![h] = Unused]
        /\ requestCounts' = [requestCounts EXCEPT ![ip[h]] = Unused]
        /\ requests' = [requests EXCEPT ![Unused] = << >>]
  /\ UNCHANGED <<ip, age, cleanerVars, admitted>>

\* Mutant: a rejected request keeps what it should have pruned.
ValidRequestsAll(h) == requests[tracker[h]]

\* The requests of the tracker that lie within the window that ends at `now'.
ValidRequests(h) ==
  LET s == requests[tracker[h]]
  IN  Subsequence(s, {k \in DOMAIN s : s[k] < age[h] + Window})

Done(h) ==
  /\ pc' = [pc EXCEPT ![h] = "idle"]
  /\ ip' = [ip EXCEPT ![h] = None]
  /\ age' = [age EXCEPT ![h] = 0]
  /\ tracker' = [tracker EXCEPT ![h] = None]

\* The section under tracker.Mu, when the limit is reached: 429.
Reject(h) ==
  /\ pc[h] = "holding"
  /\ Len(ValidRequests(h)) >= RequestsPerSecond
  /\ requests' = [requests EXCEPT ![tracker[h]] = ValidRequests(h)]
  /\ Done(h)
  /\ UNCHANGED <<requestCounts, cleanerVars, admitted>>

\* Mutant: the comparison with the limit is off by one.
AdmitOneMore(h) ==
  /\ pc[h] = "holding"
  /\ Len(ValidRequests(h)) <= RequestsPerSecond
  /\ requests' = [requests EXCEPT ![tracker[h]] = Append(ValidRequests(h), age[h])]
  /\ admitted' = [admitted EXCEPT ![ip[h]][0] = @ + 1]
  /\ Done(h)
  /\ UNCHANGED <<requestCounts, cleanerVars>>

\* The section under tracker.Mu, when it is not; the request is served.
Admit(h) ==
  /\ pc[h] = "holding"
  /\ Len(ValidRequests(h)) < RequestsPerSecond
  /\ requests' = [requests EXCEPT ![tracker[h]] = Append(ValidRequests(h), age[h])]
  /\ admitted' = [admitted EXCEPT ![ip[h]][0] = @ + 1]
  /\ Done(h)
  /\ UNCHANGED <<requestCounts, cleanerVars>>

-----------------------------------------------------------------------------
(* The cleanup goroutine. *)

\* The ticker has fired; `now' is taken and the Range begins.  It visits the keys
\* that are there and possibly some that are stored while it goes on.  If the
\* last tick was received late, this one comes so much the sooner.
StartCleanup ==
  /\ cleaner = "waiting"
  /\ cleanAge >= Interval - MaxDelay
  /\ cleaner' = "ranging"
  /\ cleanAge' = 0
  /\ \E keys \in SUBSET IPs :
       /\ {i \in IPs : requestCounts[i] # None} \subseteq keys
       /\ todo' \in SetToSeqs(keys)
  /\ UNCHANGED <<requestCounts, requests, handlerVars, admitted>>

\* Mutant: the first request is compared, not the last; none is never dropped.
IdleNever(t) == requests[t] # << >> /\ Head(requests[t]) > cleanAge + Oldest

\* Whether the tracker is empty or its last request is before the cutoff.
Idle(t) == requests[t] # << >> => Last(requests[t]) > cleanAge + Horizon

\* Visit the next key: look at its tracker under tracker.Mu, and unlock.  A
\* key that has not been stored by then is not visited.
Inspect ==
  /\ cleaner = "ranging"
  /\ todo # << >>
  /\ \/ /\ requestCounts[Head(todo)] # None
        /\ Idle(requestCounts[Head(todo)])
        /\ cleaner' = "deleting"
        /\ UNCHANGED todo
     \/ /\ requestCounts[Head(todo)] # None => ~Idle(requestCounts[Head(todo)])
        /\ todo' = Tail(todo)
        /\ UNCHANGED cleaner
  /\ UNCHANGED <<requestCounts, requests, handlerVars, cleanAge, admitted>>

\* Delete the key, whatever has happened to the tracker since.
Delete ==
  /\ cleaner = "deleting"
  /\ requestCounts' = [requestCounts EXCEPT ![Head(todo)] = None]
  /\ todo' = Tail(todo)
  /\ cleaner' = "ranging"
  /\ UNCHANGED <<requests, handlerVars, cleanAge, admitted>>

EndCleanup ==
  /\ cleaner = "ranging"
  /\ todo = << >>
  /\ cleaner' = "waiting"
  /\ UNCHANGED <<requestCounts, requests, handlerVars, cleanAge, todo, admitted>>

-----------------------------------------------------------------------------
Older(n) == IF n < Oldest THEN n + 1 ELSE Oldest

\* One tick.  Nobody is held up for more than MaxDelay ticks between taking
\* `now' and using it.
Tick ==
  /\ \A h \in Handlers : pc[h] # "idle" => age[h] < MaxDelay
  /\ cleaner # "waiting" => cleanAge < MaxDelay
  /\ requests' = [t \in Trackers |->
       IF t \in Referenced THEN [k \in DOMAIN requests[t] |-> Older(requests[t][k])]
                           ELSE << >>]
  /\ age' = [h \in Handlers |-> IF pc[h] = "idle" THEN 0 ELSE age[h] + 1]
  /\ cleanAge' = IF cleanAge < Interval THEN cleanAge + 1 ELSE Interval
  /\ admitted' = [i \in IPs |-> [n \in Recent |-> IF n = 0 THEN 0 ELSE admitted[i][n - 1]]]
  /\ UNCHANGED <<requestCounts, pc, ip, tracker, cleaner, todo>>

Cleanup == StartCleanup \/ Inspect \/ Delete \/ EndCleanup

Serve(h) == LoadOrStore(h) \/ Reject(h) \/ Admit(h)

Next ==
  \/ \E h \in Handlers : Serve(h)
  \/ \E h \in Handlers, i \in ClientIPs : Arrive(h, i)
  \/ Cleanup
  \/ Tick

Spec == Init /\ [][Next]_vars

\* Time goes on, goroutines run, and tracker.Mu is never held across a wait.
FairSpec ==
  /\ Spec
  /\ []<><<Tick>>_vars
  /\ WF_vars(Cleanup)
  /\ \A h \in Handlers : WF_vars(Serve(h))

-----------------------------------------------------------------------------
(* Properties. *)

\* The sum of counts[0..(n - 1)].
Total(counts, n) == Cardinality(UNION {{m} \X (1..counts[m]) : m \in 0..(n - 1)})

\* The requests of i let through in the last n ticks.
AdmittedSince(i, n) == Total(admitted[i], n)

\* The span that has the window of every request let through in it behind it.
Span == Window - MaxDelay

\* "Maximum requests per second per IP address" (.env.example:73): no more
\* than requestsPerSecond requests of one address are let through in a second,
\* a sliding window of it (middleware.go:235).
LimitHolds == \A i \in IPs : AdmittedSince(i, Span) <= RequestsPerSecond

\* What the limit amounts to when the cleanup goroutine drops a tracker that a
\* request has just loaded, and requests are held up between time.Now and the
\* mutex: the second is counted by two trackers, not more.
AtMostTwice == \A i \in IPs : AdmittedSince(i, Span) <= 2 * RequestsPerSecond

\* A request is turned away only if requestsPerSecond requests of its own
\* address have been let through in the last second (middleware.go:233-246):
\* neither requests that were turned away nor those of other addresses count
\* against it.  That limit is what the code applies.  It does not let an address
\* exceed it by a burst, as .env.example:76 has it: `burst' is not looked at.
RejectedAtLimitOnly ==
  [][\A h \in Handlers :
       Reject(h) => AdmittedSince(ip[h], age[h] + Window) >= RequestsPerSecond]_vars

\* The tracker of an address that has fallen silent is dropped in the end:
\* "cleanup goroutine to prevent memory leaks" (middleware.go:197).
IdleTrackerDropped ==
  \A i \in IPs :
    <>[](\A h \in Handlers : ip[h] # i) => <>[](requestCounts[i] = None)
=============================================================================
