-------------------------- MODULE Completion_proofs -------------------------
(***************************************************************************)
(* What Completion promises for every environment, every body and every    *)
(* resource URL: the upstream is sent what the client asked for, and at    *)
(* the address of the account.  What the model does to a request on its    *)
(* way is the value of a few operators, so that the invariant only says    *)
(* which; and so is what it makes of the answer, of which nothing that     *)
(* matters is lost.                                                        *)
(***************************************************************************)
EXTENDS Completion, Subsequences_proofs

\* What the handler makes of a body it accepts.
Decoded(body) ==
  IF body.route = "chat" THEN DecodedChatRequest(body) ELSE BuildChatRequestFromCompletion(body)

\* The configuration was loaded from some environment, and is valid.
ConfigInv ==
  step \notin {"load", "exited"} =>
    \E env \in Environments : ValidateConfig(LoadedConfig(env)) /\ config = LoadedConfig(env)

\* What is sent is made of the body, the account and the configuration.
SentInv ==
  /\ step = "decoded" => req = Decoded(asked)
  /\ step = "sent" =>
       /\ account \in Accounts
       /\ target = GetBaseURL(account, config.APIBaseURL)
       /\ req = Prepared(Decoded(asked))
       /\ wire = Marshalled(Prepared(Decoded(asked)))
  /\ step # "sent" =>
       account = EmptyURL /\ target = EmptyURL /\ wire = Marshalled(NoRequest)
  /\ step \notin {"decoded", "sent"} => req = NoRequest

\* What a client is answered when the upstream has answered.
Answered(body, choices) ==
  IF body.route = "chat" THEN Converted(choices) ELSE BuildCompletionResponse(Converted(choices))

\* The answer is made of the response of the upstream.
ReplyInv ==
  /\ response \in Responses \cup {<< >>}
  /\ reply.status \in {0, 200, 400, 500}
  /\ reply.status = 200 =>
       /\ response \in Responses
       /\ reply.choices = Answered(asked, response)
       /\ asked.route # "chat" => response # << >>

Steps == {"load", "idle", "asked", "decoded", "sent", "exited"}

IInv ==
  /\ step \in Steps
  /\ asked \in Bodies
  /\ DOMAIN config = DOMAIN Defaults
  /\ ConfigInv
  /\ SentInv
  /\ ReplyInv

LEMMA InitIInv == Init => IInv
BY DEF Init, IInv, Steps, ConfigInv, SentInv, ReplyInv, NoReply

LEMMA ConfigStep ==
  DOMAIN config = DOMAIN Defaults /\ ConfigInv /\ [Next]_vars
    => DOMAIN config' = DOMAIN Defaults /\ ConfigInv'
<1> SUFFICES ASSUME DOMAIN config = DOMAIN Defaults, ConfigInv, [Next]_vars
             PROVE  DOMAIN config' = DOMAIN Defaults /\ ConfigInv'
  OBVIOUS
<1>1. CASE LoadConfig
  <2>1. PICK env \in Environments : ValidateConfig(LoadedConfig(env)) /\ config' = LoadedConfig(env)
    BY <1>1, Zenon DEF LoadConfig
  <2>2. DOMAIN LoadedConfig(env) = DOMAIN Defaults
    BY DEF LoadedConfig
  <2> QED
    BY <2>1, <2>2, Zenon DEF ConfigInv
<1>2. CASE ~LoadConfig
  <2>1. UNCHANGED config
    BY <1>2 DEF Next, LoadConfigFails, Restart, Arrive, Decode, Send, Relay, Answer, vars
  <2>2. step' \notin {"load", "exited"} => step \notin {"load", "exited"}
    BY <1>2 DEF Next, LoadConfigFails, Restart, Arrive, Decode, Send, Relay, Answer, vars
  <2> QED
    BY <2>1, <2>2 DEF ConfigInv
<1> QED
  BY <1>1, <1>2

LEMMA SentStep == asked \in Bodies /\ SentInv /\ [Next]_vars => asked' \in Bodies /\ SentInv'
<1> SUFFICES ASSUME asked \in Bodies, SentInv, [Next]_vars PROVE asked' \in Bodies /\ SentInv'
  OBVIOUS
<1>1. CASE LoadConfig \/ LoadConfigFails \/ Restart
  BY <1>1 DEF LoadConfig, LoadConfigFails, Restart, SentInv
<1>2. ASSUME NEW body \in Bodies, Arrive(body) PROVE asked' \in Bodies /\ SentInv'
  BY <1>2 DEF Arrive, SentInv
<1>3. CASE Decode
  <2>1. /\ step = "asked" /\ step' \in {"decoded", "idle"}
        /\ UNCHANGED <<account, target, wire>>
        /\ step' = "decoded" => req' = Decoded(asked)
        /\ step' = "idle" => req' = req
    BY <1>3 DEF Decode, Decoded
  <2>2. asked' = asked
    BY <1>3 DEF Decode
  <2>3. Decoded(asked)' = Decoded(asked)
    BY <2>2 DEF Decoded, DecodedChatRequest, BuildChatRequestFromCompletion,
                CopyCompletionParameters, Given
  <2> QED
    BY <2>1, <2>2, <2>3 DEF SentInv
<1>4. ASSUME NEW resource \in Accounts, Send(resource) PROVE asked' \in Bodies /\ SentInv'
  <2>1. /\ step = "decoded" /\ step' = "sent" /\ account' \in Accounts
        /\ target' = GetBaseURL(account', config'.APIBaseURL)
        /\ req' = Prepared(req) /\ wire' = Marshalled(req')
    BY <1>4 DEF Send
  <2>0. asked' = asked /\ config' = config
    BY <1>4 DEF Send
  <2>2. Prepared(Decoded(asked))' = Prepared(Decoded(asked))
    BY <2>0 DEF Decoded, DecodedChatRequest, BuildChatRequestFromCompletion,
                CopyCompletionParameters, Given, Prepared
  <2>3. Marshalled(Prepared(Decoded(asked)))' = Marshalled(Prepared(Decoded(asked)))
    BY <2>0 DEF Decoded, DecodedChatRequest, BuildChatRequestFromCompletion,
                CopyCompletionParameters, Given, Prepared, Marshalled
  <2>4. GetBaseURL(account, config.APIBaseURL)' = GetBaseURL(account', config'.APIBaseURL)
    BY DEF GetBaseURL
  <2>5. req = Decoded(asked)
    BY <2>1 DEF SentInv
  <2> QED
    BY <2>0, <2>1, <2>2, <2>3, <2>4, <2>5 DEF SentInv
<1>5. CASE Relay \/ \E choices \in Responses : Answer(choices)
  BY <1>5 DEF Relay, Answer, Return, SentInv
<1>6. CASE UNCHANGED vars
  <2>1. Marshalled(Prepared(Decoded(asked)))' = Marshalled(Prepared(Decoded(asked)))
    BY <1>6 DEF vars, Decoded, DecodedChatRequest, BuildChatRequestFromCompletion,
                CopyCompletionParameters, Given, Prepared, Marshalled
  <2>2. Prepared(Decoded(asked))' = Prepared(Decoded(asked))
    BY <1>6 DEF vars, Decoded, DecodedChatRequest, BuildChatRequestFromCompletion,
                CopyCompletionParameters, Given, Prepared
  <2>3. Decoded(asked)' = Decoded(asked)
    BY <1>6 DEF vars, Decoded, DecodedChatRequest, BuildChatRequestFromCompletion,
                CopyCompletionParameters, Given
  <2> QED
    BY <1>6, <2>1, <2>2, <2>3 DEF vars, SentInv, GetBaseURL
<1> QED
  BY <1>1, <1>2, <1>3, <1>4, <1>5, <1>6 DEF Next

LEMMA ReplyStep == ReplyInv /\ [Next]_vars => ReplyInv'
<1> SUFFICES ASSUME ReplyInv, [Next]_vars PROVE ReplyInv'
  OBVIOUS
<1>1. CASE UNCHANGED <<asked, response, reply>>
  <2>1. Answered(asked, response)' = Answered(asked, response)
    BY <1>1 DEF Answered
  <2> QED
    BY <1>1, <2>1 DEF ReplyInv
<1>2. ASSUME NEW body \in Bodies, Arrive(body) PROVE ReplyInv'
  BY <1>2 DEF Arrive, ReplyInv, NoReply
<1>3. CASE Decode
  <2>1. UNCHANGED <<asked, response>> /\ (UNCHANGED reply \/ reply'.status = 400)
    BY <1>3 DEF Decode
  <2> QED
    BY <1>1, <2>1 DEF ReplyInv
<1>4. ASSUME NEW choices \in Responses, Answer(choices) PROVE ReplyInv'
  <2>1. /\ response' = choices /\ UNCHANGED asked
        /\ reply' = IF asked.route = "chat"
                    THEN [status |-> 200, choices |-> Converted(choices)]
                    ELSE IF choices = << >> THEN [status |-> 500, choices |-> << >>]
                    ELSE [status |-> 200, choices |-> BuildCompletionResponse(Converted(choices))]
    BY <1>4 DEF Answer
  <2>2. /\ reply'.status \in {200, 500}
        /\ reply'.status = 200 =>
             /\ reply'.choices = Answered(asked, choices)
             /\ asked.route # "chat" => choices # << >>
    BY <2>1 DEF Answered
  <2>3. Answered(asked, response)' = Answered(asked, choices)
    BY <2>1 DEF Answered
  <2>4. response' \in Responses
    BY <2>1
  <2>5. /\ reply'.status \in {0, 200, 400, 500}
        /\ reply'.status = 200 =>
             /\ reply'.choices = Answered(asked, response)'
             /\ asked'.route # "chat" => response' # << >>
    BY <2>1, <2>2, <2>3
  <2>6. response' \in Responses \cup {<< >>}
    BY <2>4
  <2> QED
    BY <2>4, <2>5, <2>6 DEF ReplyInv
<1> QED
  BY <1>1, <1>2, <1>3, <1>4 DEF Next, LoadConfig, LoadConfigFails, Restart, Send, Relay, vars

\* Every request that is sent is made of the body of the client, and every answer
\* of the response of the upstream (api.go:223-335, 392-420; proxy.go:71-79, 157-197).
THEOREM Invariance == Spec => []IInv
<1>1. step \in Steps /\ [Next]_vars => step' \in Steps
  BY DEF Steps, Next, LoadConfig, LoadConfigFails, Restart, Arrive, Decode, Send, Relay, Answer,
         Return, vars
<1>2. IInv /\ [Next]_vars => IInv'
  BY <1>1, ConfigStep, SentStep, ReplyStep DEF IInv
<1> QED
  BY InitIInv, <1>2, PTL DEF Spec

-----------------------------------------------------------------------------
(* The configuration. *)

\* The configuration in use, whatever the environment holds.
LEMMA ConfigInUse ==
  ASSUME IInv, step \notin {"load", "exited"}
  PROVE  config.APIBaseURL \in AnyURL /\ config.DefaultModel # ""
<1>1. PICK env \in Environments : config = LoadedConfig(env)
  BY Zenon DEF IInv, ConfigInv
<1>2. LoadedConfig(env).APIBaseURL \in AnyURL /\ LoadedConfig(env).DefaultModel # ""
  BY EnvironmentsAssumption, Zenon
<1> QED
  BY <1>1, <1>2, Zenon

-----------------------------------------------------------------------------
(* The body that is sent. *)

\* A number without its fraction: even, as there are two halves to the whole, no
\* further from 0 than the number and less than two halves from it.
IntegerPart(n, m) == m % 2 = 0 /\ Abs(n - m) < 2 /\ Abs(m) <= Abs(n)

LEMMA Rounding ==
  ASSUME NEW n \in Int
  PROVE  Truncated(n) \in Int /\ IntegerPart(n, Truncated(n)) /\ (n = 0 => Truncated(n) = 0)
<1>1. CASE n >= 0
  BY <1>1 DEF Truncated, IntegerPart, Abs
<1>2. CASE n < 0
  <2>1. PICK k \in Nat : n = -k
    <3>1. -n \in Nat /\ n = -(-n)
      BY <1>2
    <3> QED
      BY <3>1
  <2>2. Truncated(n) = -k + (k % 2) /\ k % 2 \in {0, 1} /\ k > 0
    BY <1>2, <2>1 DEF Truncated
  <2>3. (-k + (k % 2)) % 2 = 0
    BY <2>1
  <2> QED
    BY <1>2, <2>1, <2>2, <2>3 DEF IntegerPart, Abs
<1> QED
  BY <1>1, <1>2

\* What decoding and copying make of a parameter.
LEMMA DecodedParams ==
  ASSUME NEW body \in Bodies, NEW p \in Params
  PROVE  LET value == Decoded(body).params[p]
         IN  /\ value # 0 => p \in Wanted(body)
             /\ p \in Wanted(body) =>
                  IF p = "max_tokens" /\ body.route = "completion"
                  THEN IntegerPart(Given(body, p), value)
                  ELSE value = Given(body, p)
<1>1. /\ body.route \in {"chat", "completion"}
      /\ Given(body, p) \in Int
      /\ body.params[p].type = "number" \/ Given(body, p) = 0
  BY BodiesAssumption
<1>2. CASE body.route = "chat"
  <2>1. Decoded(body).params[p] = Given(body, p)
    BY <1>2 DEF Decoded, DecodedChatRequest
  <2> QED
    BY <1>1, <1>2, <2>1 DEF Wanted
<1>3. CASE body.route = "completion"
  <2>1. Decoded(body).params[p] = CopyCompletionParameters(body)[p]
    BY <1>3 DEF Decoded, BuildChatRequestFromCompletion
  <2>2. CASE p \notin CopiedParams
    <3>1. CopyCompletionParameters(body)[p] = 0
      BY <2>2 DEF CopyCompletionParameters, CopiedParams
    <3> QED
      BY <1>3, <2>1, <2>2, <3>1 DEF Wanted
  <2>3. CASE p = "max_tokens"
    <3>1. CopyCompletionParameters(body)[p] = Truncated(Given(body, p)) /\ p \in CopiedParams
      BY <2>3 DEF CopyCompletionParameters, CopiedParams
    <3>2. /\ IntegerPart(Given(body, p), Truncated(Given(body, p)))
          /\ Given(body, p) = 0 => Truncated(Given(body, p)) = 0
      BY <1>1, Rounding
    <3> QED
      BY <1>1, <1>3, <2>1, <2>3, <3>1, <3>2 DEF Wanted
  <2>4. CASE p \in CopiedParams \ {"max_tokens"}
    <3>1. CopyCompletionParameters(body)[p] = Given(body, p)
      BY <2>4 DEF CopyCompletionParameters, CopiedParams
    <3> QED
      BY <1>1, <1>3, <2>1, <2>4, <3>1 DEF Wanted
  <2> QED
    BY <2>2, <2>3, <2>4
<1> QED
  BY <1>1, <1>2, <1>3

\* What is on the wire is what the client asked for, whatever numbers its body
\* holds, of either sign (api.go:251-277, proxy.go:71-79).
THEOREM RequestPreserved == Spec => []UpstreamGetsRequest
<1>1. IInv => UpstreamGetsRequest
  <2> SUFFICES ASSUME IInv, Called PROVE UpstreamGetsRequest
    BY DEF UpstreamGetsRequest
  <2>1. step = "sent" /\ asked \in Bodies
    BY DEF IInv, SentInv, Called
  <2>2. wire = Marshalled(Prepared(Decoded(asked)))
    BY <2>1 DEF IInv, SentInv
  <2>3. config.DefaultModel # ""
    BY <2>1, ConfigInUse
  <2>4. PICK r : r = Decoded(asked)
    OBVIOUS
  <2>5. /\ Prepared(r).params = r.params /\ Prepared(r).stream = r.stream
        /\ Prepared(r).reasoning = FALSE
        /\ Prepared(r).model = IF r.model = "" THEN config.DefaultModel ELSE r.model
    BY <2>4 DEF Prepared, Decoded, DecodedChatRequest, BuildChatRequestFromCompletion
  <2>6. /\ wire.model = Prepared(r).model /\ wire.stream = r.stream /\ wire.reasoning = FALSE
        /\ DOMAIN wire.params = {q \in Params : r.params[q] # 0}
        /\ \A p \in DOMAIN wire.params : wire.params[p] = r.params[p]
    BY <2>2, <2>4, <2>5 DEF Marshalled
  <2>7. /\ r.stream = (asked.stream = "true")
        /\ asked.route = "chat" => r.model = asked.model
    BY <2>4 DEF Decoded, DecodedChatRequest, BuildChatRequestFromCompletion
  <2>8. \A p \in Params :
          /\ r.params[p] # 0 => p \in Wanted(asked)
          /\ p \in Wanted(asked) =>
               IF p = "max_tokens" /\ asked.route = "completion"
               THEN IntegerPart(Given(asked, p), r.params[p])
               ELSE r.params[p] = Given(asked, p)
    BY <2>1, <2>4, DecodedParams
  <2>9. Wanted(asked) \subseteq Params
    BY DEF Wanted
  <2>10. \A p \in Params : Understood(p) = r.params[p]
    BY <2>6 DEF Understood
  <2>11. DOMAIN wire.params \subseteq Wanted(asked)
    BY <2>6, <2>8
  <2>12. ASSUME NEW p \in Wanted(asked)
         PROVE  IF p = "max_tokens" /\ asked.route = "completion"
                THEN IntegerPart(Given(asked, p), Understood(p))
                ELSE Understood(p) = Given(asked, p)
    BY <2>8, <2>9, <2>10
  <2> QED
    BY <2>3, <2>5, <2>6, <2>7, <2>11, <2>12 DEF UpstreamGetsRequest, IntegerPart
<1> QED
  BY <1>1, Invariance, PTL

-----------------------------------------------------------------------------
(* The address it is sent to. *)

\* A URL with no scheme, or one of HTTP, keeps its host and gets its "/v1".
LEMMA BaseURLs ==
  ASSUME NEW u \in AnyURL, NEW v, v = WithV1(WithScheme(u)),
         u.scheme \in {"none", "http", "https"}
  PROVE  /\ v.host = u.host
         /\ v.scheme = IF u.scheme = "none" THEN "https" ELSE u.scheme
         /\ u.path # <<"v1", "/">> => v.path = <<"v1">>
<1>1. u = [scheme |-> u.scheme, host |-> u.host, path |-> u.path] /\ u.path \in Paths
  BY DEF AnyURL
<1>2. PICK w : w = [scheme |-> IF u.scheme = "none" THEN "https" ELSE u.scheme,
                    host |-> u.host, path |-> u.path]
  OBVIOUS
<1>3. w = WithScheme(u)
  BY <1>1, <1>2 DEF WithScheme
<1>4. v.host = w.host /\ v.scheme = w.scheme
  BY <1>2, <1>3 DEF WithV1
<1>5. ASSUME u.path # <<"v1", "/">> PROVE v.path = <<"v1">>
  <2>1. CASE u.path = << >>
    <3>1. w.path = << >> /\ ~EndsInV1(w)
      BY <1>2, <2>1 DEF EndsInV1
    <3>2. v = [w EXCEPT !.path = Append(@, "v1")]
      BY <1>3, <3>1 DEF WithV1
    <3>3. v.path = Append(w.path, "v1")
      BY <1>2, <3>2
    <3> QED
      BY <3>1, <3>3
  <2>2. CASE u.path = <<"v1">>
    BY <1>2, <1>3, <2>2 DEF WithV1, EndsInV1
  <2> QED
    BY <1>1, <1>5, <2>1, <2>2 DEF Paths
<1> QED
  BY <1>2, <1>4, <1>5

\* For base URLs with no scheme, http or https the request goes to the host of
\* the account, or to the configured one if the account names none, and below
\* one "/v1" unless the base URL ends in "/v1/" (external_services.go:219-235).
THEOREM RightTarget == Spec => []TargetFollowsAccount
<1>1. IInv => TargetFollowsAccount
  <2> SUFFICES ASSUME IInv, Called PROVE TargetFollowsAccount
    BY DEF TargetFollowsAccount
  <2>1. /\ step = "sent" /\ account \in Accounts
        /\ target = GetBaseURL(account, config.APIBaseURL)
    BY DEF IInv, SentInv, Called
  <2>2. config.APIBaseURL \in AnyURL
    BY <2>1, ConfigInUse
  <2>3. PICK u : u = IF account # EmptyURL THEN account ELSE config.APIBaseURL
    OBVIOUS
  <2>4. u \in AnyURL /\ target = WithV1(WithScheme(u))
    BY <2>1, <2>2, <2>3, AccountsAssumption DEF BaseURL, GetBaseURL
  <2> QED
    BY <2>3, <2>4, BaseURLs DEF TargetFollowsAccount
<1> QED
  BY <1>1, Invariance, PTL

-----------------------------------------------------------------------------
(* Types. *)

LEMMA DecodedType ==
  ASSUME NEW body \in Bodies
  PROVE  Decoded(body) \in Request({b.model : b \in Bodies})
<1>1. /\ body.route \in {"chat", "completion"} /\ body.reasoning \in BOOLEAN
      /\ \A p \in Params : Given(body, p) \in Int
  BY BodiesAssumption
<1> SUFFICES ASSUME NEW models, models = {b.model : b \in Bodies}
             PROVE  Decoded(body) \in Request(models)
  OBVIOUS
<1>2. CASE body.route = "chat"
  <2>1. PICK stream \in BOOLEAN : stream = (body.stream = "true")
    OBVIOUS
  <2>2. PICK given \in [Params -> Int] : given = [p \in Params |-> Given(body, p)]
    BY <1>1
  <2>3. Decoded(body) = [model |-> body.model, stream |-> stream, reasoning |-> body.reasoning,
                         params |-> given]
    BY <1>2, <2>1, <2>2, Zenon DEF Decoded, DecodedChatRequest
  <2>4. body.model \in models
    OBVIOUS
  <2>5. [model |-> body.model, stream |-> stream, reasoning |-> body.reasoning, params |-> given]
          \in Request(models)
    BY <1>1, <2>4, Zenon DEF Request
  <2> QED
    BY <2>3, <2>5
<1>3. CASE body.route = "completion"
  <2>1. ASSUME NEW p \in Params PROVE CopyCompletionParameters(body)[p] \in Int
    <3>1. Given(body, p) \in Int /\ Truncated(Given(body, p)) \in Int
      BY <1>1, Rounding
    <3>2. CopyCompletionParameters(body)[p] \in {0, Given(body, p), Truncated(Given(body, p))}
      <4>1. CASE p \notin CopiedParams
        BY <4>1 DEF CopyCompletionParameters, CopiedParams
      <4>2. CASE p = "max_tokens"
        BY <4>2 DEF CopyCompletionParameters, CopiedParams
      <4>3. CASE p \in CopiedParams \ {"max_tokens"}
        BY <4>3 DEF CopyCompletionParameters, CopiedParams
      <4> QED
        BY <4>1, <4>2, <4>3
    <3> QED
      BY <3>1, <3>2
  <2>2. CopyCompletionParameters(body) \in [Params -> Int]
    <3> DEFINE value(p) == CASE p \notin CopiedParams -> 0
                             [] p = "max_tokens" -> Truncated(Given(body, p))
                             [] p \in CopiedParams \ {"max_tokens"} -> Given(body, p)
    <3>1. CopyCompletionParameters(body) = [p \in Params |-> value(p)]
      BY Zenon DEF CopyCompletionParameters
    <3> HIDE DEF value
    <3>2. \A p \in Params : value(p) \in Int
      BY <2>1, <3>1
    <3> QED
      BY <3>1, <3>2
  <2>3. PICK stream \in BOOLEAN : stream = (body.stream = "true")
    OBVIOUS
  <2>4. PICK copied \in [Params -> Int] : copied = CopyCompletionParameters(body)
    BY <2>2
  <2>5. body.route # "chat"
    BY <1>3
  <2>6. Decoded(body) = [model |-> "", stream |-> stream, reasoning |-> FALSE, params |-> copied]
    BY <2>3, <2>4, <2>5, Zenon DEF Decoded, BuildChatRequestFromCompletion
  <2>7. [model |-> "", stream |-> stream, reasoning |-> FALSE, params |-> copied] \in Request(models)
    BY DEF Request
  <2> QED
    BY <2>6, <2>7
<1> QED
  BY <1>1, <1>2, <1>3

LEMMA MarshalledType ==
  ASSUME NEW r, r.params \in [Params -> Int]
  PROVE  /\ DOMAIN Marshalled(r).params \subseteq Params
         /\ \A p \in DOMAIN Marshalled(r).params : Marshalled(r).params[p] \in Int \ {0}
BY DEF Marshalled

\* A URL below "/v1" has paths of the model's form.
LEMMA TargetType ==
  ASSUME NEW u \in AnyURL
  PROVE  /\ WithV1(WithScheme(u)).scheme \in Schemes
         /\ WithV1(WithScheme(u)).path \in Seq({"v1", "/"})
<1>1. u = [scheme |-> u.scheme, host |-> u.host, path |-> u.path]
      /\ u.scheme \in Schemes /\ u.path \in Paths
  BY DEF AnyURL
<1>2. PICK w : w = WithScheme(u)
  OBVIOUS
<1>0. PICK scheme, host : w = [scheme |-> scheme, host |-> host, path |-> u.path]
                          /\ scheme \in Schemes
  <2>1. CASE u.scheme \in {"http", "https"}
    BY <1>1, <1>2, <2>1 DEF WithScheme
  <2>2. CASE u.scheme \notin {"http", "https"}
    BY <1>1, <1>2, <2>2 DEF WithScheme, Schemes
  <2> QED
    BY <2>1, <2>2
<1>3. \A s \in Paths : s \in Seq({"v1", "/"})
  <2>1. << >> \in Seq({"v1", "/"}) /\ <<"v1">> \in Seq({"v1", "/"}) /\ <<"v1", "/">> \in Seq({"v1", "/"})
    <3>1. PICK S : S = {"v1", "/"}
      OBVIOUS
    <3>2. "v1" \in S /\ "/" \in S
      BY <3>1
    <3>3. << >> \in Seq(S) /\ <<"v1">> \in Seq(S) /\ <<"v1", "/">> \in Seq(S)
      BY <3>2
    <3> QED
      BY <3>1, <3>3
  <2> QED
    BY <2>1 DEF Paths
<1>4. WithV1(w).path \in {u.path, Append(u.path, "v1")} /\ WithV1(w).scheme = scheme
  BY <1>0 DEF WithV1
<1>5. Append(u.path, "v1") \in Seq({"v1", "/"})
  BY <1>1, <1>3, AppendProperties
<1> QED
  BY <1>0, <1>1, <1>2, <1>3, <1>4, <1>5

\* The types of the request and of the answer at every step between the client
\* and the upstream (api.go:223-335, proxy.go:71-79 and 157-197, external_services.go:196-235).
THEOREM TypeCorrect == Spec => []TypeOK
<1>1. ASSUME IInv PROVE TypeOK
  <2>1. /\ step \in Steps /\ asked \in Bodies /\ DOMAIN config = DOMAIN Defaults
        /\ SentInv /\ ReplyInv
    BY <1>1 DEF IInv
  <2> DEFINE models == {b.model : b \in Bodies} \cup {config.DefaultModel}
  <2>2. req \in Request(models) /\ req.params \in [Params -> Int]
    <3>1. PICK r : r = Decoded(asked)
      OBVIOUS
    <3>2. r \in Request({b.model : b \in Bodies})
      BY <2>1, <3>1, DecodedType
    <3>3. r \in Request(models) /\ r.params \in [Params -> Int]
      BY <3>2 DEF Request
    <3>4. Prepared(r) \in Request(models) /\ Prepared(r).params \in [Params -> Int]
      <4>1. config.DefaultModel \in models
        OBVIOUS
      <4> HIDE DEF models
      <4> QED
        BY <3>3, <4>1 DEF Request, Prepared
    <3>5. NoRequest \in Request(models) /\ NoRequest.params \in [Params -> Int]
      BY DEF NoRequest, Request
    <3>6. req \in {r, Prepared(r), NoRequest}
      BY <2>1, <3>1 DEF SentInv
    <3> QED
      BY <3>3, <3>4, <3>5, <3>6
  <2>3. account \in Accounts \cup {EmptyURL}
    BY <2>1 DEF SentInv
  <2>4. target.scheme \in Schemes /\ target.path \in Seq({"v1", "/"})
    <3>1. CASE step = "sent"
      <4>1. account \in AnyURL /\ config.APIBaseURL \in AnyURL
            /\ target = GetBaseURL(account, config.APIBaseURL)
        BY <1>1, <2>1, <3>1, ConfigInUse, AccountsAssumption DEF SentInv
      <4>2. PICK u \in AnyURL : target = WithV1(WithScheme(u))
        BY <4>1 DEF GetBaseURL, BaseURL
      <4> QED
        BY <4>2, TargetType
    <3>2. CASE step # "sent"
      <4>1. target = EmptyURL
        BY <2>1, <3>2 DEF SentInv
      <4>2. target.scheme \in Schemes /\ target.path = << >>
        BY <4>1 DEF EmptyURL, Schemes
      <4> QED
        BY <4>2, EmptySeq
    <3> QED
      BY <3>1, <3>2
  <2>5. /\ DOMAIN wire.params \subseteq Params
        /\ \A p \in DOMAIN wire.params : wire.params[p] \in Int \ {0}
    <3>1. wire = Marshalled(req) \/ wire = Marshalled(NoRequest)
      BY <2>1 DEF SentInv
    <3>2. NoRequest.params \in [Params -> Int]
      BY DEF NoRequest
    <3> HIDE DEF models
    <3> QED
      BY <2>2, <3>1, <3>2, MarshalledType
  <2>6. (response \in Responses \/ response = << >>) /\ reply.status \in {0, 200, 400, 500}
    BY <2>1 DEF ReplyInv
  <2> QED
    BY <2>1, <2>2, <2>3, <2>4, <2>5, <2>6 DEF TypeOK, Steps
<1> QED
  BY <1>1, Invariance, PTL

-----------------------------------------------------------------------------
(* The way back. *)

\* What is known of a response.
LEMMA ResponseFacts ==
  ASSUME NEW choices \in Responses
  PROVE  /\ choices \in Seq(Choice(STRING, UpstreamIds)) /\ Len(choices) \in Nat
         /\ DOMAIN choices = 1..Len(choices)
         /\ \A i \in DOMAIN choices :
              /\ choices[i].content \in Seq(Block(STRING))
              /\ choices[i].calls \in Seq([id: UpstreamIds, type: {"", "function"}])
              /\ DOMAIN choices[i].calls = 1..Len(choices[i].calls) /\ Len(choices[i].calls) \in Nat
<1>1. choices \in Seq(Choice(STRING, UpstreamIds))
  BY ResponsesAssumption
<1>2. Len(choices) \in Nat /\ DOMAIN choices = 1..Len(choices)
  BY <1>1, LenProperties
<1>3. ASSUME NEW i \in DOMAIN choices
      PROVE  /\ choices[i].content \in Seq(Block(STRING))
             /\ choices[i].calls \in Seq([id: UpstreamIds, type: {"", "function"}])
             /\ DOMAIN choices[i].calls = 1..Len(choices[i].calls) /\ Len(choices[i].calls) \in Nat
  <2>1. choices[i] \in Choice(STRING, UpstreamIds)
    BY <1>1, <1>2, ElementOfSeq
  <2>2. /\ choices[i].content \in Seq(Block(STRING))
        /\ choices[i].calls \in Seq([id: UpstreamIds, type: {"", "function"}])
    BY <2>1, Zenon DEF Choice
  <2> QED
    BY <2>2, LenProperties
<1> QED
  BY <1>1, <1>2, <1>3

\* What becomes of a choice.
LEMMA ConvertedFacts ==
  ASSUME NEW choices \in Responses
  PROVE  /\ DOMAIN Converted(choices) = DOMAIN choices
         /\ \A i \in DOMAIN choices :
              LET c == choices[i]  d == Converted(choices)[i]
              IN  /\ c.calls = << >> => d = c
                  /\ DOMAIN d.calls = DOMAIN c.calls
                  /\ c.calls # << >> =>
                       /\ d.content = << >> /\ d.finish # ""
                       /\ \A j \in DOMAIN c.calls : d.calls[j] = ConvertedCall(c.calls[j], i, j)
<1>1. DOMAIN Converted(choices) = DOMAIN choices
  BY DEF Converted
<1>2. ASSUME NEW i \in DOMAIN choices, choices[i].calls = << >>
      PROVE  Converted(choices)[i] = choices[i]
  BY <1>2 DEF Converted
<1>3. ASSUME NEW i \in DOMAIN choices, choices[i].calls # << >>
      PROVE  LET c == choices[i]  d == Converted(choices)[i]
             IN  /\ DOMAIN d.calls = DOMAIN c.calls
                 /\ d.content = << >> /\ d.finish # ""
                 /\ \A j \in DOMAIN c.calls : d.calls[j] = ConvertedCall(c.calls[j], i, j)
  <2>1. PICK s : s = choices[i].calls
    OBVIOUS
  <2>2. PICK d : d = [content |-> << >>,
                      calls |-> [j \in DOMAIN s |-> ConvertedCall(s[j], i, j)],
                      finish |-> IF choices[i].finish = "" THEN "tool_calls" ELSE choices[i].finish]
    OBVIOUS
  <2>3. Converted(choices)[i] = d
    BY <1>3, <2>1, <2>2 DEF Converted
  <2>4. /\ DOMAIN d.calls = DOMAIN s /\ d.content = << >> /\ d.finish # ""
        /\ \A j \in DOMAIN s : d.calls[j] = ConvertedCall(s[j], i, j)
    BY <2>2
  <2> QED
    BY <2>1, <2>3, <2>4
<1> QED
  BY <1>1, <1>2, <1>3

LEMMA InCalls ==
  ASSUME NEW choices, NEW c
  PROVE  c \in CallsOf(choices)
           <=> \E i \in DOMAIN choices : \E j \in DOMAIN choices[i].calls : c = <<i, j>>
BY DEF CallsOf

LEMMA GeneratedIds ==
  /\ \A i, j : GeneratedId(i, j) # NoId /\ GeneratedId(i, j) \notin UpstreamIds
  /\ \A i, j, k, l \in Int : GeneratedId(i, j) = GeneratedId(k, l) => i = k /\ j = l
<1>1. ASSUME NEW i, NEW j PROVE GeneratedId(i, j) # NoId /\ GeneratedId(i, j) \notin UpstreamIds
  <2>1. DOMAIN GeneratedId(i, j) = 1..3
    BY DEF GeneratedId
  <2>2. DOMAIN NoId = 1..0 /\ \A id \in [1..1 -> STRING] : DOMAIN id = 1..1
    BY DEF NoId
  <2>3. 3 \in 1..3 /\ 3 \notin 1..1 /\ 3 \notin 1..0
    OBVIOUS
  <2> QED
    BY <2>1, <2>2, <2>3 DEF UpstreamIds
<1>2. ASSUME NEW i \in Int, NEW j \in Int, NEW k \in Int, NEW l \in Int,
             GeneratedId(i, j) = GeneratedId(k, l)
      PROVE  i = k /\ j = l
  <2>1. i - 1 = k - 1 /\ j - 1 = l - 1
    BY <1>2 DEF GeneratedId
  <2> QED
    BY <2>1
<1> QED
  BY <1>1, <1>2

\* Every tool call the client is sent can be answered: it has an id of its own, a
\* type, and a choice that says why it ended, whatever the upstream has left out
\* (proxy.go:157-197).
THEOREM ToolCallsAnswerable == Spec => []ToolCallsUsable
<1>1. ASSUME IInv, reply.status = 200, asked.route = "chat" PROVE ToolCallsUsable
  <2> DEFINE sent == reply.choices
             places == CallsOf(sent)
  <2>1. response \in Responses /\ sent = Converted(response)
    BY <1>1 DEF IInv, ReplyInv, Answered
  <2>2. /\ DOMAIN sent = DOMAIN response
        /\ \A i \in DOMAIN response :
             /\ DOMAIN sent[i].calls = DOMAIN response[i].calls
             /\ response[i].calls # << >> =>
                  /\ sent[i].content = << >> /\ sent[i].finish # ""
                  /\ \A j \in DOMAIN response[i].calls :
                       sent[i].calls[j] = ConvertedCall(response[i].calls[j], i, j)
    <3> HIDE DEF sent
    <3> QED
      BY <2>1, ConvertedFacts
  <2> HIDE DEF sent
  <2>3. CallsOf(sent) = CallsOf(response)
    <3>1. ASSUME NEW c PROVE c \in CallsOf(sent) <=> c \in CallsOf(response)
      <4>1. c \in CallsOf(sent)
              <=> \E i \in DOMAIN sent : \E j \in DOMAIN sent[i].calls : c = <<i, j>>
        BY InCalls
      <4>2. c \in CallsOf(response)
              <=> \E i \in DOMAIN response : \E j \in DOMAIN response[i].calls : c = <<i, j>>
        BY InCalls
      <4> QED
        BY <2>2, <4>1, <4>2
    <3> QED
      BY <3>1, Zenon
  <2>4. ASSUME NEW c \in places
        PROVE  /\ c[1] \in DOMAIN response /\ c[2] \in DOMAIN response[c[1]].calls
               /\ c = <<c[1], c[2]>> /\ c[1] \in Int /\ c[2] \in Int
               /\ response[c[1]].calls # << >>
    <3>1. PICK i \in DOMAIN response : c \in {<<i, k>> : k \in DOMAIN response[i].calls}
      BY <2>3 DEF CallsOf
    <3>2. PICK s : s = response[i].calls
      OBVIOUS
    <3>3. PICK j \in DOMAIN s : c = <<i, j>>
      BY <3>1, <3>2
    <3>4. /\ DOMAIN response = 1..Len(response) /\ Len(response) \in Nat
          /\ DOMAIN s = 1..Len(s) /\ Len(s) \in Nat
      BY <2>1, <3>2, ResponseFacts
    <3>5. s # << >> /\ i \in Int /\ j \in Int
      BY <3>4
    <3> QED
      BY <3>2, <3>3, <3>5
  <2>5. ASSUME NEW c \in places
        PROVE  LET given == response[c[1]].calls[c[2]]  call == sent[c[1]].calls[c[2]]
               IN  /\ call.type # "" /\ given.id \in UpstreamIds
                   /\ call.id = IF given.id = NoId THEN GeneratedId(c[1], c[2]) ELSE given.id
                   /\ sent[c[1]].content = << >> /\ sent[c[1]].finish # ""
    <3>1. PICK i, j : i = c[1] /\ j = c[2]
      OBVIOUS
    <3>2. PICK s : s = response[i].calls
      OBVIOUS
    <3>3. i \in DOMAIN response /\ j \in DOMAIN s /\ s # << >>
      BY <2>4, <3>1, <3>2
    <3>4. PICK given, call : given = s[j] /\ call = sent[i].calls[j]
      OBVIOUS
    <3>5. call = ConvertedCall(given, i, j) /\ sent[i].content = << >> /\ sent[i].finish # ""
      BY <2>2, <3>2, <3>3, <3>4
    <3>6. given \in [id: UpstreamIds, type: {"", "function"}]
      <4>1. s \in Seq([id: UpstreamIds, type: {"", "function"}]) /\ DOMAIN s = 1..Len(s)
        BY <2>1, <3>2, <3>3, ResponseFacts
      <4> QED
        BY <3>3, <3>4, <4>1, ElementOfSeq
    <3>7. /\ call.type # "" /\ given.id \in UpstreamIds
          /\ call.id = IF given.id = NoId THEN GeneratedId(i, j) ELSE given.id
      BY <3>5, <3>6 DEF ConvertedCall
    <3> QED
      BY <3>1, <3>2, <3>4, <3>5, <3>7
  <2>6. ASSUME NEW c \in places, NEW d \in places, c # d, response[c[1]].calls[c[2]].id = NoId
        PROVE  sent[d[1]].calls[d[2]].id # sent[c[1]].calls[c[2]].id
    <3>1. sent[c[1]].calls[c[2]].id = GeneratedId(c[1], c[2])
      BY <2>5, <2>6
    <3>2. /\ response[d[1]].calls[d[2]].id \in UpstreamIds
          /\ sent[d[1]].calls[d[2]].id \in {GeneratedId(d[1], d[2]), response[d[1]].calls[d[2]].id}
      BY <2>5
    <3>3. /\ c = <<c[1], c[2]>> /\ c[1] \in Int /\ c[2] \in Int
          /\ d = <<d[1], d[2]>> /\ d[1] \in Int /\ d[2] \in Int
      BY <2>4
    <3>4. GeneratedId(c[1], c[2]) # GeneratedId(d[1], d[2])
      BY <2>6, <3>3, GeneratedIds
    <3>5. GeneratedId(c[1], c[2]) \notin UpstreamIds
      BY GeneratedIds
    <3> HIDE DEF places
    <3> QED
      BY <3>1, <3>2, <3>4, <3>5
  <2>7. \A c \in places :
          LET choice == sent[c[1]]  call == choice.calls[c[2]]
              given == response[c[1]].calls[c[2]]
          IN  /\ call.type # "" /\ call.id # NoId
              /\ given.id # NoId => call.id = given.id
              /\ choice.content = << >> /\ choice.finish # ""
              /\ given.id = NoId => \A d \in places \ {c} :
                    sent[d[1]].calls[d[2]].id # call.id
    <3>1. \A i, j : GeneratedId(i, j) # NoId
      BY GeneratedIds
    <3> HIDE DEF places
    <3> QED
      BY <2>5, <2>6, <3>1
  <2> QED
    BY <2>3, <2>7 DEF ToolCallsUsable, sent
<1>2. IInv => ToolCallsUsable
  BY <1>1 DEF ToolCallsUsable
<1> QED
  BY <1>2, Invariance, PTL

\* The k-th text of a message is the text of the answer that as many texts precede.
Found(content, kept) ==
  LET texts == {k \in DOMAIN content : content[k].type = "text"}
  IN  \A k \in texts :
        \E m \in DOMAIN kept :
          /\ kept[m] = content[k]
          /\ Cardinality({l \in texts : l < k})
               = Cardinality({l \in 1..(m - 1) : kept[l].type = "text"})

LEMMA AllFound ==
  ASSUME NEW content \in Seq(Block(STRING))
  PROVE  Found(content, content)
<1> DEFINE texts == {k \in DOMAIN content : content[k].type = "text"}
<1>1. DOMAIN content = 1..Len(content) /\ Len(content) \in Nat
  BY LenProperties
<1>2. ASSUME NEW k \in texts
      PROVE  {l \in texts : l < k} = {l \in 1..(k - 1) : content[l].type = "text"}
  BY <1>1
<1> QED
  BY <1>2 DEF Found

LEMMA TextsFound ==
  ASSUME NEW content \in Seq(Block(STRING))
  PROVE  Found(content, ExtractTextContent(content))
<1> DEFINE texts == Texts(content)
           kept == ExtractTextContent(content)
<1>1. DOMAIN content = 1..Len(content) /\ Len(content) \in Nat
  BY LenProperties
<1>2. texts \in SUBSET (1..Len(content)) /\ texts = {k \in DOMAIN content : content[k].type = "text"}
  BY <1>1 DEF Texts, IsText
<1> HIDE DEF texts
<1>3. /\ kept \in Seq(Block(STRING)) /\ Len(kept) = Cardinality(texts)
      /\ Cardinality(texts) \in Nat
      /\ \A k \in 1..Cardinality(texts) :
           Position(texts, k) \in texts /\ kept[k] = content[Position(texts, k)]
  <2>1. kept = Subsequence(content, texts)
    BY DEF ExtractTextContent, texts
  <2> HIDE DEF kept
  <2> QED
    BY <1>1, <1>2, <2>1, SubsequenceProperties
<1> HIDE DEF kept
<1>4. DOMAIN kept = 1..Cardinality(texts)
  BY <1>3, LenProperties
<1>5. ASSUME NEW k \in texts
      PROVE  \E m \in DOMAIN kept :
               /\ kept[m] = content[k]
               /\ Cardinality({l \in texts : l < k})
                    = Cardinality({l \in 1..(m - 1) : kept[l].type = "text"})
  <2>1. PICK m \in 1..Cardinality(texts) : m = Rank(texts, k) /\ Position(texts, m) = k
    BY <1>1, <1>2, PositionFacts
  <2>2. kept[m] = content[k]
    BY <1>3, <2>1
  <2>3. Cardinality({l \in texts : l < k}) = m - 1
    <3>1. k \in Int /\ \A l \in texts : l < k <=> l <= k - 1
      BY <1>1, <1>2
    <3>2. {l \in texts : l < k} = {l \in texts : l <= k - 1}
      BY <3>1
    <3>3. Rank(texts, k) = Rank(texts, k - 1) + 1 /\ Rank(texts, k - 1) \in Nat
      <4>1. PICK n \in Nat : texts \in SUBSET (1..n)
        BY <1>1, <1>2
      <4>2. k - 1 \in Int
        BY <3>1
      <4> QED
        BY <3>1, <4>1, <4>2, RankFacts
    <3>4. Rank(texts, k - 1) = Cardinality({l \in texts : l < k})
      BY <3>2 DEF Rank
    <3> QED
      BY <2>1, <3>3, <3>4
  <2>4. Cardinality({l \in 1..(m - 1) : kept[l].type = "text"}) = m - 1
    <3>1. m \in Int \ {0} /\ 1..(m - 1) \subseteq 1..Cardinality(texts)
      BY <1>3
    <3>2. \A l \in 1..(m - 1) : kept[l].type = "text"
      BY <1>2, <1>3, <3>1
    <3>3. {l \in 1..(m - 1) : kept[l].type = "text"} = 1..(m - 1)
      BY <3>2
    <3>4. \A n \in Nat : Cardinality(1..n) = n
      BY FS_Interval
    <3>5. m - 1 \in Nat
      BY <3>1
    <3>6. Cardinality(1..(m - 1)) = m - 1
      BY <3>4, <3>5
    <3> QED
      BY <3>3, <3>6
  <2> QED
    BY <1>4, <2>1, <2>2, <2>3, <2>4
<1> QED
  BY <1>2, <1>5 DEF Found, kept

\* However long a message is and wherever its texts stand among other blocks, the
\* client gets all of them and in their order (api.go:392-417).
THEOREM TextPreserved == Spec => []NoTextLost
<1>1. ASSUME IInv, reply.status = 200, NEW i \in DOMAIN response, response[i].calls = << >>,
             asked.route = "chat" \/ i = 1
      PROVE  Found(response[i].content, reply.choices[i].content)
  <2>1. response \in Responses /\ reply.choices = Answered(asked, response)
    BY <1>1 DEF IInv, ReplyInv
  <2>2. /\ response[i].content \in Seq(Block(STRING))
        /\ Converted(response)[i] = response[i]
    BY <1>1, <2>1, ResponseFacts, ConvertedFacts
  <2>3. CASE asked.route = "chat"
    <3>1. reply.choices[i] = response[i]
      BY <2>1, <2>2, <2>3 DEF Answered
    <3> QED
      BY <2>2, <3>1, AllFound
  <2>4. CASE asked.route # "chat"
    <3>1. i = 1
      BY <1>1, <2>4
    <3>2. reply.choices[1].content = ExtractTextContent(Converted(response)[1].content)
      BY <2>1, <2>4 DEF Answered, BuildCompletionResponse
    <3>3. reply.choices[i].content = ExtractTextContent(response[i].content)
      BY <2>2, <3>1, <3>2
    <3> QED
      BY <2>2, <3>3, TextsFound
  <2> QED
    BY <2>3, <2>4
<1>2. IInv => NoTextLost
  BY <1>1 DEF NoTextLost, Found
<1> QED
  BY <1>2, Invariance, PTL
=============================================================================
