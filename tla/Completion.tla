------------------------------ MODULE Completion ---------------------------
(***************************************************************************)
(* What becomes of the contents of a request to /v1/completions or         *)
(* /v1/chat/completions, and of the upstream's answer to it: how the       *)
(* handler decodes the one, what ProxyUseCase changes in it, what          *)
(* AIService puts on the wire and where it sends it, and how the answer is *)
(* converted on the way back.                                              *)
(*                                                                         *)
(* Server has the errors, the status and the order of these steps among    *)
(* other requests; Stream has the answer to a request with "stream": true. *)
(* Messages pass through unchanged and are left out.  Numbers, of either   *)
(* sign, are counted in halves, so that some of them are not integers.     *)
(***************************************************************************)
EXTENDS Integers, Sequences, Config, FiniteSets, Subsequences

CONSTANTS
  Environments,  \* the environments the process may be started in
  Accounts,      \* the resource URLs that credentials may have
  Bodies,        \* the JSON bodies of requests
  Responses      \* the responses of the upstream, each a sequence of choices

\* What LoadConfig makes of any environment is a URL, and a model that is not
\* empty, since an empty variable counts as unset.
ASSUME EnvironmentsAssumption ==
  \A env \in Environments :
    LoadedConfig(env).APIBaseURL \in AnyURL /\ LoadedConfig(env).DefaultModel # ""
ASSUME AccountsAssumption == Accounts \subseteq AnyURL

VARIABLES
  step,      \* load, idle, asked, decoded, sent; exited
  config,    \* the configuration in use
  asked,     \* the body of the request
  req,       \* entities.ChatCompletionRequest
  account,   \* ResourceURL of the credentials
  target,    \* the URL http.NewRequest is given, as parsed, without "/chat/completions"
  wire,      \* the body sent there
  response,  \* the choices of the upstream's response
  reply      \* the status and the choices the client is answered with

vars == <<step, config, asked, req, account, target, wire, response, reply>>

-----------------------------------------------------------------------------
(* The data. *)

\* max_tokens must be an integer; frequency_penalty stands for the parameters
\* that the completion API shares with the chat API but does not copy.
Params == {"max_tokens", "temperature", "top_p", "frequency_penalty"}
CopiedParams == {"max_tokens", "temperature", "top_p"}

\* A JSON value where a number is expected: none, a number, something else.  An
\* integer is written without a fraction or an exponent, and fits an int.
Absent == [type |-> "absent", halves |-> 0]
NotANumber == [type |-> "other", halves |-> 0]
Number(n) == [type |-> "number", halves |-> n]

\* Given p, the number the client gives; 0 if it gives none.
Given(body, p) == body.params[p].halves

\* A body; model "" and stream "absent" stand for missing members.
Body(models, numbers) ==
  [route: {"chat", "completion"},
   prompt: {"string", "list", "absent"},
   model: models \cup {""},
   stream: {"true", "false", "absent", "other"},
   reasoning: BOOLEAN,
   params: [Params -> {Absent, NotANumber} \cup {Number(n) : n \in numbers}]]

ASSUME BodiesAssumption ==
  \A body \in Bodies :
    /\ body.route \in {"chat", "completion"} /\ body.reasoning \in BOOLEAN
    /\ \A p \in Params :
         /\ Given(body, p) \in Int
         /\ body.params[p].type = "number" \/ Given(body, p) = 0

\* entities.ChatCompletionRequest: Go's zero values stand for what is missing.
Request(models) ==
  [model: models \cup {""}, stream: BOOLEAN, reasoning: BOOLEAN, params: [Params -> Int]]

\* Content is a string (one text block), a list of blocks, or null (none); a
\* tool call has an id and a type, where << >> and "" stand for missing ones.
Block(texts) == [type: {"text", "image"}, text: texts]
Choice(texts, ids) ==
  [content: Seq(Block(texts)), calls: Seq([id: ids, type: {"", "function"}]),
   finish: {"", "stop", "tool_calls"}]

NoId == << >>
UpstreamIds == {NoId} \cup [1..1 -> STRING]

\* The ids the upstream gives have a form of their own.
ASSUME ResponsesAssumption == Responses \subseteq Seq(Choice(STRING, UpstreamIds))

NoReply == [status |-> 0, choices |-> << >>]
NoRequest == [model |-> "", stream |-> FALSE, reasoning |-> FALSE, params |-> [p \in Params |-> 0]]

-----------------------------------------------------------------------------
(* The handlers. *)

\* int(f) drops the fraction, towards zero.
Truncated(n) == IF n >= 0 THEN n - (n % 2) ELSE n + ((-n) % 2)

\* Decoding into the struct fails on members of another type.
Decodes(body) ==
  /\ body.stream # "other"
  /\ \A p \in Params : body.params[p].type # "other"
  /\ Given(body, "max_tokens") % 2 = 0

\* Mutant: max_tokens is copied over temperature.
CopyCompletionParametersMixed(body) ==
  [p \in Params |->
     CASE p \notin CopiedParams -> 0
       [] p = "max_tokens" -> Truncated(Given(body, p))
       [] p = "temperature" -> Given(body, "top_p")
       [] p = "top_p" -> Given(body, p)]

\* copyCompletionParameters: members that are not numbers are ignored.
CopyCompletionParameters(body) ==
  [p \in Params |->
     CASE p \notin CopiedParams -> 0
       [] p = "max_tokens" -> Truncated(Given(body, p))
       [] p \in CopiedParams \ {"max_tokens"} -> Given(body, p)]

\* The model of the body is not looked at.
BuildChatRequestFromCompletion(body) ==
  [model |-> "", stream |-> body.stream = "true", reasoning |-> FALSE,
   params |-> CopyCompletionParameters(body)]

DecodedChatRequest(body) ==
  [model |-> body.model, stream |-> body.stream = "true", reasoning |-> body.reasoning,
   params |-> [p \in Params |-> Given(body, p)]]

-----------------------------------------------------------------------------
(* ProxyUseCase and AIService. *)

\* The default model, and without what only Qwen knows.
Prepared(r) ==
  [r EXCEPT !.model = IF @ = "" THEN config.DefaultModel ELSE @, !.reasoning = FALSE]

\* A URL with any scheme but http and https is given a second one.  What is left
\* of the first is then where http.NewRequest expects the host, with an empty
\* port, and the host where it expects the path.
WithScheme(u) ==
  IF u.scheme \in {"http", "https"} THEN u
  ELSE [u EXCEPT !.scheme = "https", !.host = IF u.scheme = "none" THEN @ ELSE u.scheme]

EndsInV1(u) == u.path # << >> /\ u.path[Len(u.path)] = "v1"

WithV1(u) == IF EndsInV1(u) THEN u ELSE [u EXCEPT !.path = Append(@, "v1")]

\* Mutant: the configured URL comes before that of the account.
BaseURLConfigured(resource, default) == IF default # EmptyURL THEN default ELSE resource

BaseURL(resource, default) == IF resource # EmptyURL THEN resource ELSE default

GetBaseURL(resource, default) == WithV1(WithScheme(BaseURL(resource, default)))

\* Mutant: fields are sent although they are zero.
MarshalledZeroes(r) ==
  [model |-> r.model, stream |-> r.stream, reasoning |-> r.reasoning, params |-> r.params]

\* Fields with omitempty are sent when they are not zero.
Marshalled(r) ==
  [model |-> r.model, stream |-> r.stream, reasoning |-> r.reasoning,
   params |-> [p \in {q \in Params : r.params[q] # 0} |-> r.params[p]]]

-----------------------------------------------------------------------------
(* The way back. *)

\* Mutant: the choice is left out of the id.
GeneratedIdShort(i, j) == <<"call", j - 1>>

\* call_i_j, counted from 0.
GeneratedId(i, j) == <<"call", i - 1, j - 1>>

ConvertedCall(call, i, j) ==
  [id |-> IF call.id = NoId THEN GeneratedId(i, j) ELSE call.id,
   type |-> IF call.type = "" THEN "function" ELSE call.type]

\* convertQwenToOpenAIResponse.
Converted(choices) ==
  [i \in DOMAIN choices |->
     IF choices[i].calls = << >> THEN choices[i]
     ELSE [content |-> << >>,
           calls |-> [j \in DOMAIN choices[i].calls |->
                        ConvertedCall(choices[i].calls[j], i, j)],
           finish |-> IF choices[i].finish = "" THEN "tool_calls" ELSE choices[i].finish]]

IsText(block) == block.type = "text"

Texts(content) == {k \in DOMAIN content : IsText(content[k])}

\* Mutant: the first text is taken for the whole.
ExtractTextContentFirst(content) ==
  Subsequence(content, {k \in Texts(content) : \A l \in Texts(content) : k <= l})

\* extractTextContent: the texts that are joined.
ExtractTextContent(content) == Subsequence(content, Texts(content))

\* buildCompletionResponse: the first choice, as one text.
BuildCompletionResponse(choices) ==
  << [content |-> ExtractTextContent(choices[1].content), calls |-> << >>,
      finish |-> choices[1].finish] >>

-----------------------------------------------------------------------------
(* The steps. *)

Init ==
  /\ step = "load"
  /\ config = Defaults
  /\ asked \in Bodies
  /\ req = NoRequest
  /\ account = EmptyURL
  /\ target = EmptyURL
  /\ wire = Marshalled(NoRequest)
  /\ response = << >>
  /\ reply = NoReply

LoadConfig ==
  /\ step = "load"
  /\ \E env \in Environments :
       /\ ValidateConfig(LoadedConfig(env))
       /\ config' = LoadedConfig(env)
  /\ step' = "idle"
  /\ UNCHANGED <<asked, req, account, target, wire, response, reply>>

\* log.Fatalf, for a field modelled or not; the operator starts the process again.
LoadConfigFails ==
  /\ step = "load"
  /\ step' = "exited"
  /\ UNCHANGED <<config, asked, req, account, target, wire, response, reply>>

Restart ==
  /\ step = "exited"
  /\ step' = "load"
  /\ UNCHANGED <<config, asked, req, account, target, wire, response, reply>>

\* A request comes in.
Arrive(body) ==
  /\ step = "idle"
  /\ step' = "asked"
  /\ asked' = body
  /\ response' = << >>
  /\ reply' = NoReply
  /\ UNCHANGED <<config, req, account, target, wire>>

\* The handler gets hold of the request, or answers that it is invalid.
Decode ==
  /\ step = "asked"
  /\ \/ /\ asked.route = "chat" /\ Decodes(asked)
        /\ req' = DecodedChatRequest(asked)
        /\ step' = "decoded"
        /\ UNCHANGED reply
     \/ /\ asked.route = "completion" /\ asked.prompt = "string"
        /\ req' = BuildChatRequestFromCompletion(asked)
        /\ step' = "decoded"
        /\ UNCHANGED reply
     \/ /\ \/ asked.route = "chat" /\ ~Decodes(asked)
           \/ asked.route = "completion" /\ asked.prompt # "string"
        /\ reply' = [status |-> 400, choices |-> << >>]
        /\ step' = "idle"
        /\ UNCHANGED req
  /\ UNCHANGED <<config, asked, account, target, wire, response>>

\* ChatCompletions and StreamChatCompletions, with credentials for `resource',
\* prepare the request and send it.
Send(resource) ==
  /\ step = "decoded"
  /\ req' = Prepared(req)
  /\ account' = resource
  /\ target' = GetBaseURL(resource, config.APIBaseURL)
  /\ wire' = Marshalled(req')
  /\ step' = "sent"
  /\ UNCHANGED <<config, asked, response, reply>>

\* The handler returns and its request is gone.
Return ==
  /\ step' = "idle"
  /\ req' = NoRequest
  /\ account' = EmptyURL
  /\ target' = EmptyURL
  /\ wire' = Marshalled(NoRequest)

\* The upstream answers with a stream, which Stream relays.
Relay ==
  /\ step = "sent"
  /\ req.stream
  /\ Return
  /\ UNCHANGED <<config, asked, response, reply>>

\* The upstream answers with some choices, and the handler with what it makes
\* of them.
Answer(choices) ==
  /\ step = "sent"
  /\ ~req.stream
  /\ response' = choices
  /\ reply' = IF asked.route = "chat"
              THEN [status |-> 200, choices |-> Converted(choices)]
              ELSE IF choices = << >> THEN [status |-> 500, choices |-> << >>]
              ELSE [status |-> 200, choices |-> BuildCompletionResponse(Converted(choices))]
  /\ Return
  /\ UNCHANGED <<config, asked>>

Next ==
  \/ LoadConfig \/ LoadConfigFails \/ Restart
  \/ \E body \in Bodies : Arrive(body)
  \/ Decode
  \/ \E resource \in Accounts : Send(resource)
  \/ Relay
  \/ \E choices \in Responses : Answer(choices)

Spec == Init /\ [][Next]_vars

-----------------------------------------------------------------------------
(* Properties. *)

TypeOK ==
  /\ step \in {"load", "idle", "asked", "decoded", "sent", "exited"}
  /\ DOMAIN config = DOMAIN Defaults
  /\ asked \in Bodies
  /\ req \in Request({b.model : b \in Bodies} \cup {config.DefaultModel})
  /\ account \in Accounts \cup {EmptyURL}
  /\ target.scheme \in Schemes /\ target.path \in Seq({"v1", "/"})
  /\ DOMAIN wire.params \subseteq Params
  /\ \A p \in DOMAIN wire.params : wire.params[p] \in Int \ {0}
  /\ response \in Responses \/ response = << >>
  /\ reply.status \in {0, 200, 400, 500}

Called == target # EmptyURL

\* The parameters of the body that the upstream is to be told: all that are
\* numbers, and of /v1/completions those it copies.
Wanted(body) ==
  {p \in Params : body.params[p].type = "number"
                   /\ (body.route = "chat" \/ p \in CopiedParams)}

Abs(n) == IF n < 0 THEN -n ELSE n

\* What the upstream understands: a parameter it is not sent is like 0.
Understood(p) == IF p \in DOMAIN wire.params THEN wire.params[p] ELSE 0

\* What is put on the wire is what the client asked for, through decoding,
\* copying, defaults and marshalling: its parameters and no others, each under
\* its own name and with its value, of either sign; only max_tokens of
\* /v1/completions loses its fraction, towards zero.  A parameter that is then
\* 0 is not sent, and cannot be told from a missing one.  The upstream is
\* always sent a model, and asked for a stream if and only if the handler is
\* going to relay one (api.go:251-277, proxy.go:71-79).
UpstreamGetsRequest ==
  Called =>
    /\ DOMAIN wire.params \subseteq Wanted(asked)
    /\ \A p \in Wanted(asked) :
         LET given == Given(asked, p)  sent == Understood(p)
         IN  IF p = "max_tokens" /\ asked.route = "completion"
             THEN sent % 2 = 0 /\ Abs(given - sent) < 2 /\ Abs(sent) <= Abs(given)
             ELSE sent = given
    /\ wire.model # ""
    /\ asked.route = "chat" /\ asked.model # "" => wire.model = asked.model
    /\ wire.stream = (asked.stream = "true")
    /\ ~wire.reasoning

\* The host that is called, with the access token of the account, is the one
\* the account names as its resource, or the configured one if it names none;
\* by the scheme given there, https if there is none, and below one "/v1".
\* That is so for base URLs with no scheme, http or https, the last part only
\* for those that do not end in "/v1/"; of any other scheme the code takes the
\* scheme for the host (external_services.go:219-235).
TargetFollowsAccount ==
  Called =>
    LET base == IF account # EmptyURL THEN account ELSE config.APIBaseURL
    IN  base.scheme \in {"none", "http", "https"} =>
          /\ target.host = base.host
          /\ target.scheme = IF base.scheme = "none" THEN "https" ELSE base.scheme
          /\ base.path # <<"v1", "/">> => target.path = <<"v1">>

\* The places <<i, j>> of the tool calls of a response.
CallsOf(choices) ==
  UNION {{<<i, j>> : j \in DOMAIN choices[i].calls} : i \in DOMAIN choices}

\* A chat client can answer the tool calls it is sent: each has a type and an id,
\* a generated id is no other call's (ids of the upstream have a form of their own),
\* and their choice has no content beside them and says why it ended
\* (proxy.go:157-197).
ToolCallsUsable ==
  reply.status = 200 /\ asked.route = "chat" =>
    /\ CallsOf(reply.choices) = CallsOf(response)
    /\ \A c \in CallsOf(reply.choices) :
         LET choice == reply.choices[c[1]]  call == choice.calls[c[2]]
             given == response[c[1]].calls[c[2]]
         IN  /\ call.type # "" /\ call.id # NoId
             /\ given.id # NoId => call.id = given.id
             /\ choice.content = << >> /\ choice.finish # ""
             /\ given.id = NoId => \A d \in CallsOf(reply.choices) \ {c} :
                   reply.choices[d[1]].calls[d[2]].id # call.id

\* No text is lost on the way back, except beside tool calls: a chat client gets
\* every choice as it was, a completion client the texts of the first one, in
\* their order (api.go:392-417).
NoTextLost ==
  reply.status = 200 =>
    \A i \in DOMAIN response :
      response[i].calls = << >> /\ (asked.route = "chat" \/ i = 1) =>
        LET kept == reply.choices[i].content
            texts == {k \in DOMAIN response[i].content : response[i].content[k].type = "text"}
        IN  \A k \in texts :
              \E m \in DOMAIN kept :
                /\ kept[m] = response[i].content[k]
                /\ Cardinality({l \in texts : l < k})
                     = Cardinality({l \in 1..(m - 1) : kept[l].type = "text"})
=============================================================================
