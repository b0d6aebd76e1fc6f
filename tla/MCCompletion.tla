----------------------------- MODULE MCCompletion --------------------------
(***************************************************************************)
(* Completion on small instances: an environment sets at most one variable *)
(* of interest, a body gives at most one parameter in an unusual way.      *)
(***************************************************************************)
EXTENDS Completion

Values ==
  [APIBaseURL |-> URL({"api.example.com"}),
   DefaultModel |-> {"qwen-max"}]

NoneSet == [field \in DOMAIN Defaults |-> Unset]

MCEnvironments ==
  {NoneSet} \cup UNION {{[NoneSet EXCEPT ![field] = Set(v)] : v \in Values[field]} :
                          field \in DOMAIN Defaults}

MCAccounts ==
  {EmptyURL} \cup {u \in URL({"account.example.com"}) :
                     u.host # "" /\ (u.scheme = "https" \/ u.path = <<"v1">>)}

PlainBody ==
  [route |-> "chat", prompt |-> "absent", model |-> "", stream |-> "absent", reasoning |-> FALSE,
   params |-> [p \in Params |-> Absent]]

PlainCompletion == [PlainBody EXCEPT !.route = "completion", !.prompt = "string"]

\* All parameters at once, each with a value of its own.
AllParams ==
  [p \in Params |-> Number(CASE p = "max_tokens" -> 4 [] p = "temperature" -> 1
                             [] p = "top_p" -> 2 [] p = "frequency_penalty" -> -3)]

MCBodies ==
  LET plain == {PlainBody, PlainCompletion}
      ways(b) ==
        {[b EXCEPT !.params = AllParams],
         [b EXCEPT !.model = "qwen-turbo"], [b EXCEPT !.reasoning = TRUE]}
        \cup {[b EXCEPT !.prompt = t] : t \in {"string", "list", "absent"}}
        \cup {[b EXCEPT !.stream = t] : t \in {"true", "false", "absent", "other"}}
        \cup {[b EXCEPT !.params[p] = v] :
                p \in Params, v \in {NotANumber} \cup {Number(n) : n \in -3..3}}
  IN  UNION {ways(b) : b \in plain}

Text(t) == [type |-> "text", text |-> t]
Image == [type |-> "image", text |-> "a"]

MCContents == {<< >>, <<Text("a")>>, <<Text("a"), Image, Text("b")>>}

MCCalls ==
  LET call == [id: {NoId, <<"x">>}, type: {"", "function"}]
      bare == [id: {NoId, <<"x">>}, type: {""}]
  IN  {<< >>} \cup {<<c>> : c \in call} \cup {<<c, d>> : c, d \in bare}

MCChoices == [content: MCContents, calls: MCCalls, finish: {"", "stop"}]

\* The second choice is one of a few.
MCResponses ==
  LET second == {c \in MCChoices : c.content = << >> /\ c.finish = "" /\ Len(c.calls) \in {0, 2}}
  IN  {<< >>} \cup {<<c>> : c \in MCChoices} \cup {<<c, d>> : c \in MCChoices, d \in second}
=============================================================================
