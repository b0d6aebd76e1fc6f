----------------------------- MODULE TokenStore ----------------------------
(***************************************************************************)
(* What AuthUseCase promises its callers, without files, mutexes, labels   *)
(* or an OAuth server: a store of grants that takes effect save by save.   *)
(* A call that succeeds hands out a stored grant, never an older one than  *)
(* the store held when the call began.  One refresh request is out at a    *)
(* time, no refresh token is sent again once a save has replaced it, and   *)
(* every call is answered.                                                 *)
(***************************************************************************)
EXTENDS Naturals

CONSTANTS
  Callers,   \* those who call
  Grants,    \* what is stored and handed out
  Tokens     \* refresh tokens

CONSTANTS NoGrant, NoToken

VARIABLES
  stored,    \* stored[g]: the number of the last save of grant g, 0 for none
  saves,     \* the number of saves
  calls,     \* the callers whose call is not answered yet
  begun,     \* the number of saves when the call of each began
  given,     \* the grant each was handed at the end of its last call, if any
  refreshes, \* those whose refresh request is out
  sent,      \* the refresh token each has sent and not yet replaced
  spent      \* the refresh tokens that have been replaced

storeVars == <<stored, saves, spent>>
callVars == <<calls, begun, given, refreshes, sent>>
vars == <<storeVars, callVars>>

Init ==
  /\ stored = [g \in Grants |-> 0]
  /\ saves = 0
  /\ spent = {}
  /\ calls = {}
  /\ begun = [c \in Callers |-> 0]
  /\ given = [c \in Callers |-> NoGrant]
  /\ refreshes = {}
  /\ sent = [c \in Callers |-> NoToken]

Begin(c) ==
  /\ c \notin calls
  /\ calls' = calls \cup {c}
  /\ begun' = [begun EXCEPT ![c] = saves]
  /\ given' = [given EXCEPT ![c] = NoGrant]
  /\ UNCHANGED <<storeVars, refreshes, sent>>

\* A refresh request goes out; no other is, and its token is still good.
Send(c, t) ==
  /\ c \in calls
  /\ refreshes = {}
  /\ t \notin spent
  /\ refreshes' = {c}
  /\ sent' = [sent EXCEPT ![c] = t]
  /\ UNCHANGED <<storeVars, calls, begun, given>>

\* It is answered, and its answer waits to be stored.
Answered(c) ==
  /\ c \in refreshes
  /\ refreshes' = {}
  /\ UNCHANGED <<storeVars, calls, begun, given, sent>>

\* The refresh is given up, unanswered or unsaved.
GiveUp(c) ==
  /\ c \in calls
  /\ refreshes' = refreshes \ {c}
  /\ sent' = [sent EXCEPT ![c] = NoToken]
  /\ UNCHANGED <<storeVars, calls, begun, given>>

\* The call ends and hands out g.
Answer(c, g) ==
  /\ c \in calls
  /\ calls' = calls \ {c}
  /\ begun' = [begun EXCEPT ![c] = 0]
  /\ given' = [given EXCEPT ![c] = g]
  /\ refreshes' = refreshes \ {c}
  /\ sent' = [sent EXCEPT ![c] = NoToken]

Return(c, g) ==
  /\ stored[g] > 0
  /\ stored[g] >= begun[c]
  /\ Answer(c, g)
  /\ UNCHANGED storeVars

Fail(c) ==
  /\ Answer(c, NoGrant)
  /\ UNCHANGED storeVars

\* A call stores the grant it has obtained, replacing the token it has sent,
\* and ends; the manual login does not hand out what it has stored.
Store(c, g) ==
  /\ saves' = saves + 1
  /\ stored' = [stored EXCEPT ![g] = saves']
  /\ spent' \in {spent, spent \cup {sent[c]}}
  /\ Answer(c, g) \/ Answer(c, NoGrant)

\* Every call is lost, and no save.
Lose ==
  /\ calls' = {}
  /\ begun' = [c \in Callers |-> 0]
  /\ given' = [c \in Callers |-> NoGrant]
  /\ refreshes' = {}
  /\ sent' = [c \in Callers |-> NoToken]
  /\ UNCHANGED storeVars

Next ==
  \/ Lose
  \/ \E c \in Callers :
       \/ Begin(c) \/ Answered(c) \/ GiveUp(c) \/ Fail(c)
       \/ \E t \in Tokens : Send(c, t)
       \/ \E g \in Grants : Return(c, g) \/ Store(c, g)

Safety == Init /\ [][Next]_vars

\* Every call is answered.
Answers == \A c \in Callers : c \in calls ~> c \notin calls

Spec == Safety /\ Answers
=============================================================================
