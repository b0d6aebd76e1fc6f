------------------------------ MODULE MCSystem -----------------------------
(* System on a small instance, with handlers that may get any request. *)
EXTENDS System

ServesAll ==
  [h \in Handlers |->
     {"simple", "detailed", "auth", "preflight", "unmatched", "chat", "completion", "stream"}]

\* Two handlers that need credentials at the same time: one reports on them,
\* the other takes them to the upstream.
CONSTANT h1

ServesLogins == [h \in Handlers |-> IF h = h1 THEN {"auth"} ELSE {"chat"}]
=============================================================================
