------------------------------ MODULE MCServer -----------------------------
(* Server with handlers that may get any request. *)
EXTENDS Server

ServesAll == [h \in Handlers |-> Kinds]
=============================================================================
