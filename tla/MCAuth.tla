------------------------------- MODULE MCAuth ------------------------------
(* Auth on small instances, which its configurations give. *)
EXTENDS Auth
=============================================================================
