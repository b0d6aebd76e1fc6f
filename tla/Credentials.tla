---------------------------- MODULE Credentials ----------------------------
(***************************************************************************)
(* The value every part of the authentication code passes around:         *)
(* entities.Credentials.  A grant is one successful answer of the OAuth    *)
(* token endpoint; grants are numbered in the order they are issued, and   *)
(* the number stands for the access token of that answer.  Refresh tokens  *)
(* carry the number of the grant they were first issued with; 0 is the     *)
(* empty string, the value of a refresh token the endpoint left out.       *)
(***************************************************************************)
EXTENDS Naturals

CONSTANTS
  MaxGrants,   \* bound on the answers the token endpoint ever gives
  Urls,        \* resource URLs an account may be served from
  NoUrl        \* the empty resource URL

ASSUME MaxGrantsAssumption == MaxGrants \in Nat \ {0}
ASSUME UrlAssumption == NoUrl \notin Urls

Grants == 1..MaxGrants
NoToken == 0
Resource == Urls \cup {NoUrl}

Credential == [grant: Grants, refresh: Grants \cup {NoToken}, url: Resource]

\* The nil *entities.Credentials a caller holds before it has loaded any.
NoCredential == [grant |-> 0, refresh |-> NoToken, url |-> NoUrl]
=============================================================================
