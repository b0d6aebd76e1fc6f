---------------------------- MODULE OAuthService ---------------------------
(***************************************************************************)
(* OAuthService and the OAuth server behind it.  A token endpoint answer   *)
(* becomes the next grant.  home[g] is the resource URL of the account     *)
(* grant g belongs to: only a device-flow answer names it, an answer to a  *)
(* refresh does not, and refreshing never changes the account.             *)
(* Time enters as the set `stale' of the grants whose ExpiryDate is less   *)
(* than the refresh buffer away.  A grant may become stale at once: an     *)
(* expires_in shorter than the buffer, or a missing one, is read as 0.     *)
(***************************************************************************)
EXTENDS Credentials

VARIABLES
  issued,   \* the number of grants the token endpoint has issued
  home,     \* the resource URL of each grant's account
  stale     \* the grants that are expired or within the refresh buffer

oauthVars == <<issued, home, stale>>

OAuthTypeOK ==
  /\ issued \in 0..MaxGrants
  /\ home \in [Grants -> Resource]
  /\ stale \subseteq 1..issued

OAuthInit ==
  /\ issued = 0
  /\ home = [g \in Grants |-> NoUrl]
  /\ stale = {}

\* The number of the next grant.
NextGrant == issued + 1

Issue(url) ==
  /\ issued < MaxGrants
  /\ issued' = NextGrant
  /\ home' = [home EXCEPT ![NextGrant] = url]
  /\ UNCHANGED stale

-----------------------------------------------------------------------------
\* The credentials made from an answer that carries refresh token t.
Answer(t, url) == [grant |-> NextGrant, refresh |-> t, url |-> url]

\* RefreshToken succeeds: the endpoint returns a rotated refresh token, the
\* one presented, or none.
TokensAfterRefresh(token) == {NextGrant, token, NoToken}

\* AuthenticateWithDeviceFlow succeeds, with or without a refresh token.
TokensAfterDevice == {NextGrant, NoToken}

\* Any error return: no request, no answer in time, an error answer.
ServiceFails == UNCHANGED oauthVars

\* Time passes the point where `timeUntilExpiry < bufferInMillis'.
Expire(g) ==
  /\ g \in 1..issued \ stale
  /\ stale' = stale \cup {g}
  /\ UNCHANGED <<issued, home>>
=============================================================================
