------------------------------- MODULE Access -------------------------------
(***************************************************************************)
(* Api.handle of api/server.py up to the handler, with the handlers that   *)
(* sign users in and out: who a request is, whether its tenant is within   *)
(* its rate, and whether it may do what it asks.                           *)
(*                                                                         *)
(* Every request runs in a thread of its own and is served once.  It may   *)
(* carry a session token, the API key of a tenant, both or neither: a      *)
(* string that is sent as a token and opens no session leaves the request  *)
(* to its API key, and the sign-out handler revokes the string all the     *)
(* same, whatever it is.  A sign-in also carries a user name and a         *)
(* password that is right or wrong.                                        *)
(***************************************************************************)
EXTENDS RateLimiter, AuthService

CONSTANTS
  TenantOf,     \* TenantOf[u]: the tenant of a user
  May,          \* the users whose role has the permission of the route asked for
  Garbage,      \* strings sent as tokens that no sign-in has issued
  NoString,     \* the token of a request that sends none
  NoTenant,     \* the tenant of a request without a principal, or without API key
  Asked,        \* bound: the requests that may arrive
  MaxRestarts   \* bound: process restarts

ASSUME AccessAssumption ==
  /\ Requests = Attempts
  /\ TenantOf \in [Users -> Tenants]
  /\ May \subseteq Users
  /\ NoTenant \notin Tenants
  /\ Garbage \cap Requests = {} /\ NoString \notin Requests \cup Garbage
  /\ MaxRestarts \in Nat

VARIABLES
  pc,         \* the step a request is at
  request,    \* what a request asks for
  caller,     \* the principal of a request that is being counted: the user (of an
              \* API client, Nobody) and the tenant
  restarts    \* how often the process was restarted

accessVars == <<pc, request, caller, restarts>>
vars == <<now, rateVars, authVars, accessVars>>

Strings == Requests \cup Garbage
Credentials == [token : Strings \cup {NoString}, apiKey : Tenants \cup {NoTenant}]

SignIns == [op : {"login"}, user : Users, ok : BOOLEAN, by : Credentials]
Others == [op : {"logout", "work"}, by : Credentials]
NoRequest == [op |-> "none", by |-> [token |-> NoString, apiKey |-> NoTenant]]
NoCaller == [user |-> Nobody, tenant |-> NoTenant]

ASSUME AskedAssumption == Asked \subseteq SignIns \cup Others

Ended == {"answered", "refused", "error", "lost"}
Running(r) == pc[r] \notin Ended \cup {"new"}

HasToken(q) == q.by.token # NoString

-----------------------------------------------------------------------------
Init ==
  /\ StartOfTime /\ RateInit /\ AuthInit
  /\ pc = [r \in Requests |-> "new"]
  /\ request = [r \in Requests |-> NoRequest]
  /\ caller = [r \in Requests |-> NoCaller]
  /\ restarts = 0

\* On to the next step; what was asked is forgotten once it is answered.
GoTo(r, step) ==
  /\ pc' = [pc EXCEPT ![r] = step]
  /\ request' = IF step \in Ended THEN [request EXCEPT ![r] = NoRequest] ELSE request

\* The token of a session is used by somebody who was given it.
Arrive(r, q) ==
  /\ pc[r] = "new"
  /\ q.by.token \in Requests => issued[q.by.token] # NoToken
  /\ request' = [request EXCEPT ![r] = q]
  /\ pc' = [pc EXCEPT ![r] = "authenticate"]
  /\ UNCHANGED <<now, rateVars, authVars, caller, restarts>>

\* The principal: the user of the session, else the client whose API key it is.
CallerOf(q) ==
  IF Principal(q.by.token) # Nobody
  THEN [user |-> Principal(q.by.token), tenant |-> TenantOf[Principal(q.by.token)]]
  ELSE [user |-> Nobody, tenant |-> q.by.apiKey]

\* A user's role may lack the permission of the route; an API client has all
\* of them, and signing in or out needs none.
Forbidden(q, who) == q.op = "work" /\ who.user \notin May \cup {Nobody}

\* Where dispatch takes a request that has passed authentication and rate
\* limit: 413, 400, 404 and 405 come before authorisation, whoever asks;
\* sign-in is public, everything else needs a principal (401) and the
\* permission (403).  A handler that only reads answers at once.
Routes(q, who) ==
  {"refused"} \cup
  (IF q.op = "login" THEN {"check"}
   ELSE IF who = NoCaller \/ Forbidden(q, who) THEN {}
   ELSE IF q.op = "logout" THEN {"revoke"}
   ELSE {"answered"})

\* Without a tenant there is no rate limit; with one, _rate_limit starts by
\* reading the clock.
Authenticate(r) ==
  /\ pc[r] = "authenticate"
  /\ LET who == CallerOf(request[r])
     IN IF who.tenant = NoTenant
        THEN (\E step \in Routes(request[r], who) : GoTo(r, step)) /\ UNCHANGED <<rateVars, caller>>
        ELSE /\ GoTo(r, "count")
             /\ caller' = [caller EXCEPT ![r] = who]
             /\ ReadClock(r)
  /\ UNCHANGED <<now, authVars, restarts>>

\* 429 when the count is over the limit.
CountRequest(r) ==
  /\ pc[r] = "count"
  /\ Count(r, caller[r].tenant)
  /\ \E step \in IF Admits(rate'[caller[r].tenant]) THEN Routes(request[r], caller[r]) ELSE {"refused"} :
       GoTo(r, step)
  /\ caller' = [caller EXCEPT ![r] = NoCaller]
  /\ UNCHANGED <<now, authVars, restarts>>

-----------------------------------------------------------------------------
(* The handlers login and logout.                                           *)

LoginLocked(r) ==
  /\ pc[r] = "check"
  /\ RefuseLocked(request[r].user)
  /\ GoTo(r, "refused")
  /\ UNCHANGED <<now, rateVars, caller, restarts>>

LoginCheck(r) ==
  /\ pc[r] = "check"
  /\ Check(r, request[r].user)
  /\ GoTo(r, "hash")
  /\ UNCHANGED <<now, rateVars, caller, restarts>>

LoginConclude(r) ==
  /\ pc[r] = "hash"
  /\ Conclude(r, request[r].ok)
  /\ GoTo(r, IF request[r].ok THEN "issue" ELSE "refused")
  /\ UNCHANGED <<now, rateVars, caller, restarts>>

\* The session is issued and the sign-in recorded; if the record fails, the
\* caller gets 500 and never sees the token.
LoginIssue(r) ==
  /\ pc[r] = "issue"
  /\ \/ IssueSession(r, request[r].user) /\ GoTo(r, "answered")
     \/ UNCHANGED authVars /\ GoTo(r, "error")
  /\ UNCHANGED <<now, rateVars, caller, restarts>>

\* Whatever was sent as the token is revoked, then the sign-out recorded, which
\* may fail.
Logout(r) ==
  /\ pc[r] = "revoke"
  /\ IF HasToken(request[r]) THEN Revoke(request[r].by.token) ELSE UNCHANGED authVars
  /\ \E step \in {"answered", "error"} : GoTo(r, step)
  /\ UNCHANGED <<now, rateVars, caller, restarts>>

Restart ==
  /\ restarts < MaxRestarts
  /\ restarts' = restarts + 1
  /\ RateRestart /\ AuthRestart
  /\ pc' = [r \in Requests |-> IF Running(r) THEN "lost" ELSE pc[r]]
  /\ request' = [r \in Requests |-> NoRequest]
  /\ caller' = [r \in Requests |-> NoCaller]
  /\ UNCHANGED now

RequestStep(r) ==
  \/ Authenticate(r)
  \/ CountRequest(r)
  \/ LoginLocked(r)
  \/ LoginCheck(r)
  \/ LoginConclude(r)
  \/ LoginIssue(r)
  \/ Logout(r)

Next ==
  \/ \E r \in Requests, q \in Asked : Arrive(r, q)
  \/ \E r \in Requests : RequestStep(r)
  \/ Restart
  \/ TimePasses /\ UNCHANGED <<rateVars, authVars, accessVars>>

Spec == Init /\ [][Next]_vars

-----------------------------------------------------------------------------
(* api/server.py, logout: a request that is authenticated by a token after  *)
(* that token was signed out does not pass as the token's user, as long as  *)
(* no more than RevokedLimit strings of any kind (live tokens, expired      *)
(* ones, garbage) were sent to sign-outs and the process was not restarted  *)
(* with the same key; a restart with a new key keeps the promise by itself. *)
SignedOutStaysOut ==
  [][\A r \in Requests :
       pc[r] = "authenticate" /\ pc'[r] = "count" /\ caller'[r].user # Nobody
         => request[r].by.token \notin signedOut \/ Cardinality(signedOut) > RevokedLimit]_vars
=============================================================================
