------------------------------ MODULE MCAccess ------------------------------
(* Access for TLC: a user of one tenant, API clients of another; the user's *)
(* role lacks the permission for work.  Requests are interchangeable.       *)
EXTENDS Access, TLC

CONSTANTS ua, ta, tb

MCUsers == {ua}
MCTenants == {ta, tb}
MCTenantOf == ua :> ta
MCMay == {}
With(k, t) == [token |-> k, apiKey |-> t]
\* Sign-ins without credentials; sign-outs with a token, garbage or nothing
\* beside the key of the other tenant; work with a token beside that key.
MCAsked ==
  [op : {"login"}, user : MCUsers, ok : BOOLEAN, by : {With(NoString, NoTenant)}]
    \cup [op : {"logout"}, by : {With(k, tb) : k \in Strings \cup {NoString}}]
    \cup [op : {"work"}, by : {With(k, tb) : k \in Requests}]
RequestSymmetry == Permutations(Requests)
=============================================================================
