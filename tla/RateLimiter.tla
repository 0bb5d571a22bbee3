----------------------------- MODULE RateLimiter -----------------------------
(***************************************************************************)
(* _rate_limit of api/server.py: a fixed window of one minute per tenant.  *)
(*                                                                         *)
(* A request reads the clock first and takes _rate_lock afterwards, so its *)
(* minute may be over by the time it counts; whatever window is stored, if *)
(* it is not the request's own, older or newer, is replaced and its count  *)
(* forgotten.                                                              *)
(***************************************************************************)
EXTENDS Clock

CONSTANTS
  Requests,   \* request threads
  Tenants,    \* tenant codes
  Limit,      \* RATE_LIMIT_PER_MINUTE
  NoWindow    \* a request that is not inside _rate_limit

ASSUME LimitAssumption == Limit \in Nat /\ NoWindow \notin Nat

VARIABLES
  window,    \* window[r]: the minute that r read from the clock
  rate,      \* _rate_state: the window and count of each tenant
  admitted,  \* history: requests let through, per tenant and minute
  refused,   \* history: tenants and minutes in which a request was refused
  lost       \* history: how often a tenant's count was lost before its minute was over

rateVars == <<window, rate, admitted, refused, lost>>

-----------------------------------------------------------------------------
RateInit ==
  /\ window = [r \in Requests |-> NoWindow]
  /\ rate = [t \in Tenants |-> [window |-> 0, count |-> 0]]
  /\ admitted = [t \in Tenants |-> [w \in 0 .. MaxTime |-> 0]]
  /\ refused = {}
  /\ lost = [t \in Tenants |-> 0]

ReadClock(r) ==
  /\ window[r] = NoWindow
  /\ window' = [window EXCEPT ![r] = now]
  /\ UNCHANGED <<rate, admitted, refused, lost>>

\* Mutant: the count is carried over to the next minute.
Counted_CarriesOver(t, w) == [window |-> w, count |-> rate[t].count + 1]

\* The entry that a request of minute w leaves for tenant t.
Counted(t, w) ==
  [window |-> w, count |-> IF rate[t].window = w THEN rate[t].count + 1 ELSE 1]

\* Mutant: off by one at the limit.
Admits_OneMore(entry) == entry.count <= Limit + 1

Admits(entry) == entry.count <= Limit

\* The locked block, and the verdict on the count it leaves.
Count(r, t) ==
  /\ window[r] # NoWindow
  /\ rate' = [rate EXCEPT ![t] = Counted(t, window[r])]
  /\ IF Admits(rate'[t])
     THEN admitted' = [admitted EXCEPT ![t][window[r]] = @ + 1] /\ UNCHANGED refused
     ELSE refused' = refused \cup {<<t, window[r]>>} /\ UNCHANGED admitted
  /\ lost' = [lost EXCEPT ![t] = IF window[r] < rate[t].window THEN @ + 1 ELSE @]
  /\ window' = [window EXCEPT ![r] = NoWindow]

\* A restarted process knows of no requests.
RateRestart ==
  /\ window' = [r \in Requests |-> NoWindow]
  /\ rate' = [t \in Tenants |-> [window |-> 0, count |-> 0]]
  /\ lost' = [t \in Tenants |-> lost[t] + 1]
  /\ UNCHANGED <<admitted, refused>>

RateNext ==
  \/ \E r \in Requests : ReadClock(r) /\ UNCHANGED now
  \/ \E r \in Requests, t \in Tenants : Count(r, t) /\ UNCHANGED now
  \/ RateRestart /\ UNCHANGED now
  \/ TimePasses /\ UNCHANGED rateVars

RateSpec == StartOfTime /\ RateInit /\ [][RateNext]_<<now, rateVars>>

-----------------------------------------------------------------------------
RateTypeOK ==
  /\ now \in 0 .. MaxTime
  /\ window \in [Requests -> (0 .. MaxTime) \cup {NoWindow}]
  /\ rate \in [Tenants -> [window : 0 .. MaxTime, count : Nat]]
  /\ admitted \in [Tenants -> [0 .. MaxTime -> Nat]]
  /\ refused \subseteq Tenants \X (0 .. MaxTime)
  /\ lost \in [Tenants -> Nat]

(* api/server.py, line 56, "fixed-window rate limit per tenant": in no       *)
(* minute are more than Limit requests of a tenant let through for every    *)
(* time its count started over, which it does when the minute begins, when  *)
(* a request that was delayed from an earlier minute puts the window back,  *)
(* and when the process restarts.                                           *)
AdmittedWithinLimit ==
  \A t \in Tenants : \A w \in 0 .. MaxTime : admitted[t][w] <= Limit * (lost[t] + 1)

(* A request is refused only in a minute in which Limit requests of its     *)
(* tenant were let through, however requests of several minutes and tenants *)
(* interleave.                                                              *)
NobodyRefusedEarly == \A e \in refused : admitted[e[1]][e[2]] >= Limit
=============================================================================
