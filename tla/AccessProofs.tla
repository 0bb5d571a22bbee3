---------------------------- MODULE AccessProofs ----------------------------
(***************************************************************************)
(* Proofs about Access, for any users, tenants, requests, limits and       *)
(* restarts: what a minute may admit and whom it may refuse, who is locked *)
(* out and by what, and that a token that was signed out stays out.        *)
(*                                                                         *)
(* The rate limiter comes first, alone.  Access then takes no step that    *)
(* RateLimiter does not allow, and so keeps what was shown of it.  The     *)
(* sign-ins have invariants of their own: LockInv ties every counter, the  *)
(* stored ones and those that threads hold while they hash, to the wrong   *)
(* passwords there were; SessionInv ties the revocation list to the        *)
(* sign-outs.                                                              *)
(***************************************************************************)
EXTENDS Access, FiniteSetTheorems, TLAPS

-----------------------------------------------------------------------------
(* The rate limiter. *)

\* Admissions that windows which were lost, or are over, may account for.
Allowed(t) == Limit * lost[t]

\* A minute later than the stored window was lost with its window; the stored
\* one has its count on top; one that is over has at most the limit on top.
MinuteInv(t, w) ==
  /\ w > rate[t].window => admitted[t][w] <= Allowed(t)
  /\ w = rate[t].window => admitted[t][w] <= Allowed(t) + rate[t].count
  /\ admitted[t][w] <= Allowed(t) + Limit

\* Every request that was counted in the stored window was let through, up to
\* the limit.
CountIsBacked ==
  \A t \in Tenants :
    LET reached == admitted[t][rate[t].window]
    IN reached >= rate[t].count \/ reached >= Limit

RateInv ==
  /\ RateTypeOK
  /\ \A t \in Tenants : \A w \in 0 .. MaxTime : MinuteInv(t, w)
  /\ CountIsBacked
  /\ NobodyRefusedEarly

(* Another lost window allows for another limit's worth of admissions.      *)
LEMMA OneMoreWindow ==
  ASSUME NEW n \in Nat
  PROVE  Limit * (n + 1) = Limit * n + Limit /\ Limit * n \in Nat
BY LimitAssumption

(* Before the first request nothing was counted, admitted or refused.       *)
LEMMA RateInitInv == StartOfTime /\ RateInit => RateInv
BY ClockAssumption, LimitAssumption
   DEF StartOfTime, RateInit, RateInv, RateTypeOK, MinuteInv, Allowed, CountIsBacked, NobodyRefusedEarly

(* RateLimiter: every step keeps the types.                                 *)
LEMMA RateTypesStay ==
  ASSUME RateTypeOK, [RateNext]_<<now, rateVars>>
  PROVE  RateTypeOK'
<1> USE ClockAssumption, LimitAssumption DEF RateTypeOK
<1>1. ASSUME NEW r \in Requests, ReadClock(r), UNCHANGED now
      PROVE  RateTypeOK'
  BY <1>1 DEF ReadClock
<1>2. ASSUME NEW r \in Requests, NEW t \in Tenants, Count(r, t), UNCHANGED now
      PROVE  RateTypeOK'
  <2>1. window[r] \in 0 .. MaxTime
    BY <1>2 DEF Count
  <2>2. Counted(t, window[r]) \in [window : 0 .. MaxTime, count : Nat]
    BY <2>1 DEF Counted
  <2>3. rate' \in [Tenants -> [window : 0 .. MaxTime, count : Nat]]
    BY <1>2, <2>2 DEF Count
  <2>4. admitted' \in [Tenants -> [0 .. MaxTime -> Nat]]
    <3>1. CASE Admits(rate'[t])
      <4>1. admitted' = [admitted EXCEPT ![t] = [admitted[t] EXCEPT ![window[r]] = admitted[t][window[r]] + 1]]
        BY <1>2, <3>1 DEF Count
      <4> QED BY <2>1, <4>1
    <3>2. CASE ~Admits(rate'[t])
      BY <1>2, <3>2 DEF Count
    <3> QED BY <3>1, <3>2
  <2>5. refused' \subseteq Tenants \X (0 .. MaxTime)
    BY <1>2, <2>1 DEF Count
  <2>6. lost' \in [Tenants -> Nat] /\ window' \in [Requests -> (0 .. MaxTime) \cup {NoWindow}]
    BY <1>2 DEF Count
  <2> QED BY <1>2, <2>3, <2>4, <2>5, <2>6
<1>3. CASE RateRestart /\ UNCHANGED now
  BY <1>3 DEF RateRestart
<1>4. CASE TimePasses /\ UNCHANGED rateVars
  BY <1>4 DEF TimePasses, rateVars
<1>5. CASE UNCHANGED <<now, rateVars>>
  BY <1>5 DEF rateVars
<1> QED BY <1>1, <1>2, <1>3, <1>4, <1>5 DEF RateNext

-----------------------------------------------------------------------------
(* _rate_limit, the locked block: what counting a request leaves of its      *)
(* tenant's entry, of the admissions of its minute, and of all others.      *)
LEMMA CountEffect ==
  ASSUME RateTypeOK, NEW r \in Requests, NEW t \in Tenants, Count(r, t)
  PROVE  LET w == window[r]
             one == IF rate[t].window = w THEN rate[t].count + 1 ELSE 1
         IN /\ w \in 0 .. MaxTime
            /\ rate'[t].window = w /\ rate'[t].count = one
            /\ admitted'[t][w] = admitted[t][w] + (IF one <= Limit THEN 1 ELSE 0)
            /\ \A v \in 0 .. MaxTime : v # w => admitted'[t][v] = admitted[t][v]
            /\ lost'[t] = IF w < rate[t].window THEN lost[t] + 1 ELSE lost[t]
            /\ \A u \in Tenants \ {t} :
                 rate'[u] = rate[u] /\ admitted'[u] = admitted[u] /\ lost'[u] = lost[u]
            /\ refused' = IF one <= Limit THEN refused ELSE refused \cup {<<t, w>>}
<1> DEFINE w == window[r]
<1> USE LimitAssumption DEF RateTypeOK
<1>1. w \in 0 .. MaxTime
  BY DEF Count
<1>2. rate' = [rate EXCEPT ![t] = Counted(t, w)]
  BY DEF Count
<1>3. rate'[t].window = w /\ rate'[t].count = IF rate[t].window = w THEN rate[t].count + 1 ELSE 1
  BY <1>2 DEF Counted
<1>4. \A u \in Tenants \ {t} : rate'[u] = rate[u] /\ lost'[u] = lost[u]
  BY <1>2 DEF Count
<1>5. lost'[t] = IF w < rate[t].window THEN lost[t] + 1 ELSE lost[t]
  BY DEF Count
<1>6. CASE Admits(rate'[t])
  <2>1. admitted' = [admitted EXCEPT ![t] = [admitted[t] EXCEPT ![w] = admitted[t][w] + 1]]
    BY <1>6 DEF Count
  <2>2. refused' = refused
    BY <1>6 DEF Count
  <2>3. (IF rate[t].window = w THEN rate[t].count + 1 ELSE 1) <= Limit
    BY <1>3, <1>6 DEF Admits
  <2> QED BY <1>1, <1>3, <1>4, <1>5, <2>1, <2>2, <2>3
<1>7. CASE ~Admits(rate'[t])
  <2>1. admitted' = admitted /\ refused' = refused \cup {<<t, w>>}
    BY <1>7 DEF Count
  <2>2. ~((IF rate[t].window = w THEN rate[t].count + 1 ELSE 1) <= Limit)
    BY <1>3, <1>7 DEF Admits
  <2>3. admitted'[t][w] = admitted[t][w] + 0
    <3>1. admitted[t] \in [0 .. MaxTime -> Nat]
      OBVIOUS
    <3> QED BY <1>1, <2>1, <3>1
  <2> QED BY <1>1, <1>3, <1>4, <1>5, <2>1, <2>2, <2>3
<1> QED BY <1>6, <1>7

(* Counting a request keeps every minute within what its tenant's lost      *)
(* windows account for.                                                     *)
LEMMA CountKeepsMinutes ==
  ASSUME RateInv, RateTypeOK', NEW r \in Requests, NEW t \in Tenants, Count(r, t),
         NEW u \in Tenants, NEW v \in 0 .. MaxTime
  PROVE  MinuteInv(u, v)'
<1> DEFINE w == window[r]
           one == IF rate[t].window = w THEN rate[t].count + 1 ELSE 1
<1> USE ClockAssumption, LimitAssumption
<1>1. RateTypeOK /\ MinuteInv(u, v)
  BY DEF RateInv
<1>2. /\ w \in 0 .. MaxTime
      /\ rate'[t].window = w /\ rate'[t].count = one
      /\ admitted'[t][w] = admitted[t][w] + (IF one <= Limit THEN 1 ELSE 0)
      /\ \A x \in 0 .. MaxTime : x # w => admitted'[t][x] = admitted[t][x]
      /\ lost'[t] = IF w < rate[t].window THEN lost[t] + 1 ELSE lost[t]
      /\ \A x \in Tenants \ {t} :
           rate'[x] = rate[x] /\ admitted'[x] = admitted[x] /\ lost'[x] = lost[x]
  BY <1>1, CountEffect
<1>3. CASE u # t
  <2>1. rate'[u] = rate[u] /\ admitted'[u] = admitted[u] /\ lost'[u] = lost[u]
    BY <1>2, <1>3
  <2> QED BY <1>1, <2>1 DEF MinuteInv, Allowed
<1>4. CASE u = t
  <2>1. /\ rate[t].window \in 0 .. MaxTime /\ rate[t].count \in Nat
        /\ admitted[t][v] \in Nat /\ lost[t] \in Nat
    <3>1. rate[t] \in [window : 0 .. MaxTime, count : Nat]
      BY <1>1 DEF RateTypeOK
    <3>2. admitted[t] \in [0 .. MaxTime -> Nat] /\ lost[t] \in Nat
      BY <1>1 DEF RateTypeOK
    <3> QED BY <3>1, <3>2
  <2>2. Allowed(t) \in Nat /\ Limit * (lost[t] + 1) = Allowed(t) + Limit
    BY <2>1, OneMoreWindow DEF Allowed
  <2>3. Allowed(t)' = IF w < rate[t].window THEN Allowed(t) + Limit ELSE Allowed(t)
    BY <1>2, <2>2 DEF Allowed
  <2>4. /\ v > rate[t].window => admitted[t][v] <= Allowed(t)
        /\ v = rate[t].window => admitted[t][v] <= Allowed(t) + rate[t].count
        /\ admitted[t][v] <= Allowed(t) + Limit
    BY <1>1, <1>4 DEF MinuteInv
  <2>5. /\ v > w => admitted'[t][v] <= Allowed(t)'
        /\ v = w => admitted'[t][v] <= Allowed(t)' + one
        /\ admitted'[t][v] <= Allowed(t)' + Limit
    <3>1. CASE v # w
      BY <1>2, <2>1, <2>2, <2>3, <2>4, <3>1
    <3>2. CASE v = w
      <4>1. /\ admitted'[t][v] = admitted[t][v] + (IF one <= Limit THEN 1 ELSE 0)
            /\ v \in 0 .. MaxTime /\ rate[t].window \in 0 .. MaxTime
        BY <1>2, <2>1, <3>2
      <4>2. CASE rate[t].window = v
        <5>1. one = rate[t].count + 1 /\ Allowed(t)' = Allowed(t)
          BY <2>1, <2>3, <3>2, <4>2
        <5> QED BY <2>1, <2>2, <2>4, <3>2, <4>1, <4>2, <5>1
      <4>3. CASE rate[t].window # v
        <5>1. one = 1
          BY <3>2, <4>3
        <5>2. admitted[t][v] <= Allowed(t)'
          <6>1. CASE w < rate[t].window
            BY <2>3, <2>4, <6>1
          <6>2. CASE ~(w < rate[t].window)
            <7>1. v > rate[t].window
              BY <2>1, <3>2, <4>1, <4>3, <6>2
            <7> QED BY <2>3, <2>4, <6>2, <7>1
          <6> QED BY <6>1, <6>2
        <5>3. Allowed(t)' \in Nat
          BY <2>2, <2>3
        <5> QED BY <2>1, <3>2, <4>1, <5>1, <5>2, <5>3
      <4> QED BY <4>2, <4>3
    <3> QED BY <3>1, <3>2
  <2> QED BY <1>2, <1>4, <2>5 DEF MinuteInv
<1> QED BY <1>3, <1>4

(* Counting a request keeps the count of the stored window backed by        *)
(* admissions, and refuses it only when they have reached the limit.        *)
LEMMA CountKeepsBacking ==
  ASSUME RateInv, RateTypeOK', NEW r \in Requests, NEW t \in Tenants, Count(r, t)
  PROVE  CountIsBacked' /\ NobodyRefusedEarly'
<1> DEFINE w == window[r]
           one == IF rate[t].window = w THEN rate[t].count + 1 ELSE 1
<1> USE ClockAssumption, LimitAssumption
<1>1. RateTypeOK /\ CountIsBacked /\ NobodyRefusedEarly
  BY DEF RateInv
<1>2. /\ w \in 0 .. MaxTime
      /\ rate'[t].window = w /\ rate'[t].count = one
      /\ admitted'[t][w] = admitted[t][w] + (IF one <= Limit THEN 1 ELSE 0)
      /\ \A x \in 0 .. MaxTime : x # w => admitted'[t][x] = admitted[t][x]
      /\ \A x \in Tenants \ {t} :
           rate'[x] = rate[x] /\ admitted'[x] = admitted[x] /\ lost'[x] = lost[x]
      /\ refused' = IF one <= Limit THEN refused ELSE refused \cup {<<t, w>>}
  BY <1>1, CountEffect
<1>3. \A u \in Tenants : \A v \in 0 .. MaxTime :
        admitted[u][v] \in Nat /\ admitted'[u][v] \in Nat /\ admitted'[u][v] >= admitted[u][v]
  <2>1. \A u \in Tenants : \A v \in 0 .. MaxTime : admitted[u][v] \in Nat
    BY <1>1 DEF RateTypeOK
  <2>2. \A v \in 0 .. MaxTime : admitted'[t][v] = admitted[t][v] \/ admitted'[t][v] = admitted[t][v] + 1
    BY <1>2, <2>1
  <2>3. ASSUME NEW u \in Tenants, NEW v \in 0 .. MaxTime
        PROVE  admitted'[u][v] = admitted[u][v] \/ admitted'[u][v] = admitted[u][v] + 1
    BY <1>2, <2>2
  <2> QED BY <2>1, <2>3
<1>0. one \in Nat
  <2>1. rate[t].count \in Nat
    BY <1>1 DEF RateTypeOK
  <2> QED BY <2>1
<1>4. admitted'[t][w] >= one \/ admitted'[t][w] >= Limit
  <2>1. rate[t].count \in Nat /\ admitted[t][w] \in Nat
    BY <1>1, <1>2 DEF RateTypeOK
  <2>2. rate[t].window = w => admitted[t][w] >= rate[t].count \/ admitted[t][w] >= Limit
    BY <1>1 DEF CountIsBacked
  <2> QED BY <1>2, <2>1, <2>2
<1>5. CountIsBacked'
  <2>1. ASSUME NEW u \in Tenants, u # t
        PROVE  admitted'[u][rate'[u].window] >= rate'[u].count \/ admitted'[u][rate'[u].window] >= Limit
    BY <1>1, <1>2, <2>1 DEF CountIsBacked
  <2> QED BY <1>2, <1>4, <2>1 DEF CountIsBacked
<1>6. one > Limit => admitted'[t][w] >= Limit
  <2>1. admitted'[t][w] \in Nat
    BY <1>2, <1>3
  <2> QED BY <1>0, <1>4, <2>1
<1>7. ASSUME NEW e \in refused'
      PROVE  admitted'[e[1]][e[2]] >= Limit
  <2>1. CASE e \in refused
    <3>1. e[1] \in Tenants /\ e[2] \in 0 .. MaxTime /\ admitted[e[1]][e[2]] >= Limit
      BY <1>1, <2>1 DEF RateTypeOK, NobodyRefusedEarly
    <3> QED BY <1>3, <3>1
  <2>2. CASE e = <<t, w>> /\ one > Limit
    BY <1>6, <2>2
  <2> QED BY <1>0, <1>2, <1>7, <2>1, <2>2
<1> QED BY <1>5, <1>7 DEF NobodyRefusedEarly

(* A restart loses every tenant's window: what any minute has admitted is   *)
(* covered by the windows that are lost with it.                            *)
LEMMA RestartKeepsInv == RateInv /\ RateTypeOK' /\ RateRestart => RateInv'
<1> SUFFICES ASSUME RateInv, RateTypeOK', RateRestart PROVE RateInv'
  OBVIOUS
<1> USE ClockAssumption, LimitAssumption
<1>1. RateTypeOK /\ NobodyRefusedEarly
  BY DEF RateInv
<1>2. ASSUME NEW t \in Tenants, NEW w \in 0 .. MaxTime
      PROVE  MinuteInv(t, w)'
  <2>1. lost[t] \in Nat /\ admitted[t][w] \in Nat /\ MinuteInv(t, w)
    BY <1>1 DEF RateInv, RateTypeOK
  <2>2. Allowed(t)' = Allowed(t) + Limit /\ Allowed(t) \in Nat
    BY <2>1, OneMoreWindow DEF Allowed, RateRestart
  <2>3. admitted'[t][w] = admitted[t][w] /\ admitted[t][w] <= Allowed(t) + Limit
    BY <2>1 DEF MinuteInv, RateRestart
  <2>4. rate'[t].count = 0
    BY DEF RateRestart
  <2> QED BY <2>1, <2>2, <2>3, <2>4 DEF MinuteInv
<1>3. CountIsBacked'
  <2>1. ASSUME NEW t \in Tenants
        PROVE  rate'[t].window = 0 /\ rate'[t].count = 0 /\ admitted'[t][0] \in Nat
    BY DEF RateRestart, RateTypeOK
  <2> QED BY <2>1 DEF CountIsBacked
<1>4. NobodyRefusedEarly'
  BY <1>1 DEF NobodyRefusedEarly, RateRestart
<1> QED BY <1>2, <1>3, <1>4 DEF RateInv

(* Steps that leave the entries and the history alone keep the invariant.   *)
LEMMA QuietStepsKeepInv ==
  ASSUME RateInv, RateTypeOK', UNCHANGED <<rate, admitted, refused, lost>>
  PROVE  RateInv'
BY DEF RateInv, MinuteInv, Allowed, CountIsBacked, NobodyRefusedEarly

(* The inductive invariant is kept by every step of the limiter.            *)
LEMMA RateStep == RateInv /\ [RateNext]_<<now, rateVars>> => RateInv'
<1> SUFFICES ASSUME RateInv, [RateNext]_<<now, rateVars>> PROVE RateInv'
  OBVIOUS
<1>1. RateTypeOK'
  BY RateTypesStay DEF RateInv
<1>2. ASSUME NEW r \in Requests, ReadClock(r) PROVE RateInv'
  BY <1>1, <1>2, QuietStepsKeepInv DEF ReadClock
<1>3. ASSUME NEW r \in Requests, NEW t \in Tenants, Count(r, t) PROVE RateInv'
  <2>1. \A u \in Tenants : \A v \in 0 .. MaxTime : MinuteInv(u, v)'
    BY <1>1, <1>3, CountKeepsMinutes
  <2>2. CountIsBacked' /\ NobodyRefusedEarly'
    BY <1>1, <1>3, CountKeepsBacking
  <2> QED BY <1>1, <2>1, <2>2, ClockAssumption DEF RateInv
<1>4. CASE RateRestart
  BY <1>1, <1>4, RestartKeepsInv
<1>5. CASE UNCHANGED rateVars
  BY <1>1, <1>5, QuietStepsKeepInv DEF rateVars
<1>6. CASE UNCHANGED <<now, rateVars>>
  BY <1>5, <1>6
<1> QED BY <1>2, <1>3, <1>4, <1>5, <1>6 DEF RateNext

(* The limiter's invariant holds in all its behaviours.                     *)
LEMMA RateInvHolds == RateSpec => []RateInv
BY RateInitInv, RateStep, PTL DEF RateSpec

(* What the invariant says of a minute: at most Limit admissions for every  *)
(* window that was lost, and for the one that was not.                      *)
LEMMA RateInvLimits == RateInv => AdmittedWithinLimit
<1> SUFFICES ASSUME RateInv, NEW t \in Tenants, NEW w \in 0 .. MaxTime
             PROVE  admitted[t][w] <= Limit * (lost[t] + 1)
  BY DEF AdmittedWithinLimit
<1>1. lost[t] \in Nat /\ admitted[t][w] <= Allowed(t) + Limit
  BY DEF RateInv, RateTypeOK, MinuteInv
<1> QED BY <1>1, OneMoreWindow DEF Allowed

-----------------------------------------------------------------------------
(* The rate limiter among the requests of Access. *)

AnyRequest == SignIns \cup Others

IssuedToUsers == \A k \in Requests : issued[k].user \in Users \cup {Nobody}

\* What a request is at each step of its way, and whose tenant it counts for.
RequestsAreKnown ==
  \A r \in Requests :
    /\ pc[r] \in {"authenticate", "count"} => request[r] \in AnyRequest
    /\ pc[r] \in {"check", "hash", "issue"} => request[r] \in SignIns
    /\ pc[r] = "count" => caller[r].tenant \in Tenants

WellFormed ==
  /\ DOMAIN pc = Requests /\ DOMAIN request = Requests
  /\ DOMAIN caller = Requests /\ DOMAIN issued = Requests

AccessInv == WellFormed /\ IssuedToUsers /\ RequestsAreKnown

(* Before the first request there is none to know.                          *)
LEMMA AccessInitInv == Init => AccessInv
<1> SUFFICES ASSUME Init PROVE AccessInv
  OBVIOUS
<1>1. WellFormed /\ RequestsAreKnown
  BY AccessAssumption DEF Init, AuthInit, WellFormed, RequestsAreKnown
<1>2. issued = [a \in Requests |-> NoToken]
  BY AccessAssumption DEF Init, AuthInit
<1>3. IssuedToUsers
  BY <1>2 DEF IssuedToUsers, NoToken
<1> QED BY <1>1, <1>3 DEF AccessInv

(* validate_session: a principal is a user, who has a tenant.               *)
LEMMA PrincipalIsUser ==
  ASSUME IssuedToUsers, NEW k, Principal(k) # Nobody
  PROVE  k \in Requests /\ Principal(k) \in Users
BY AccessAssumption DEF Principal, IssuedToUsers

(* Api.handle: the tenant that is counted for is one of the tenants, or     *)
(* there is none.                                                           *)
LEMMA TenantIsKnown ==
  ASSUME IssuedToUsers, NEW q \in AnyRequest
  PROVE  CallerOf(q).tenant \in Tenants \cup {NoTenant}
<1>1. q.by.apiKey \in Tenants \cup {NoTenant}
  BY DEF AnyRequest, SignIns, Others, Credentials
<1>2. CASE Principal(q.by.token) # Nobody
  <2>1. Principal(q.by.token) \in Users
    BY <1>2, PrincipalIsUser
  <2>2. TenantOf[Principal(q.by.token)] \in Tenants
    BY <2>1, AccessAssumption
  <2> QED BY <1>2, <2>2 DEF CallerOf
<1>3. CASE Principal(q.by.token) = Nobody
  BY <1>1, <1>3 DEF CallerOf
<1> QED BY <1>2, <1>3

(* Dispatch sends nobody but a sign-in to the password check.               *)
LEMMA OnlySignInsAreChecked ==
  ASSUME NEW q \in AnyRequest, NEW who, NEW step \in Routes(q, who)
  PROVE  /\ step \in {"refused", "check", "revoke", "answered"}
         /\ step = "check" => q \in SignIns
BY DEF Routes, AnyRequest, SignIns, Others

(* GoTo changes the step of one request, and forgets only what has ended.   *)
LEMMA GoToEffect ==
  ASSUME WellFormed, NEW r \in Requests, NEW step, GoTo(r, step)
  PROVE  /\ DOMAIN pc' = Requests /\ DOMAIN request' = Requests
         /\ pc'[r] = step
         /\ step \notin Ended => request'[r] = request[r]
         /\ \A s \in Requests \ {r} : pc'[s] = pc[s] /\ request'[s] = request[s]
BY DEF GoTo, WellFormed

-----------------------------------------------------------------------------
(* A step of one request keeps what is known of the others.                 *)
LEMMA OthersStay ==
  ASSUME AccessInv, NEW r \in Requests, NEW step, GoTo(r, step),
         \A s \in Requests \ {r} : caller'[s] = caller[s],
         step \notin Ended =>
           /\ step \in {"authenticate", "count"} => request[r] \in AnyRequest
           /\ step \in {"check", "hash", "issue"} => request[r] \in SignIns
           /\ step = "count" => caller'[r].tenant \in Tenants
  PROVE  RequestsAreKnown'
<1>1. /\ pc'[r] = step
      /\ step \notin Ended => request'[r] = request[r]
      /\ \A s \in Requests \ {r} : pc'[s] = pc[s] /\ request'[s] = request[s]
  BY GoToEffect DEF AccessInv
<1>2. ASSUME NEW s \in Requests \ {r}
      PROVE  /\ pc'[s] \in {"authenticate", "count"} => request'[s] \in AnyRequest
             /\ pc'[s] \in {"check", "hash", "issue"} => request'[s] \in SignIns
             /\ pc'[s] = "count" => caller'[s].tenant \in Tenants
  BY <1>1 DEF AccessInv, RequestsAreKnown
<1>3. /\ pc'[r] \in {"authenticate", "count"} => request'[r] \in AnyRequest
      /\ pc'[r] \in {"check", "hash", "issue"} => request'[r] \in SignIns
      /\ pc'[r] = "count" => caller'[r].tenant \in Tenants
  BY <1>1 DEF Ended
<1> QED BY <1>2, <1>3 DEF RequestsAreKnown

(* Api.handle: whatever a request does, those that are being counted count  *)
(* for a tenant, and only sign-ins check passwords.                         *)
LEMMA AccessStep == AccessInv /\ [Next]_vars => AccessInv'
<1> SUFFICES ASSUME AccessInv, [Next]_vars PROVE AccessInv'
  OBVIOUS
<1> USE DEF AccessInv
<1>1. ASSUME NEW r \in Requests, NEW q \in Asked, Arrive(r, q)
      PROVE  AccessInv'
  <2>1. WellFormed' /\ IssuedToUsers'
    BY <1>1 DEF Arrive, WellFormed, IssuedToUsers, authVars
  <2>2. RequestsAreKnown'
    BY <1>1, AskedAssumption DEF Arrive, WellFormed, RequestsAreKnown, AnyRequest
  <2> QED BY <2>1, <2>2
<1>2. ASSUME NEW r \in Requests, Authenticate(r)
      PROVE  AccessInv'
  <2>1. request[r] \in AnyRequest
    BY <1>2 DEF Authenticate, RequestsAreKnown
  <2>2. CallerOf(request[r]).tenant \in Tenants \cup {NoTenant}
    BY <2>1, TenantIsKnown
  <2>3. IssuedToUsers' /\ DOMAIN issued' = Requests
    BY <1>2 DEF Authenticate, authVars, IssuedToUsers, WellFormed
  <2>4. CASE CallerOf(request[r]).tenant = NoTenant
    <3>1. PICK step \in Routes(request[r], CallerOf(request[r])) : GoTo(r, step)
      BY <1>2, <2>4 DEF Authenticate
    <3>2. caller' = caller
      BY <1>2, <2>4 DEF Authenticate
    <3>3. step \in {"refused", "check", "revoke", "answered"} /\ (step = "check" => request[r] \in SignIns)
      BY <2>1, <3>1, OnlySignInsAreChecked
    <3>4. RequestsAreKnown'
      BY <2>1, <3>1, <3>2, <3>3, OthersStay
    <3>5. WellFormed'
      BY <2>3, <3>1, <3>2, <3>3, GoToEffect DEF WellFormed
    <3> QED BY <2>3, <3>4, <3>5
  <2>5. CASE CallerOf(request[r]).tenant # NoTenant
    <3>1. GoTo(r, "count") /\ caller' = [caller EXCEPT ![r] = CallerOf(request[r])]
      BY <1>2, <2>5 DEF Authenticate
    <3>2. caller'[r].tenant \in Tenants /\ \A s \in Requests \ {r} : caller'[s] = caller[s]
      BY <2>2, <2>5, <3>1 DEF WellFormed
    <3>3. RequestsAreKnown'
      BY <2>1, <3>1, <3>2, OthersStay
    <3>4. WellFormed'
      BY <2>3, <3>1, GoToEffect DEF WellFormed
    <3> QED BY <2>3, <3>3, <3>4
  <2> QED BY <2>4, <2>5
<1>3. ASSUME NEW r \in Requests, CountRequest(r)
      PROVE  AccessInv'
  <2>1. request[r] \in AnyRequest
    BY <1>3 DEF CountRequest, RequestsAreKnown
  <2>2. IssuedToUsers' /\ DOMAIN issued' = Requests
    BY <1>3 DEF CountRequest, authVars, IssuedToUsers, WellFormed
  <2>3. PICK step \in Routes(request[r], caller[r]) \cup {"refused"} : GoTo(r, step)
    BY <1>3 DEF CountRequest
  <2>4. caller' = [caller EXCEPT ![r] = NoCaller]
    BY <1>3 DEF CountRequest
  <2>5. step \in {"refused", "check", "revoke", "answered"} /\ (step = "check" => request[r] \in SignIns)
    BY <2>1, <2>3, OnlySignInsAreChecked
  <2>6. RequestsAreKnown'
    BY <2>1, <2>3, <2>4, <2>5, OthersStay DEF WellFormed
  <2>7. WellFormed'
    BY <2>2, <2>3, <2>4, <2>5, GoToEffect DEF WellFormed
  <2> QED BY <2>2, <2>6, <2>7
<1>4. ASSUME NEW r \in Requests, LoginLocked(r) \/ LoginCheck(r) \/ LoginConclude(r) \/ Logout(r)
      PROVE  AccessInv'
  <2>1. IssuedToUsers' /\ DOMAIN issued' = Requests /\ caller' = caller
    BY <1>4 DEF LoginLocked, LoginCheck, LoginConclude, Logout, RefuseLocked, Check, Conclude, Revoke,
                authVars, IssuedToUsers, WellFormed
  <2>2. PICK step \in {"refused", "hash", "issue", "answered", "error"} :
          GoTo(r, step) /\ (step \in {"hash", "issue"} => pc[r] \in {"check", "hash"})
    BY <1>4 DEF LoginLocked, LoginCheck, LoginConclude, Logout
  <2>3. step \in {"hash", "issue"} => request[r] \in SignIns
    BY <2>2 DEF RequestsAreKnown
  <2>4. RequestsAreKnown'
    BY <2>1, <2>2, <2>3, OthersStay
  <2>5. WellFormed'
    BY <2>1, <2>2, GoToEffect DEF WellFormed
  <2> QED BY <2>1, <2>4, <2>5
<1>5. ASSUME NEW r \in Requests, LoginIssue(r)
      PROVE  AccessInv'
  <2>1. request[r] \in SignIns /\ caller' = caller
    BY <1>5 DEF LoginIssue, RequestsAreKnown
  <2>2. request[r].user \in Users
    BY <2>1 DEF SignIns
  <2>3. PICK step \in {"answered", "error"} : GoTo(r, step)
    BY <1>5 DEF LoginIssue
  <2>4. IssuedToUsers' /\ DOMAIN issued' = Requests
    BY <1>5, <2>2 DEF LoginIssue, IssueSession, authVars, IssuedToUsers, WellFormed
  <2>5. RequestsAreKnown'
    BY <2>1, <2>3, OthersStay
  <2>6. WellFormed'
    BY <2>1, <2>3, <2>4, GoToEffect DEF WellFormed
  <2> QED BY <2>4, <2>5, <2>6
<1>6. CASE Restart
  <2>1. IssuedToUsers' /\ DOMAIN issued' = Requests
    BY <1>6 DEF Restart, AuthRestart, IssuedToUsers, WellFormed
  <2>2. \A r \in Requests : pc'[r] \in Ended \cup {"new"}
    BY <1>6 DEF Restart, Running, Ended
  <2>3. RequestsAreKnown'
    BY <2>2 DEF RequestsAreKnown, Ended
  <2>4. WellFormed'
    BY <1>6, <2>1 DEF Restart, WellFormed
  <2> QED BY <2>1, <2>3, <2>4
<1>7. CASE UNCHANGED <<rateVars, authVars, accessVars>>
  BY <1>7 DEF authVars, accessVars, WellFormed, IssuedToUsers, RequestsAreKnown
<1>8. CASE UNCHANGED vars
  BY <1>7, <1>8 DEF vars
<1> QED BY <1>1, <1>2, <1>3, <1>4, <1>5, <1>6, <1>7, <1>8 DEF Next, RequestStep

(* What a request does to the limiter is a step of the limiter.             *)
LEMMA AccessStepsAreRateSteps == AccessInv /\ [Next]_vars => [RateNext]_<<now, rateVars>>
<1> SUFFICES ASSUME AccessInv, [Next]_vars PROVE [RateNext]_<<now, rateVars>>
  OBVIOUS
<1>1. ASSUME NEW r \in Requests, Authenticate(r)
      PROVE  [RateNext]_<<now, rateVars>>
  BY <1>1 DEF Authenticate, RateNext
<1>2. ASSUME NEW r \in Requests, CountRequest(r)
      PROVE  [RateNext]_<<now, rateVars>>
  <2>1. caller[r].tenant \in Tenants
    BY <1>2 DEF CountRequest, AccessInv, RequestsAreKnown
  <2> QED BY <1>2, <2>1 DEF CountRequest, RateNext
<1>3. ASSUME NEW r \in Requests,
             LoginLocked(r) \/ LoginCheck(r) \/ LoginConclude(r) \/ LoginIssue(r) \/ Logout(r)
      PROVE  UNCHANGED <<now, rateVars>>
  BY <1>3 DEF LoginLocked, LoginCheck, LoginConclude, LoginIssue, Logout
<1>4. ASSUME NEW r \in Requests, NEW q, Arrive(r, q)
      PROVE  UNCHANGED <<now, rateVars>>
  BY <1>4 DEF Arrive
<1>5. CASE Restart
  BY <1>5 DEF Restart, RateNext
<1>6. CASE TimePasses /\ UNCHANGED <<rateVars, authVars, accessVars>>
  BY <1>6 DEF RateNext
<1>7. CASE UNCHANGED vars
  BY <1>7 DEF vars
<1> QED BY <1>1, <1>2, <1>3, <1>4, <1>5, <1>6, <1>7 DEF Next, RequestStep

(* Requests never leave their way.                                          *)
LEMMA AccessInvHolds == Spec => []AccessInv
BY AccessInitInv, AccessStep, PTL DEF Spec

(* The composition of sign-in, sign-out and work implements the rate        *)
(* limiter of its own: nobody else touches its entries.                     *)
THEOREM AccessLimitsRates == Spec => RateSpec
<1>1. Init => StartOfTime /\ RateInit
  BY DEF Init
<1> QED BY <1>1, AccessInvHolds, AccessStepsAreRateSteps, PTL DEF Spec, RateSpec

(* _rate_limit: no minute admits more than the limit of a tenant for every  *)
(* time the tenant's count started over.                                    *)
THEOREM RateIsLimited == Spec => []AdmittedWithinLimit
BY AccessLimitsRates, RateInvHolds, RateInvLimits, PTL

(* _rate_limit: nobody is refused in a minute that has not admitted the     *)
(* limit of his tenant.                                                     *)
THEOREM NobodyIsRefusedEarly == Spec => []NobodyRefusedEarly
<1>1. RateInv => NobodyRefusedEarly
  BY DEF RateInv
<1> QED BY <1>1, AccessLimitsRates, RateInvHolds, PTL

-----------------------------------------------------------------------------
(* Wrong passwords and the lock. *)

LockTypes ==
  /\ now \in Nat
  /\ failures \in [Users -> [attempts : Nat, until : Nat]]
  /\ checked \in [Attempts -> [user : Users \cup {Nobody}, attempts : Nat]]
  /\ wrong \in [Users -> [inRow : Nat, total : Nat, last : Nat]]

\* Every count, stored or in a thread's hands, was earned by wrong passwords,
\* and so was every lock.
CountsAreEarned ==
  /\ \A u \in Users : failures[u].attempts <= wrong[u].total
  /\ \A a \in Attempts, u \in Users :
       checked[a].user = u => checked[a].attempts <= wrong[u].total
  /\ \A u \in Users :
       failures[u].until # 0 =>
         wrong[u].total >= MaxFailed /\ failures[u].until <= wrong[u].last + Lockout

\* Where attempts did not overlap, a thread that hashes a password is the only
\* one and the count it read is still the stored one.
CountsAreExact ==
  \A u \in Users \ overlapped :
    /\ \A a, b \in Attempts : checked[a].user = u /\ checked[b].user = u => a = b
    /\ \A a \in Attempts : checked[a].user = u => checked[a].attempts = failures[u].attempts
    /\ failures[u].attempts = wrong[u].inRow
    /\ wrong[u].inRow >= MaxFailed => failures[u].until = wrong[u].last + Lockout

LockInv == LockTypes /\ CountsAreEarned /\ CountsAreExact

-----------------------------------------------------------------------------
(* Sessions and sign-out.                                                   *)

\* A token comes into being when its attempt ends, and is used after that.
TokensAreIssuedOnce ==
  /\ \A k \in Requests : issued[k] # NoToken => pc[k] \in Ended
  /\ \A r \in Requests :
       pc[r] \in {"authenticate", "count", "revoke"} /\ request[r].by.token \in Requests =>
         issued[request[r].by.token] # NoToken
  /\ \A k \in signedOut \cap Requests : issued[k] # NoToken

\* A token that was signed out is on the list, or its key is gone, for as long
\* as the list has not overflowed; what else was sent to sign-outs only fills it.
SignOutsAreKept ==
  /\ secret \in Nat
  /\ \A k \in Requests : issued[k].secret \in 0 .. secret
  /\ IsFiniteSet(signedOut) /\ revoked \subseteq signedOut
  /\ Cardinality(signedOut) <= RevokedLimit =>
       \A k \in signedOut \cap Requests : k \in revoked \/ issued[k].secret < secret

SessionInv == TokensAreIssuedOnce /\ SignOutsAreKept
-----------------------------------------------------------------------------
(* Counts and locks.                                                        *)

(* Before the first request nobody has failed.                              *)
LEMMA LockInitInv == Init => LockInv
BY AuthAssumption
   DEF Init, AuthInit, StartOfTime, LockInv, LockTypes, CountsAreEarned, CountsAreExact,
       NoFailures, NotChecked, NeverWrong

(* authenticate, first locked block: the thread takes the stored count.     *)
LEMMA CheckKeepsCounts ==
  ASSUME LockInv, NEW a \in Attempts, NEW u \in Users, Check(a, u), now' = now
  PROVE  LockInv'
<1> USE AuthAssumption DEF LockInv
<1>1. /\ failures' = failures /\ wrong' = wrong
      /\ checked' = [checked EXCEPT ![a] = [user |-> u, attempts |-> failures[u].attempts]]
      /\ overlapped' = IF Hashing(u) = {} THEN overlapped ELSE overlapped \cup {u}
  BY DEF Check
<1>2. LockTypes'
  BY <1>1 DEF LockTypes
<1>3. CountsAreEarned'
  BY <1>1 DEF CountsAreEarned, LockTypes
<1>4. ASSUME NEW v \in Users \ overlapped'
      PROVE  /\ \A b, c \in Attempts : checked'[b].user = v /\ checked'[c].user = v => b = c
             /\ \A b \in Attempts : checked'[b].user = v => checked'[b].attempts = failures[v].attempts
  <2>1. v \in Users \ overlapped
    BY <1>1, <1>4
  <2>2. \A b \in Attempts \ {a} : checked'[b] = checked[b]
    BY <1>1 DEF LockTypes
  <2>3. checked'[a] = [user |-> u, attempts |-> failures[u].attempts]
    BY <1>1 DEF LockTypes
  <2>4. CASE v = u
    <3>1. \A b \in Attempts : checked[b].user # u
      BY <1>1, <1>4, <2>4 DEF Hashing
    <3> QED BY <2>2, <2>3, <2>4, <3>1
  <2>5. CASE v # u
    BY <2>1, <2>2, <2>3, <2>5 DEF CountsAreExact
  <2> QED BY <2>4, <2>5
<1>5. CountsAreExact'
  BY <1>1, <1>4 DEF CountsAreExact
<1> QED BY <1>2, <1>3, <1>5

(* authenticate, second locked block: the count that was read, and one, is  *)
(* written, or the count is forgotten.                                      *)
LEMMA ConcludeKeepsCounts ==
  ASSUME LockInv, NEW a \in Attempts, NEW ok \in BOOLEAN, Conclude(a, ok), now' = now
  PROVE  LockInv'
<1> USE AuthAssumption DEF LockInv
<1> DEFINE u == checked[a].user
           one == checked[a].attempts + 1
           entry == IF ok THEN NoFailures ELSE Failed(one)
           tally == IF ok THEN [wrong[u] EXCEPT !.inRow = 0]
                    ELSE [inRow |-> wrong[u].inRow + 1, total |-> wrong[u].total + 1, last |-> now]
<1>1. /\ u \in Users
      /\ failures' = [failures EXCEPT ![u] = entry]
      /\ wrong' = [wrong EXCEPT ![u] = tally]
      /\ checked' = [checked EXCEPT ![a] = NotChecked]
      /\ overlapped' = overlapped
  BY DEF Conclude, LockTypes
<1>2. one \in Nat \ {0} /\ now \in Nat /\ wrong[u] \in [inRow : Nat, total : Nat, last : Nat]
  BY <1>1 DEF LockTypes
<1>3. /\ entry \in [attempts : Nat, until : Nat]
      /\ tally \in [inRow : Nat, total : Nat, last : Nat]
  BY <1>2 DEF NoFailures, Failed
<1> HIDE DEF entry, tally
<1>4. LockTypes'
  BY <1>1, <1>3 DEF LockTypes, NotChecked
<1>5. /\ failures'[u] = entry /\ wrong'[u] = tally
      /\ \A v \in Users \ {u} : failures'[v] = failures[v] /\ wrong'[v] = wrong[v]
      /\ checked'[a] = NotChecked
      /\ \A b \in Attempts \ {a} : checked'[b] = checked[b]
  BY <1>1 DEF LockTypes
<1>6. tally.total >= wrong[u].total
  BY <1>2 DEF tally
<1>7. /\ entry.attempts <= tally.total
      /\ entry.until # 0 => tally.total >= MaxFailed /\ entry.until <= tally.last + Lockout
  <2>1. checked[a].attempts <= wrong[u].total
    BY <1>1 DEF CountsAreEarned
  <2>2. CASE ok
    BY <1>2, <2>2 DEF entry, tally, NoFailures
  <2>3. CASE ~ok
    <3>1. entry.attempts = one /\ tally.total = wrong[u].total + 1 /\ tally.last = now
      BY <2>3 DEF entry, tally, Failed
    <3>2. entry.until = IF one >= MaxFailed THEN now + Lockout ELSE 0
      BY <2>3 DEF entry, Failed
    <3> QED BY <1>2, <2>1, <3>1, <3>2 DEF LockTypes
  <2> QED BY <2>2, <2>3
<1>8. CountsAreEarned'
  <2>1. \A v \in Users : failures'[v].attempts <= wrong'[v].total
    BY <1>5, <1>7 DEF CountsAreEarned
  <2>2. ASSUME NEW b \in Attempts, NEW v \in Users, checked'[b].user = v
        PROVE  checked'[b].attempts <= wrong'[v].total
    <3>1. b # a
      BY <1>5, <2>2 DEF NotChecked
    <3>2. checked[b].attempts <= wrong[v].total /\ checked'[b] = checked[b]
      BY <1>5, <2>2, <3>1 DEF CountsAreEarned
    <3>3. CASE v = u
      BY <1>2, <1>3, <1>5, <1>6, <3>2, <3>3 DEF LockTypes
    <3>4. CASE v # u
      BY <1>5, <3>2, <3>4
    <3> QED BY <3>3, <3>4
  <2>3. \A v \in Users : failures'[v].until # 0 =>
          wrong'[v].total >= MaxFailed /\ failures'[v].until <= wrong'[v].last + Lockout
    BY <1>5, <1>7 DEF CountsAreEarned
  <2> QED BY <2>1, <2>2, <2>3 DEF CountsAreEarned
<1>9. ASSUME u \notin overlapped
      PROVE  /\ entry.attempts = tally.inRow
             /\ tally.inRow >= MaxFailed => entry.until = tally.last + Lockout
             /\ \A b \in Attempts : checked'[b].user # u
  <2>1. checked[a].attempts = failures[u].attempts /\ failures[u].attempts = wrong[u].inRow
    BY <1>1, <1>9 DEF CountsAreExact
  <2>2. \A b \in Attempts : checked'[b].user # u
    BY <1>1, <1>5, <1>9 DEF CountsAreExact, NotChecked
  <2>3. CASE ok
    BY <1>2, <2>2, <2>3 DEF entry, tally, NoFailures
  <2>4. CASE ~ok
    BY <1>2, <2>1, <2>2, <2>4 DEF entry, tally, Failed
  <2> QED BY <2>3, <2>4
<1>10. CountsAreExact'
  <2>1. ASSUME NEW v \in Users \ overlapped, v # u
        PROVE  /\ \A b, c \in Attempts : checked'[b].user = v /\ checked'[c].user = v => b = c
               /\ \A b \in Attempts : checked'[b].user = v => checked'[b].attempts = failures'[v].attempts
               /\ failures'[v].attempts = wrong'[v].inRow
               /\ wrong'[v].inRow >= MaxFailed => failures'[v].until = wrong'[v].last + Lockout
    BY <1>5, <2>1 DEF CountsAreExact, NotChecked
  <2> QED BY <1>1, <1>5, <1>9, <2>1 DEF CountsAreExact
<1> QED BY <1>4, <1>8, <1>10

(* A restart forgets the failures, the attempts under way and the row of    *)
(* wrong passwords, and no more.                                            *)
LEMMA RestartKeepsCounts ==
  ASSUME LockInv, AuthRestart, now' = now
  PROVE  LockInv'
<1> USE AuthAssumption DEF LockInv
<1>1. /\ failures' = [u \in Users |-> NoFailures]
      /\ checked' = [a \in Attempts |-> NotChecked]
      /\ wrong' = [u \in Users |-> [wrong[u] EXCEPT !.inRow = 0]]
      /\ overlapped' = overlapped
  BY DEF AuthRestart
<1>2. \A u \in Users : /\ wrong'[u] \in [inRow : Nat, total : Nat, last : Nat]
                       /\ wrong'[u].inRow = 0 /\ wrong'[u].total = wrong[u].total
  BY <1>1 DEF LockTypes
<1>3. LockTypes'
  BY <1>1, <1>2 DEF LockTypes, NoFailures, NotChecked
<1>4. CountsAreEarned'
  BY <1>1, <1>2, <1>3 DEF CountsAreEarned, NoFailures, NotChecked, LockTypes
<1>5. CountsAreExact'
  BY <1>1, <1>2 DEF CountsAreExact, NoFailures, NotChecked
<1> QED BY <1>3, <1>4, <1>5

(* A step that leaves the counts alone keeps what is known of them.         *)
LEMMA CountsUntouched ==
  ASSUME LockInv, UNCHANGED <<failures, checked, wrong, overlapped>>, now' \in {now, now + 1}
  PROVE  LockInv'
BY DEF LockInv, LockTypes, CountsAreEarned, CountsAreExact

(* authenticate: every step of every request keeps counts and locks in      *)
(* agreement with the passwords that were given.                            *)
LEMMA LockStep == AccessInv /\ LockInv /\ [Next]_vars => LockInv'
<1> SUFFICES ASSUME AccessInv, LockInv, [Next]_vars PROVE LockInv'
  OBVIOUS
<1>1. ASSUME NEW r \in Requests, LoginCheck(r)
      PROVE  LockInv'
  <2>1. request[r] \in SignIns
    BY <1>1 DEF LoginCheck, AccessInv, RequestsAreKnown
  <2>2. request[r].user \in Users
    BY <2>1 DEF SignIns
  <2>3. Check(r, request[r].user) /\ now' = now
    BY <1>1 DEF LoginCheck
  <2> QED BY <2>2, <2>3, CheckKeepsCounts, AccessAssumption
<1>2. ASSUME NEW r \in Requests, LoginConclude(r)
      PROVE  LockInv'
  <2>1. request[r] \in SignIns
    BY <1>2 DEF LoginConclude, AccessInv, RequestsAreKnown
  <2>2. request[r].ok \in BOOLEAN
    BY <2>1 DEF SignIns
  <2>3. Conclude(r, request[r].ok) /\ now' = now
    BY <1>2 DEF LoginConclude
  <2> QED BY <2>2, <2>3, ConcludeKeepsCounts, AccessAssumption
<1>3. ASSUME NEW r \in Requests,
             Authenticate(r) \/ CountRequest(r) \/ LoginLocked(r) \/ LoginIssue(r) \/ Logout(r)
      PROVE  LockInv'
  <2>1. UNCHANGED <<failures, checked, wrong, overlapped>> /\ now' = now
    BY <1>3 DEF Authenticate, CountRequest, LoginLocked, LoginIssue, Logout, RefuseLocked, IssueSession,
                Revoke, authVars
  <2> QED BY <2>1, CountsUntouched
<1>4. ASSUME NEW r \in Requests, NEW q, Arrive(r, q)
      PROVE  LockInv'
  <2>1. UNCHANGED <<failures, checked, wrong, overlapped>> /\ now' = now
    BY <1>4 DEF Arrive, authVars
  <2> QED BY <2>1, CountsUntouched
<1>5. CASE Restart
  BY <1>5, RestartKeepsCounts DEF Restart
<1>6. CASE TimePasses /\ UNCHANGED <<rateVars, authVars, accessVars>>
  <2>1. UNCHANGED <<failures, checked, wrong, overlapped>> /\ now' = now + 1
    BY <1>6 DEF TimePasses, authVars
  <2> QED BY <2>1, CountsUntouched
<1>7. CASE UNCHANGED vars
  <2>1. UNCHANGED <<failures, checked, wrong, overlapped>> /\ now' = now
    BY <1>7 DEF vars, authVars
  <2> QED BY <2>1, CountsUntouched
<1> QED BY <1>1, <1>2, <1>3, <1>4, <1>5, <1>6, <1>7 DEF Next, RequestStep

(* The counts stay in agreement for ever.                                   *)
LEMMA LockInvHolds == Spec => []LockInv
<1>1. Init => LockInv
  BY LockInitInv
<1> QED BY <1>1, AccessInvHolds, LockStep, PTL DEF Spec

(* core/auth.py, lines 47-48: where attempts do not overlap, each wrong     *)
(* password is counted, and the MaxFailed-th in a row closes the account    *)
(* for Lockout minutes.                                                     *)
THEOREM WrongPasswordsDoLock == Spec => []WrongPasswordsLock
<1>1. LockInv => WrongPasswordsLock
  <2> SUFFICES ASSUME LockInv, NEW u \in Users \ overlapped
               PROVE  /\ failures[u].attempts = wrong[u].inRow
                      /\ wrong[u].inRow >= MaxFailed => (Locked(u) <=> now < wrong[u].last + Lockout)
    BY DEF WrongPasswordsLock
  <2> QED BY AuthAssumption DEF LockInv, LockTypes, CountsAreExact, Locked
<1> QED BY <1>1, LockInvHolds, PTL

(* authenticate: however attempts overlap and the process is restarted,     *)
(* nobody is locked out without MaxFailed wrong passwords, or for longer    *)
(* than Lockout minutes after the last one.                                 *)
THEOREM LockoutsAreProvoked == Spec => []LockoutIsProvoked
<1>1. LockInv => LockoutIsProvoked
  <2> SUFFICES ASSUME LockInv, NEW u \in Users, Locked(u)
               PROVE  wrong[u].total >= MaxFailed /\ failures[u].until <= wrong[u].last + Lockout
    BY DEF LockoutIsProvoked
  <2>1. failures[u].until # 0
    BY DEF LockInv, LockTypes, Locked
  <2> QED BY <2>1 DEF LockInv, CountsAreEarned
<1> QED BY <1>1, LockInvHolds, PTL

-----------------------------------------------------------------------------
(* Tokens.                                                                  *)

(* Before the first sign-in there is no token.                              *)
LEMMA SessionInitInv == Init => SessionInv
<1> SUFFICES ASSUME Init PROVE SessionInv
  OBVIOUS
<1>1. /\ issued = [a \in Requests |-> NoToken] /\ revoked = {} /\ signedOut = {} /\ secret = 0
      /\ pc = [r \in Requests |-> "new"] /\ request = [r \in Requests |-> NoRequest]
  BY AccessAssumption DEF Init, AuthInit
<1>2. TokensAreIssuedOnce
  BY <1>1 DEF TokensAreIssuedOnce
<1>3. SignOutsAreKept
  BY <1>1, FS_EmptySet DEF SignOutsAreKept, NoToken
<1> QED BY <1>2, <1>3 DEF SessionInv

(* Dispatch ends a request, or leads it to the password check or to the     *)
(* revocation.                                                              *)
LEMMA OnwardOrEnded ==
  ASSUME NEW q, NEW who, NEW step \in Routes(q, who)
  PROVE  step \in Ended \cup {"check", "revoke"}
BY DEF Routes, Ended

(* A step of a request that issues nothing keeps what is known of tokens:   *)
(* an attempt that has ended stays ended, and its token is there to use.    *)
LEMMA TokensStay ==
  ASSUME AccessInv, TokensAreIssuedOnce, NEW r \in Requests, NEW step, GoTo(r, step),
         pc[r] \notin Ended, issued' = issued, signedOut' = signedOut,
         step \in {"authenticate", "count", "revoke"} => pc[r] \in {"authenticate", "count", "revoke"}
  PROVE  TokensAreIssuedOnce'
<1>1. /\ pc'[r] = step
      /\ step \notin Ended => request'[r] = request[r]
      /\ \A s \in Requests \ {r} : pc'[s] = pc[s] /\ request'[s] = request[s]
  BY GoToEffect DEF AccessInv
<1>2. \A k \in Requests : issued'[k] # NoToken => pc'[k] \in Ended
  BY <1>1 DEF TokensAreIssuedOnce
<1>3. ASSUME NEW s \in Requests
      PROVE  pc'[s] \in {"authenticate", "count", "revoke"} /\ request'[s].by.token \in Requests =>
               issued'[request'[s].by.token] # NoToken
  <2>1. CASE s = r
    BY <1>1, <2>1 DEF TokensAreIssuedOnce, Ended
  <2>2. CASE s # r
    BY <1>1, <2>2 DEF TokensAreIssuedOnce
  <2> QED BY <2>1, <2>2
<1>4. \A k \in signedOut' \cap Requests : issued'[k] # NoToken
  BY DEF TokensAreIssuedOnce
<1> QED BY <1>2, <1>3, <1>4 DEF TokensAreIssuedOnce

(* revoke: the string, token or not, is on the list that is kept, or the    *)
(* list has passed its limit.                                               *)
LEMMA RevokeKeepsSignOuts ==
  ASSUME SignOutsAreKept, NEW k, Revoke(k), k \in Requests => issued[k].secret \in 0 .. secret
  PROVE  SignOutsAreKept'
<1> USE DEF SignOutsAreKept
<1>1. /\ revoked' = Revoked(k) /\ signedOut' = signedOut \cup {k}
      /\ issued' = issued /\ secret' = secret
  BY DEF Revoke
<1>2. IsFiniteSet(signedOut')
  BY <1>1, FS_AddElement
<1>3. IsFiniteSet(revoked \cup {k}) /\ revoked \cup {k} \subseteq signedOut'
  BY <1>1, <1>2, FS_Subset
<1>4. /\ Cardinality(revoked \cup {k}) \in Nat /\ Cardinality(signedOut) \in Nat
      /\ Cardinality(signedOut') \in Nat
      /\ Cardinality(revoked \cup {k}) <= Cardinality(signedOut')
      /\ Cardinality(signedOut) <= Cardinality(signedOut')
  BY <1>1, <1>2, <1>3, FS_Subset, FS_CardinalityType
<1>5. revoked' \subseteq signedOut'
  BY <1>1, <1>3 DEF Revoked
<1>6. ASSUME Cardinality(signedOut') <= RevokedLimit, NEW j \in signedOut' \cap Requests
      PROVE  j \in revoked' \/ issued'[j].secret < secret'
  <2>1. Cardinality(revoked \cup {k}) <= RevokedLimit /\ Cardinality(signedOut) <= RevokedLimit
    BY <1>4, <1>6, AuthAssumption
  <2>2. revoked' = revoked \cup {k}
    BY <1>1, <1>4, <2>1, AuthAssumption DEF Revoked
  <2> QED BY <1>1, <2>1, <2>2
<1> QED BY <1>1, <1>2, <1>5, <1>6

(* issue_session: the new token is none that was signed out.                *)
LEMMA IssueKeepsSignOuts ==
  ASSUME SignOutsAreKept, WellFormed, NEW a \in Requests, NEW u, IssueSession(a, u), a \notin signedOut
  PROVE  SignOutsAreKept'
<1>1. /\ issued' = [issued EXCEPT ![a] = [user |-> u, expires |-> now + SessionTtl, secret |-> secret]]
      /\ revoked' = revoked /\ signedOut' = signedOut /\ secret' = secret
  BY DEF IssueSession
<1>2. issued'[a].secret = secret /\ \A k \in Requests \ {a} : issued'[k] = issued[k]
  BY <1>1 DEF WellFormed
<1>3. \A k \in Requests : issued'[k].secret \in 0 .. secret'
  BY <1>1, <1>2 DEF SignOutsAreKept
<1>4. revoked' \subseteq signedOut' /\ IsFiniteSet(signedOut')
  BY <1>1 DEF SignOutsAreKept
<1>5. ASSUME Cardinality(signedOut') <= RevokedLimit, NEW k \in signedOut' \cap Requests
      PROVE  k \in revoked' \/ issued'[k].secret < secret'
  <2>1. k # a /\ issued'[k] = issued[k]
    BY <1>1
  <2> QED BY <1>1, <1>5, <2>1 DEF SignOutsAreKept
<1> QED BY <1>1, <1>3, <1>4, <1>5 DEF SignOutsAreKept

(* A restart: with a new key every token that was issued is of an old one,  *)
(* with the same key the sign-outs of the process are not claimed any more. *)
LEMMA RestartKeepsSignOuts ==
  ASSUME SignOutsAreKept, AuthRestart
  PROVE  SignOutsAreKept'
<1>1. issued' = issued /\ revoked' = {}
  BY DEF AuthRestart
<1>2. CASE secret' = secret + 1 /\ signedOut' = signedOut
  <2>1. \A k \in Requests : issued'[k].secret \in 0 .. secret' /\ issued'[k].secret < secret'
    BY <1>1, <1>2 DEF SignOutsAreKept
  <2> QED BY <1>1, <1>2, <2>1 DEF SignOutsAreKept
<1>3. CASE secret' = secret /\ signedOut' = {}
  BY <1>1, <1>3, FS_EmptySet DEF SignOutsAreKept
<1> QED BY <1>2, <1>3 DEF AuthRestart

(* Nobody else touches keys, tokens, the list or what it should hold.       *)
LEMMA SignOutsUntouched ==
  ASSUME SignOutsAreKept, UNCHANGED <<issued, revoked, secret, signedOut>>
  PROVE  SignOutsAreKept'
BY DEF SignOutsAreKept

(* login, logout and the requests between them: every token that was signed *)
(* out is kept in mind, up to the limit of the list.                        *)
LEMMA SessionStep == AccessInv /\ SessionInv /\ [Next]_vars => SessionInv'
<1> SUFFICES ASSUME AccessInv, SessionInv, [Next]_vars PROVE SessionInv'
  OBVIOUS
<1> USE DEF SessionInv
<1>1. ASSUME NEW r \in Requests, NEW q \in Asked, Arrive(r, q)
      PROVE  SessionInv'
  <2>1. /\ pc[r] = "new" /\ pc' = [pc EXCEPT ![r] = "authenticate"]
        /\ request' = [request EXCEPT ![r] = q]
        /\ UNCHANGED <<issued, revoked, secret, signedOut>>
        /\ q.by.token \in Requests => issued[q.by.token] # NoToken
    BY <1>1 DEF Arrive, authVars
  <2>2. /\ pc'[r] = "authenticate" /\ request'[r] = q
        /\ \A s \in Requests \ {r} : pc'[s] = pc[s] /\ request'[s] = request[s]
    BY <2>1 DEF AccessInv, WellFormed
  <2>4. \A k \in Requests : issued'[k] # NoToken => pc'[k] \in Ended
    BY <2>1, <2>2 DEF TokensAreIssuedOnce, Ended
  <2>5. ASSUME NEW s \in Requests
        PROVE  pc'[s] \in {"authenticate", "count", "revoke"} /\ request'[s].by.token \in Requests =>
                 issued'[request'[s].by.token] # NoToken
    <3>1. CASE s = r
      BY <2>1, <2>2, <3>1
    <3>2. CASE s # r
      BY <2>1, <2>2, <3>2 DEF TokensAreIssuedOnce
    <3> QED BY <3>1, <3>2
  <2>6. TokensAreIssuedOnce'
    BY <2>1, <2>4, <2>5 DEF TokensAreIssuedOnce
  <2> QED BY <2>1, <2>6, SignOutsUntouched
<1>2. ASSUME NEW r \in Requests, Authenticate(r) \/ CountRequest(r)
      PROVE  SessionInv'
  <2>1. /\ pc[r] \in {"authenticate", "count"} /\ pc[r] \notin Ended /\ request[r] \in AnyRequest
        /\ UNCHANGED <<issued, revoked, secret, signedOut>>
    BY <1>2 DEF Authenticate, CountRequest, authVars, Ended, AccessInv, RequestsAreKnown
  <2>2. PICK step \in {"count", "refused"} \cup Routes(request[r], CallerOf(request[r]))
                        \cup Routes(request[r], caller[r]) : GoTo(r, step)
    BY <1>2 DEF Authenticate, CountRequest
  <2>3. step \in Ended \cup {"check", "revoke", "count"}
    BY <2>2, OnwardOrEnded DEF Ended
  <2>4. TokensAreIssuedOnce'
    BY <2>1, <2>2, TokensStay
  <2> QED BY <2>1, <2>4, SignOutsUntouched
<1>3. ASSUME NEW r \in Requests, LoginLocked(r) \/ LoginCheck(r) \/ LoginConclude(r)
      PROVE  SessionInv'
  <2>1. pc[r] \notin Ended /\ UNCHANGED <<issued, revoked, secret, signedOut>>
    BY <1>3 DEF LoginLocked, LoginCheck, LoginConclude, RefuseLocked, Check, Conclude, authVars, Ended
  <2>2. PICK step \in {"refused", "hash", "issue"} : GoTo(r, step)
    BY <1>3 DEF LoginLocked, LoginCheck, LoginConclude
  <2>3. TokensAreIssuedOnce'
    BY <2>1, <2>2, TokensStay
  <2> QED BY <2>1, <2>3, SignOutsUntouched
<1>4. ASSUME NEW r \in Requests, LoginIssue(r)
      PROVE  SessionInv'
  <2>1. pc[r] = "issue" /\ pc[r] \notin Ended /\ issued[r] = NoToken /\ r \notin signedOut
    BY <1>4 DEF LoginIssue, Ended, TokensAreIssuedOnce
  <2>2. CASE UNCHANGED authVars /\ GoTo(r, "error")
    BY <2>1, <2>2, TokensStay, SignOutsUntouched DEF authVars
  <2>3. CASE IssueSession(r, request[r].user) /\ GoTo(r, "answered")
    <3>1. SignOutsAreKept'
      BY <2>1, <2>3, IssueKeepsSignOuts DEF AccessInv
    <3>2. request[r] \in SignIns
      BY <2>1 DEF AccessInv, RequestsAreKnown
    <3>3. request[r].user \in Users
      BY <3>2 DEF SignIns
    <3>4. issued'[r] # NoToken /\ signedOut' = signedOut
          /\ \A k \in Requests \ {r} : issued'[k] = issued[k]
      BY <2>3, <3>3, AuthAssumption DEF IssueSession, AccessInv, WellFormed, NoToken
    <3>5. /\ pc'[r] = "answered"
          /\ \A s \in Requests \ {r} : pc'[s] = pc[s] /\ request'[s] = request[s]
      BY <2>3, GoToEffect DEF AccessInv
    <3>6. \A k \in Requests : issued[k] # NoToken => issued'[k] # NoToken
      BY <3>4
    <3>7. \A k \in Requests : issued'[k] # NoToken => pc'[k] \in Ended
      BY <3>4, <3>5 DEF TokensAreIssuedOnce, Ended
    <3>8. TokensAreIssuedOnce'
      BY <3>4, <3>5, <3>6, <3>7 DEF TokensAreIssuedOnce
    <3> QED BY <3>1, <3>8
  <2> QED BY <1>4, <2>2, <2>3 DEF LoginIssue
<1>5. ASSUME NEW r \in Requests, Logout(r)
      PROVE  SessionInv'
  <2>1. PICK step \in {"answered", "error"} : GoTo(r, step)
    BY <1>5 DEF Logout
  <2>2. pc[r] = "revoke" /\ pc[r] \notin Ended /\ step \in Ended
    BY <1>5 DEF Logout, Ended
  <2>3. CASE ~HasToken(request[r])
    <3>1. UNCHANGED <<issued, revoked, secret, signedOut>>
      BY <1>5, <2>3 DEF Logout, authVars
    <3>2. TokensAreIssuedOnce'
      BY <2>1, <2>2, <3>1, TokensStay DEF Ended
    <3> QED BY <3>1, <3>2, SignOutsUntouched
  <2>4. CASE HasToken(request[r])
    <3> DEFINE k == request[r].by.token
    <3>1. Revoke(k) /\ (k \in Requests => issued[k] # NoToken)
      BY <1>5, <2>2, <2>4 DEF Logout, TokensAreIssuedOnce
    <3>2. SignOutsAreKept'
      BY <3>1, RevokeKeepsSignOuts DEF SignOutsAreKept
    <3>3. signedOut' = signedOut \cup {k} /\ issued' = issued
      BY <3>1 DEF Revoke
    <3>4. /\ pc'[r] \in Ended
          /\ \A s \in Requests \ {r} : pc'[s] = pc[s] /\ request'[s] = request[s]
      BY <2>1, <2>2, GoToEffect DEF AccessInv
    <3>5. TokensAreIssuedOnce'
      BY <3>1, <3>3, <3>4 DEF TokensAreIssuedOnce, Ended
    <3> QED BY <3>2, <3>5
  <2> QED BY <2>3, <2>4
<1>6. CASE Restart
  <2>1. AuthRestart /\ issued' = issued /\ signedOut' \subseteq signedOut
    BY <1>6 DEF Restart, AuthRestart
  <2>2. \A r \in Requests : pc'[r] \in Ended \cup {"new"} /\ (pc[r] \in Ended => pc'[r] \in Ended)
    BY <1>6 DEF Restart, Running, Ended
  <2>3. TokensAreIssuedOnce'
    BY <2>1, <2>2 DEF TokensAreIssuedOnce, Ended
  <2> QED BY <2>1, <2>3, RestartKeepsSignOuts
<1>7. CASE UNCHANGED <<authVars, accessVars>>
  <2>1. TokensAreIssuedOnce'
    BY <1>7 DEF authVars, accessVars, TokensAreIssuedOnce
  <2> QED BY <1>7, <2>1, SignOutsUntouched DEF authVars
<1>8. CASE UNCHANGED vars
  BY <1>7, <1>8 DEF vars
<1> QED BY <1>1, <1>2, <1>3, <1>4, <1>5, <1>6, <1>7, <1>8 DEF Next, RequestStep

(* The bookkeeping of tokens holds for ever.                                *)
LEMMA SessionInvHolds == Spec => []SessionInv
BY SessionInitInv, AccessInvHolds, SessionStep, PTL DEF Spec

(* validate_session: what opens a session was issued under the present key  *)
(* and is not on the list.                                                  *)
LEMMA WhoPassesIsNotRevoked ==
  ASSUME NEW k, Principal(k) # Nobody
  PROVE  k \in Requests /\ k \notin revoked /\ issued[k].secret = secret
BY AccessAssumption DEF Principal

(* Api.handle: the way from authentication to the count is Authenticate,    *)
(* and leads the caller it has found.                                       *)
LEMMA OnlyAuthenticatedAreCounted ==
  ASSUME AccessInv, Next, NEW r \in Requests, pc[r] = "authenticate", pc'[r] = "count"
  PROVE  caller'[r] = CallerOf(request[r])
<1>1. ASSUME NEW s \in Requests, NEW q, Arrive(s, q)
      PROVE  FALSE
  BY <1>1 DEF Arrive, AccessInv, WellFormed
<1>2. ASSUME NEW s \in Requests, RequestStep(s)
      PROVE  Authenticate(r)
  <2>1. \E step : GoTo(s, step)
    BY <1>2 DEF RequestStep, Authenticate, CountRequest, LoginLocked, LoginCheck, LoginConclude,
                LoginIssue, Logout
  <2>2. s = r
    BY <2>1, GoToEffect DEF AccessInv
  <2> QED BY <1>2, <2>2 DEF RequestStep, CountRequest, LoginLocked, LoginCheck, LoginConclude, LoginIssue,
                            Logout
<1>3. ASSUME Restart
      PROVE  FALSE
  BY <1>3 DEF Restart, Running, Ended
<1>4. ASSUME TimePasses /\ UNCHANGED <<rateVars, authVars, accessVars>>
      PROVE  FALSE
  BY <1>4 DEF accessVars
<1>5. Authenticate(r)
  BY <1>1, <1>2, <1>3, <1>4 DEF Next
<1>6. ASSUME CallerOf(request[r]).tenant = NoTenant
      PROVE  FALSE
  <2>1. PICK step \in Routes(request[r], CallerOf(request[r])) : GoTo(r, step)
    BY <1>5, <1>6 DEF Authenticate
  <2>2. step = "count"
    BY <2>1, GoToEffect DEF AccessInv
  <2> QED BY <2>1, <2>2, OnwardOrEnded DEF Ended
<1>7. caller' = [caller EXCEPT ![r] = CallerOf(request[r])]
  BY <1>5, <1>6 DEF Authenticate
<1> QED BY <1>7 DEF AccessInv, WellFormed

(* api/server.py, logout: however requests, restarts and other sign-outs    *)
(* interleave, and whatever strings API clients send to sign-outs, who      *)
(* signed out is not let in again by his token, unless more strings than    *)
(* the list holds were sent or a restart with the same key has forgotten it.*)
THEOREM SignedOutNeverReturns == Spec => SignedOutStaysOut
<1> DEFINE Kept == \A r \in Requests :
       pc[r] = "authenticate" /\ pc'[r] = "count" /\ caller'[r].user # Nobody
         => request[r].by.token \notin signedOut \/ Cardinality(signedOut) > RevokedLimit
<1>1. AccessInv /\ SessionInv /\ [Next]_vars => [Kept]_vars
  <2> SUFFICES ASSUME AccessInv, SessionInv, Next, NEW r \in Requests,
                      pc[r] = "authenticate", pc'[r] = "count", caller'[r].user # Nobody,
                      request[r].by.token \in signedOut
               PROVE  Cardinality(signedOut) > RevokedLimit
    OBVIOUS
  <2> DEFINE k == request[r].by.token
  <2>1. Principal(k) # Nobody
    <3>1. caller'[r] = CallerOf(request[r])
      BY OnlyAuthenticatedAreCounted
    <3> QED BY <3>1 DEF CallerOf
  <2>2. k \in Requests /\ k \notin revoked /\ issued[k].secret = secret
    BY <2>1, WhoPassesIsNotRevoked
  <2>3. ~(k \in revoked \/ issued[k].secret < secret)
    BY <2>2 DEF SessionInv, SignOutsAreKept
  <2>4. ~(Cardinality(signedOut) <= RevokedLimit)
    BY <2>2, <2>3 DEF SessionInv, SignOutsAreKept
  <2>5. Cardinality(signedOut) \in Nat
    BY FS_CardinalityType DEF SessionInv, SignOutsAreKept
  <2> QED BY <2>4, <2>5, AuthAssumption
<1>2. Spec => [][Kept]_vars
  BY <1>1, AccessInvHolds, SessionInvHolds, PTL DEF Spec
<1> QED BY <1>2 DEF SignedOutStaysOut

=============================================================================
