--------------------------- MODULE ConnectorProofs ---------------------------
(***************************************************************************)
(* Proofs about Connector and ConnectorLoad, for any number of callers and *)
(* any threshold, number of attempts and cooldown.                         *)
(***************************************************************************)
EXTENDS ConnectorLoad, TLAPS

(* A caller that pauses before a retry has an attempt left.                 *)
AttemptsLeft == \A c \in Callers : pc[c] = "backoff" => attempt[c] < Attempts

(* The inductive invariant of the connector.                                *)
BreakerInv == TypeOK /\ BreakerConsistent /\ AttemptsLeft

(* A new connector is CLOSED with no failure counted.                       *)
LEMMA InitEstablishesBreakerInv == Init => BreakerInv
  BY ConnectorAssumption
  DEF Init, BreakerInv, TypeOK, BreakerConsistent, AttemptsLeft, States

(* Every step of the connector keeps its variables in their types and its   *)
(* count of failures in agreement with the circuit's state.                 *)
LEMMA BreakerStep == BreakerInv /\ [Next]_vars => BreakerInv'
<1> SUFFICES ASSUME BreakerInv, [Next]_vars PROVE BreakerInv'
  OBVIOUS
<1> USE ConnectorAssumption DEF BreakerInv, TypeOK, BreakerConsistent, AttemptsLeft, States
<1>1. ASSUME NEW c \in Callers, Enter(c) PROVE BreakerInv'
  BY <1>1 DEF Enter, ReadState, Current, CooledDown, Send
<1>2. ASSUME NEW c \in Callers, CallerStep(c) PROVE BreakerInv'
  <2>1. CASE AttemptOk(c)
    BY <2>1 DEF AttemptOk, breaker
  <2>2. CASE AttemptFails(c)
    BY <2>2 DEF AttemptFails, breaker
  <2>3. CASE Retry(c)
    BY <2>3 DEF Retry, Send, breaker
  <2>4. CASE Succeed(c)
    BY <2>4 DEF Succeed, record_success
  <2>5. CASE Fail(c)
    BY <2>5 DEF Fail, record_failure
  <2>6. CASE Report(c)
    BY <2>6 DEF Report, ReadState, Current, CooledDown
  <2> QED
    BY <1>2, <2>1, <2>2, <2>3, <2>4, <2>5, <2>6 DEF CallerStep
<1>3. CASE Poll
  BY <1>3 DEF Poll, ReadState, Current, CooledDown, callers
<1>4. CASE Reset
  BY <1>4 DEF Reset, callers
<1>5. CASE Tick
  BY <1>5 DEF Tick, callers
<1>6. CASE PartnerChanges
  BY <1>6 DEF PartnerChanges, breaker, callers
<1>7. CASE UNCHANGED vars
  BY <1>7 DEF vars
<1> QED
  BY <1>1, <1>2, <1>3, <1>4, <1>5, <1>6, <1>7 DEF Next

(* The inductive invariant holds in every state of the connector.           *)
LEMMA BreakerInvHolds == Spec => []BreakerInv
  BY InitEstablishesBreakerInv, BreakerStep, PTL DEF Spec

(* The variables of the connector keep their types.                         *)
THEOREM ConnectorTypes == Spec => []TypeOK
<1>1. BreakerInv => TypeOK
  BY DEF BreakerInv
<1> QED
  BY <1>1, BreakerInvHolds, PTL

(* The circuit's state always agrees with its count of failures.            *)
THEOREM BreakerIsConsistent == Spec => []BreakerConsistent
<1>1. BreakerInv => BreakerConsistent
  BY DEF BreakerInv
<1> QED
  BY <1>1, BreakerInvHolds, PTL

-----------------------------------------------------------------------------
(* The inductive invariant behind PartnerIsSpared.  While the circuit is    *)
(* not CLOSED, a caller has sent in the present period at most the attempts *)
(* of the invoke() it is in; one that has finished an invoke() in it is     *)
(* refused until the next, because its failure left the circuit OPEN; and   *)
(* the circuit has not been OPEN for longer than nothing failed.            *)
CallerLoad(c) ==
  /\ load[c] \in 0 .. Attempts
  /\ pc[c] \in {"calling", "backoff", "succeeded", "failed"} => load[c] <= attempt[c]
  /\ pc[c] \in {"idle", "report"} /\ state = "HALF_OPEN" => load[c] = 0

LoadInv ==
  /\ BreakerInv
  /\ load \in [Callers -> Nat] /\ quiet \in 0 .. ResetAfter
  /\ state # "CLOSED" => \A c \in Callers : CallerLoad(c)
  /\ state = "CLOSED" => \A c \in Callers : load[c] = 0
  /\ state = "OPEN" => age <= quiet

(* Nothing has been sent or recorded at the start.                          *)
LEMMA InitEstablishesLoadInv == LoadInit => LoadInv
  BY InitEstablishesBreakerInv, ConnectorAssumption DEF LoadInit, LoadInv, Init

(* The beginning of an invoke() keeps the invariant: it sends only in a     *)
(* period in which its caller has not sent before.                          *)
LEMMA EnterLoad ==
  ASSUME LoadInv, BreakerInv', LoadNext, NEW c \in Callers, Enter(c)
  PROVE  LoadInv'
<1> USE ConnectorAssumption DEF BreakerInv, TypeOK, States
<1>1. state' = Current /\ UNCHANGED <<failures, age>>
  BY DEF Enter, ReadState
<1>2. ~FailsNow /\ quiet' = quiet
  BY <1>1 DEF Enter, FailsNow, LoadNext, LoadInv, Send
<1>3. CASE state = "CLOSED"
  BY <1>1, <1>2, <1>3 DEF LoadNext, LoadInv, CallerLoad, Current, CooledDown
<1>4. CASE CooledDown
  <2>1. NewPeriod /\ state' = "HALF_OPEN"
    BY <1>1, <1>4 DEF NewPeriod, Current, CooledDown
  <2>2. pc' = [pc EXCEPT ![c] = "calling"] /\ attempt' = [attempt EXCEPT ![c] = 1]
    BY <1>1, <2>1 DEF Enter, Send
  <2>3. load' = [d \in Callers |-> 0 + (IF SendsNow(d) THEN 1 ELSE 0)]
    BY <2>1 DEF LoadNext
  <2>4. ASSUME NEW d \in Callers PROVE CallerLoad(d)'
    <3>1. CASE d = c
      BY <2>2, <2>3, <3>1 DEF CallerLoad, SendsNow, LoadInv
    <3>2. CASE d # c
      BY <2>2, <2>3, <3>2 DEF CallerLoad, SendsNow, LoadInv
    <3> QED
      BY <3>1, <3>2
  <2> QED
    BY <1>2, <2>1, <2>3, <2>4 DEF LoadInv
<1>5. CASE state # "CLOSED" /\ ~CooledDown
  <2>1. ~NewPeriod /\ state' = state /\ state' # "CLOSED"
    BY <1>1, <1>5 DEF NewPeriod, Current
  <2>2. load' = [d \in Callers |-> load[d] + (IF SendsNow(d) THEN 1 ELSE 0)]
    BY <2>1 DEF LoadNext
  <2>3. CASE state = "OPEN"
    <3>1. pc[c] = "idle" /\ pc' = [pc EXCEPT ![c] = "report"] /\ attempt' = attempt
      BY <1>5, <2>3 DEF Enter, Current
    <3>2. load' = load
      BY <2>2, <3>1 DEF SendsNow, LoadInv
    <3>3. ASSUME NEW d \in Callers PROVE CallerLoad(d)'
      BY <2>1, <2>3, <3>1, <3>2 DEF LoadInv, CallerLoad
    <3> QED
      BY <1>1, <1>2, <2>1, <2>3, <3>2, <3>3 DEF LoadInv
  <2>4. CASE state = "HALF_OPEN"
    <3>1. /\ pc[c] = "idle" /\ pc' = [pc EXCEPT ![c] = "calling"]
          /\ attempt' = [attempt EXCEPT ![c] = 1]
      BY <1>5, <2>4 DEF Enter, Current, CooledDown, Send
    <3>2. ASSUME NEW d \in Callers PROVE CallerLoad(d)'
      BY <2>1, <2>2, <2>4, <3>1 DEF LoadInv, CallerLoad, SendsNow
    <3> QED
      BY <1>1, <1>2, <2>1, <2>2, <2>4, <3>2 DEF LoadInv
  <2> QED
    BY <1>5, <2>3, <2>4 DEF LoadInv
<1> QED
  BY <1>3, <1>4, <1>5

(* A retry sends the next attempt of an invoke() that has one left.         *)
LEMMA RetryLoad ==
  ASSUME LoadInv, BreakerInv', LoadNext, NEW c \in Callers, Retry(c)
  PROVE  LoadInv'
<1> USE ConnectorAssumption DEF BreakerInv, TypeOK, States
<1>1. /\ pc[c] = "backoff" /\ pc' = [pc EXCEPT ![c] = "calling"]
      /\ attempt' = [attempt EXCEPT ![c] = attempt[c] + 1]
      /\ UNCHANGED breaker
  BY DEF Retry, Send
<1>2. ~NewPeriod /\ state' = state /\ ~FailsNow /\ quiet' = quiet /\ age' = age
  BY <1>1 DEF NewPeriod, breaker, FailsNow, LoadNext, LoadInv
<1>3. load' = [d \in Callers |-> (IF state = "CLOSED" THEN 0 ELSE load[d])
                                   + (IF SendsNow(d) /\ state # "CLOSED" THEN 1 ELSE 0)]
  BY <1>2 DEF LoadNext
<1>4. ASSUME state # "CLOSED", NEW d \in Callers PROVE CallerLoad(d)'
  BY <1>1, <1>2, <1>3, <1>4 DEF LoadInv, CallerLoad, SendsNow, AttemptsLeft
<1> QED
  BY <1>2, <1>3, <1>4 DEF LoadInv, CallerLoad

(* A recorded success, or a reset, closes the circuit and the account.      *)
LEMMA ClosingLoad ==
  ASSUME LoadInv, BreakerInv', LoadNext, state' = "CLOSED", age' = age \/ age' = 0
  PROVE  LoadInv'
<1> USE ConnectorAssumption DEF BreakerInv, TypeOK, States
<1>1. load' = [d \in Callers |-> 0]
  BY DEF LoadNext, NewPeriod
<1>2. quiet' \in 0 .. ResetAfter
  BY DEF LoadNext, LoadInv
<1> QED
  BY <1>1, <1>2 DEF LoadInv

(* Steps that send nothing and record no failure: they leave the load       *)
(* alone, or start a new period with none.                                  *)
LEMMA QuietLoad ==
  ASSUME LoadInv, BreakerInv', LoadNext,
         state' \in {state, Current}, attempt' = attempt \/ \A d \in Callers : attempt'[d] <= attempt[d],
         ~FailsNow, age' = age \/ (state = "OPEN" /\ age' = age + 1),
         \A d \in Callers :
           \/ pc'[d] = pc[d] /\ attempt'[d] = attempt[d]
           \/ /\ pc[d] = "calling" /\ pc'[d] \in {"backoff", "succeeded", "failed"}
              /\ attempt'[d] = attempt[d]
           \/ pc[d] = "report" /\ pc'[d] = "idle"
  PROVE  LoadInv'
<1> USE ConnectorAssumption DEF BreakerInv, TypeOK, States
<1>1. \A d \in Callers : ~SendsNow(d)
  BY DEF SendsNow, LoadInv
<1>2. load' = [d \in Callers |-> IF NewPeriod \/ state' = "CLOSED" THEN 0 ELSE load[d]]
  BY <1>1 DEF LoadNext, LoadInv
<1>3. /\ quiet' \in 0 .. ResetAfter
      /\ state' = "OPEN" => age' <= quiet'
  BY DEF LoadNext, LoadInv, Current, CooledDown
<1>4. ASSUME state' # "CLOSED", NEW d \in Callers PROVE CallerLoad(d)'
  <2>1. state # "CLOSED"
    BY <1>4 DEF Current, CooledDown
  <2>2. CASE NewPeriod
    BY <1>2, <2>2 DEF CallerLoad, LoadInv
  <2>3. CASE ~NewPeriod
    <3>1. state' = state
      BY <1>4, <2>1, <2>3 DEF NewPeriod, Current, CooledDown, LoadInv
    <3> QED
      BY <1>2, <1>4, <2>1, <2>3, <3>1 DEF CallerLoad, LoadInv
  <2> QED
    BY <2>2, <2>3
<1>5. load' \in [Callers -> Nat]
  BY <1>2 DEF LoadInv
<1> QED
  BY <1>2, <1>3, <1>4, <1>5 DEF LoadInv

(* A recorded failure trips the circuit, or re-opens it in the same period. *)
LEMMA FailLoad ==
  ASSUME LoadInv, BreakerInv', LoadNext, NEW c \in Callers, Fail(c)
  PROVE  LoadInv'
<1> USE ConnectorAssumption DEF BreakerInv, TypeOK, States
<1>1. pc[c] = "failed" /\ pc' = [pc EXCEPT ![c] = "report"] /\ attempt' = attempt
  BY DEF Fail
<1>2. \/ state' = "OPEN" /\ age' = 0
      \/ state' = "CLOSED" /\ state = "CLOSED" /\ age' = age
  BY DEF Fail, record_failure, BreakerConsistent, LoadInv
<1>3. quiet' = 0
  <2>1. FailsNow
    BY <1>1 DEF FailsNow, LoadInv
  <2>2. ~(age' > age)
    BY <1>2 DEF LoadInv
  <2> QED
    BY <2>1, <2>2 DEF LoadNext
<1>4. load' = [d \in Callers |-> IF NewPeriod \/ state' = "CLOSED" THEN 0 ELSE load[d]]
  BY <1>1 DEF LoadNext, SendsNow, LoadInv
<1>5. ASSUME state' # "CLOSED", NEW d \in Callers PROVE CallerLoad(d)'
  <2>1. CASE state = "CLOSED"
    BY <1>2, <1>4, <1>5, <2>1 DEF NewPeriod, CallerLoad, LoadInv
  <2>2. CASE state # "CLOSED"
    BY <1>1, <1>2, <1>4, <1>5, <2>2 DEF CallerLoad, LoadInv
  <2> QED
    BY <2>1, <2>2
<1>6. load' \in [Callers -> Nat]
  BY <1>4 DEF LoadInv
<1> QED
  BY <1>2, <1>3, <1>4, <1>5, <1>6 DEF LoadInv

(* Every step keeps the inductive invariant.                                *)
LEMMA LoadStep == LoadInv /\ [LoadNext]_loadVars => LoadInv'
<1> SUFFICES ASSUME LoadInv, [LoadNext]_loadVars PROVE LoadInv'
  OBVIOUS
<1>1. BreakerInv'
  BY BreakerStep DEF LoadInv, LoadNext, loadVars
<1>2. CASE UNCHANGED loadVars
  BY <1>1, <1>2 DEF loadVars, vars, LoadInv, CallerLoad
<1>3. CASE LoadNext
  <2> USE <1>1, <1>3
  <2> USE ConnectorAssumption DEF BreakerInv, TypeOK, States
  <2>1. ASSUME NEW c \in Callers, Enter(c) PROVE LoadInv'
    BY <2>1, EnterLoad
  <2>2. ASSUME NEW c \in Callers, AttemptOk(c) PROVE LoadInv'
    BY <2>2, QuietLoad DEF AttemptOk, breaker, FailsNow, LoadInv
  <2>3. ASSUME NEW c \in Callers, AttemptFails(c) PROVE LoadInv'
    BY <2>3, QuietLoad DEF AttemptFails, breaker, FailsNow, LoadInv
  <2>4. ASSUME NEW c \in Callers, Retry(c) PROVE LoadInv'
    BY <2>4, RetryLoad
  <2>5. ASSUME NEW c \in Callers, Succeed(c) PROVE LoadInv'
    BY <2>5, ClosingLoad DEF Succeed, record_success
  <2>6. ASSUME NEW c \in Callers, Fail(c) PROVE LoadInv'
    BY <2>6, FailLoad
  <2>7. ASSUME NEW c \in Callers, Report(c) PROVE LoadInv'
    BY <2>7, QuietLoad DEF Report, ReadState, FailsNow, LoadInv
  <2>8. CASE Poll
    BY <2>8, QuietLoad DEF Poll, ReadState, callers, FailsNow, LoadInv
  <2>9. CASE Reset
    BY <2>9, ClosingLoad DEF Reset
  <2>10. CASE Tick
    BY <2>10, QuietLoad DEF Tick, callers, FailsNow, LoadInv
  <2>11. CASE PartnerChanges
    BY <2>11, QuietLoad DEF PartnerChanges, breaker, callers, FailsNow, LoadInv
  <2> QED
    BY <2>1, <2>2, <2>3, <2>4, <2>5, <2>6, <2>7, <2>8, <2>9, <2>10, <2>11
    DEF LoadNext, Next, CallerStep
<1> QED
  BY <1>2, <1>3

(* A partner whose circuit is not CLOSED receives, per cooldown period, at  *)
(* most one invoke()'s attempts from each caller.                           *)
THEOREM FailingPartnerIsSpared == LoadSpec => []PartnerIsSpared
<1>1. LoadInv => PartnerIsSpared
  <2> SUFFICES ASSUME LoadInv, state # "CLOSED", NEW c \in Callers
               PROVE  load[c] <= Attempts
    BY DEF PartnerIsSpared
  <2>1. CallerLoad(c)
    BY DEF LoadInv
  <2> QED
    BY <2>1, ConnectorAssumption DEF CallerLoad
<1> QED
  BY <1>1, InitEstablishesLoadInv, LoadStep, PTL DEF LoadSpec

(* The circuit never half-opens before a whole cooldown without failures.   *)
THEOREM CooldownNeverCutShort == LoadSpec => CooldownIsWhole
<1> DEFINE Waited == state = "OPEN" /\ state' = "HALF_OPEN" => quiet >= ResetAfter
<1>1. LoadInv /\ [LoadNext]_loadVars => [Waited]_loadVars
  <2> SUFFICES ASSUME LoadInv, LoadNext, state = "OPEN", state' = "HALF_OPEN"
               PROVE  quiet >= ResetAfter
    OBVIOUS
  <2>1. CooledDown
    <3> USE DEF ReadState, Current
    <3> QED
      BY DEF LoadNext, Next, CallerStep, Enter, AttemptOk, AttemptFails, Retry, Succeed,
             Fail, Report, Poll, Reset, Tick, PartnerChanges, breaker, record_success,
             record_failure
  <2> QED
    BY <2>1, ConnectorAssumption DEF CooledDown, LoadInv, BreakerInv, TypeOK
<1> QED
  BY <1>1, InitEstablishesLoadInv, LoadStep, PTL DEF LoadSpec, CooldownIsWhole

=============================================================================
