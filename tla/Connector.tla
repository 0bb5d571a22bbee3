------------------------------ MODULE Connector ------------------------------
(***************************************************************************)
(* One Connector of partners/connector.py: its CircuitBreaker, shared by   *)
(* the worker threads of all requests, and the control flow of invoke().   *)
(*                                                                         *)
(* The breaker's lock covers each of its methods and nothing else, so an   *)
(* invoke() is a series of separate steps: allows(), up to retries + 1     *)
(* attempts with a pause between them, record_success or record_failure,   *)
(* and a second look at the state for the result.  A call that was         *)
(* admitted before a trip keeps running through it.                        *)
(***************************************************************************)
EXTENDS Naturals

CONSTANTS
  Callers,      \* threads that may be inside invoke() of this connector
  Threshold,    \* failure_threshold
  Attempts,     \* retries + 1
  ResetAfter,   \* reset_after_s, in ticks of the monotonic clock
  MaxFailures   \* bound: where the count of failures saturates

ASSUME ConnectorAssumption ==
  /\ Threshold \in Nat \ {0} /\ Attempts \in Nat \ {0} /\ ResetAfter \in Nat \ {0}
  /\ MaxFailures \in Nat /\ Threshold <= MaxFailures

VARIABLES
  state,      \* the breaker's _state
  failures,   \* its _failures
  age,        \* ticks since its _opened_at, while it is OPEN
  partner,    \* the partner answers in time ("up") or not ("down")
  pc,         \* the step a caller's invoke() is at
  attempt,    \* the attempt it is making
  sent        \* how the partner was when that attempt was sent

vars == <<state, failures, age, partner, pc, attempt, sent>>
breaker == <<state, failures, age>>
callers == <<pc, attempt, sent>>

States == {"CLOSED", "OPEN", "HALF_OPEN"}

-----------------------------------------------------------------------------
(* The breaker.  Reading `state` has an effect: it half-opens a circuit     *)
(* whose cooldown is over.                                                  *)

CooledDown == state = "OPEN" /\ age >= ResetAfter
\* Mutant: an OPEN circuit is never probed.
Current_NeverProbes == state

Current == IF CooledDown THEN "HALF_OPEN" ELSE state
ReadState == state' = Current /\ UNCHANGED <<failures, age>>

\* Mutant: the count is not reset.
record_success_KeepsCount == state' = "CLOSED" /\ UNCHANGED <<failures, age>>

record_success == state' = "CLOSED" /\ failures' = 0 /\ UNCHANGED age

\* Mutants: == for >=; the cooldown of an open circuit is not restarted.
record_failure_TripsOnce ==
  /\ failures' = IF failures < MaxFailures THEN failures + 1 ELSE failures
  /\ IF failures + 1 = Threshold
     THEN state' = "OPEN" /\ age' = 0
     ELSE UNCHANGED <<state, age>>

record_failure_KeepsCooldown ==
  /\ failures' = IF failures < MaxFailures THEN failures + 1 ELSE failures
  /\ IF failures + 1 >= Threshold
     THEN state' = "OPEN" /\ age' = IF state = "OPEN" THEN age ELSE 0
     ELSE UNCHANGED <<state, age>>

record_failure ==
  /\ failures' = IF failures < MaxFailures THEN failures + 1 ELSE failures
  /\ IF failures + 1 >= Threshold
     THEN state' = "OPEN" /\ age' = 0
     ELSE UNCHANGED <<state, age>>

-----------------------------------------------------------------------------
Init ==
  /\ state = "CLOSED" /\ failures = 0 /\ age = 0
  /\ partner = "up"
  /\ pc = [c \in Callers |-> "idle"]
  /\ attempt = [c \in Callers |-> 0]
  /\ sent = [c \in Callers |-> "up"]

Send(c, n) ==
  /\ pc' = [pc EXCEPT ![c] = "calling"]
  /\ attempt' = [attempt EXCEPT ![c] = n]
  /\ sent' = [sent EXCEPT ![c] = partner]

\* invoke() begins: allows(), then the first attempt or a refusal.
Enter(c) ==
  /\ pc[c] = "idle"
  /\ ReadState
  /\ IF Current \in {"CLOSED", "HALF_OPEN"}
     THEN Send(c, 1)
     ELSE pc' = [pc EXCEPT ![c] = "report"] /\ UNCHANGED <<attempt, sent>>
  /\ UNCHANGED partner

AttemptOk(c) ==
  /\ pc[c] = "calling" /\ sent[c] = "up"
  /\ pc' = [pc EXCEPT ![c] = "succeeded"]
  /\ UNCHANGED <<breaker, partner, attempt, sent>>

\* An error, or the budget expires and the attempt is abandoned.
AttemptFails(c) ==
  /\ pc[c] = "calling" /\ sent[c] = "down"
  /\ pc' = [pc EXCEPT ![c] = IF attempt[c] < Attempts THEN "backoff" ELSE "failed"]
  /\ UNCHANGED <<breaker, partner, attempt, sent>>

\* Mutant: the attempts are not counted.
Retry_Uncounted(c) ==
  /\ pc[c] = "backoff"
  /\ Send(c, attempt[c])
  /\ UNCHANGED <<breaker, partner>>

\* The pause is over.  The breaker is not consulted again.
Retry(c) ==
  /\ pc[c] = "backoff"
  /\ Send(c, attempt[c] + 1)
  /\ UNCHANGED <<breaker, partner>>

Succeed(c) ==
  /\ pc[c] = "succeeded"
  /\ record_success
  /\ pc' = [pc EXCEPT ![c] = "report"]
  /\ UNCHANGED <<partner, attempt, sent>>

Fail(c) ==
  /\ pc[c] = "failed"
  /\ record_failure
  /\ pc' = [pc EXCEPT ![c] = "report"]
  /\ UNCHANGED <<partner, attempt, sent>>

\* The result carries the circuit's state, read once more.
Report(c) ==
  /\ pc[c] = "report"
  /\ ReadState
  /\ pc' = [pc EXCEPT ![c] = "idle"]
  /\ attempt' = [attempt EXCEPT ![c] = 0]
  /\ sent' = [sent EXCEPT ![c] = "up"]
  /\ UNCHANGED partner

\* GET /v1/partners/health reads the state too.
Poll ==
  /\ CooledDown
  /\ ReadState
  /\ UNCHANGED <<partner, callers>>

\* ConnectorRegistry.reset
Reset ==
  /\ state' = "CLOSED" /\ failures' = 0 /\ age' = 0
  /\ UNCHANGED <<partner, callers>>

\* The clock matters only while the circuit is OPEN.
Tick ==
  /\ state = "OPEN" /\ age < ResetAfter
  /\ age' = age + 1
  /\ UNCHANGED <<state, failures, partner, callers>>

\* The partner goes down, or comes back.
PartnerChanges ==
  /\ partner' \in {"up", "down"} \ {partner}
  /\ UNCHANGED <<breaker, callers>>

CallerStep(c) ==
  \/ AttemptOk(c)
  \/ AttemptFails(c)
  \/ Retry(c)
  \/ Succeed(c)
  \/ Fail(c)
  \/ Report(c)

Next ==
  \/ \E c \in Callers : Enter(c)
  \/ \E c \in Callers : CallerStep(c)
  \/ Poll
  \/ Reset
  \/ Tick
  \/ PartnerChanges

Spec == Init /\ [][Next]_vars

\* A thread in invoke() goes on, and time passes.
Fairness == WF_vars(Tick) /\ \A c \in Callers : WF_vars(CallerStep(c))

\* Decisions are asked for again and again: every one consults the partner.
Traffic == WF_vars(\E c \in Callers : Enter(c))

FairSpec == Spec /\ Fairness /\ Traffic

-----------------------------------------------------------------------------
TypeOK ==
  /\ state \in States
  /\ failures \in 0 .. MaxFailures
  /\ age \in 0 .. ResetAfter
  /\ partner \in {"up", "down"}
  /\ pc \in [Callers -> {"idle", "calling", "backoff", "succeeded", "failed", "report"}]
  /\ attempt \in [Callers -> 0 .. Attempts]
  /\ sent \in [Callers -> {"up", "down"}]

(* The count of failures and the circuit's state agree however calls that   *)
(* were admitted in different states finish: a CLOSED circuit has not used   *)
(* up its failures, and one that is not CLOSED is a single failure away     *)
(* from a new cooldown, so that a failed probe always re-opens it.          *)
BreakerConsistent == state = "CLOSED" <=> failures < Threshold

(* The circuit half-opens and closes again on its own once a partner has    *)
(* recovered for good, whatever late failures are still under way then.     *)
ClosesAfterRecovery == <>[](partner = "up") => <>[](state = "CLOSED")

(* Every invoke() returns a result, whatever the partner does.              *)
EveryInvokeReturns == \A c \in Callers : pc[c] # "idle" ~> pc[c] = "idle"

=============================================================================
