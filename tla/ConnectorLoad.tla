---------------------------- MODULE ConnectorLoad ----------------------------
(***************************************************************************)
(* How much a failing partner is spared: the Connector together with two   *)
(* histories the code does not keep, the attempts each caller has sent     *)
(* since the circuit last turned away from CLOSED or half-opened, and the  *)
(* time since a failure was last recorded.                                 *)
(***************************************************************************)
EXTENDS Connector

VARIABLES
  load,    \* load[c]: attempts of caller c in the present cooldown period
  quiet    \* ticks since the last recorded failure

loadVars == <<vars, load, quiet>>

LoadInit == Init /\ load = [c \in Callers |-> 0] /\ quiet = 0

\* The circuit trips from CLOSED, or its cooldown ends.
NewPeriod == state' # state /\ state' \in {"OPEN", "HALF_OPEN"}
                            /\ ~(state = "HALF_OPEN" /\ state' = "OPEN")

SendsNow(c) == attempt'[c] > attempt[c]
FailsNow == \E c \in Callers : pc[c] = "failed" /\ pc'[c] = "report"

LoadNext ==
  /\ Next
  /\ load' = [c \in Callers |->
                (IF NewPeriod \/ state' = "CLOSED" THEN 0 ELSE load[c])
                  + (IF SendsNow(c) /\ state' # "CLOSED" THEN 1 ELSE 0)]
  /\ quiet' = CASE FailsNow    -> 0
                [] age' > age  -> IF quiet < ResetAfter THEN quiet + 1 ELSE quiet
                [] OTHER       -> quiet

LoadSpec == LoadInit /\ [][LoadNext]_loadVars

FairLoadSpec == LoadSpec /\ Fairness /\ Traffic

-----------------------------------------------------------------------------
(* partners/connector.py, line 9: "a failing partner is not hammered".  As   *)
(* long as the circuit is not CLOSED, one cooldown period costs the partner *)
(* at most one invoke()'s attempts per caller, retries of calls admitted    *)
(* before the trip included.                                                *)
PartnerIsSpared ==
  state # "CLOSED" => \A c \in Callers : load[c] <= Attempts

(* The cooldown is a whole one: the circuit half-opens only after           *)
(* ResetAfter ticks in which no failure at all was recorded; the late       *)
(* failure of a call admitted earlier starts the cooldown anew.             *)
CooldownIsWhole ==
  [][state = "OPEN" /\ state' = "HALF_OPEN" => quiet >= ResetAfter]_loadVars

=============================================================================
