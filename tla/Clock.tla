------------------------------- MODULE Clock -------------------------------
(* time.time(), in minutes.  The server reads it wherever it needs it; the  *)
(* modules below share it.                                                  *)
EXTENDS Naturals

CONSTANT MaxTime   \* bound: minutes that pass

ASSUME ClockAssumption == MaxTime \in Nat

VARIABLE now

StartOfTime == now = 0
TimePasses == now < MaxTime /\ now' = now + 1
=============================================================================
