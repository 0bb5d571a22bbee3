------------------------------ MODULE Monitoring ------------------------------
(***************************************************************************)
(* core/monitoring.py: the population stability index of the scores of     *)
(* live decisions against those of the development sample, and the status  *)
(* of the report that GET /v1/monitoring makes of it.                      *)
(*                                                                         *)
(* A distribution says how many decisions have each score.  The logarithm  *)
(* of the index is bounded by rational functions; the status is any that   *)
(* the bounds leave open.  The index is in thousandths.                    *)
(***************************************************************************)
EXTENDS Samples, SequencesExt

CONSTANTS
  MaxBands,    \* bands of a large sample: 10
  MinPerBand,  \* MIN_OBSERVATIONS_PER_BAND
  MinBands     \* MIN_BANDS

ASSUME MonitoringAssumption ==
  /\ MinPerBand \in Nat \ {0}
  /\ MinBands \in Nat /\ MinBands >= 2
  /\ MaxBands \in Nat /\ MinBands <= MaxBands

PsiWarning == 100
PsiBreach == 250

-----------------------------------------------------------------------------
\* quantile_edges: as many distinct edges as the reference gives.
QuantileEdges(expected, bands) ==
  LET Edge(k) == Nth(expected, Min({(Size(expected) * k) \div bands, Size(expected) - 1}))
  IN Ascending({Edge(k) : k \in 1 .. bands - 1})

\* _distribution, as counts: the first band whose edge the score does not exceed.
Distribution(count, cuts) ==
  LET BandOf(s) == 1 + Cardinality({i \in DOMAIN cuts : s > cuts[i]})
  IN [b \in 1 .. Len(cuts) + 1 |-> Total(count, {s \in DOMAIN count : BandOf(s) = b})]

\* The bands both samples support.
Supportable(expected, actual) == Min({Size(expected), Size(actual)}) \div MinPerBand

\* Shares are in units of 1/(2 n m); the floor of half an observation is that
\* of the smaller sample for both.
\* Mutant: each sample is smoothed with its own floor.
FloorOf_Own(own, other) == other

FloorOf(own, other) == Max({own, other})

Shares(bands, own, other) ==
  [b \in DOMAIN bands |-> Max({2 * bands[b] * other, FloorOf(own, other)})]

\* Bounds on 1000 (a - e) ln(a / e), for shares with the given unit.
AtLeastIndex(a, e, unit) == (2000 * (a - e) * (a - e)) \div ((a + e) * unit)
AtMostIndex(a, e, unit) == -((-1000 * (a - e) * (a - e)) \div (Min({a, e}) * unit))

Statuses(low, high) ==
  (IF low < PsiWarning THEN {"STABLE"} ELSE {})
    \cup (IF low < PsiBreach /\ high >= PsiWarning THEN {"WARNING"} ELSE {})
    \cup (IF high >= PsiBreach THEN {"BREACH"} ELSE {})

\* stability_index: the statuses it may have.
StabilityStatuses(expected, actual) ==
  LET n == Size(expected)
      m == Size(actual)
      bands == Min({MaxBands, Supportable(expected, actual)})
      cuts == QuantileEdges(expected, bands)
      e == Shares(Distribution(expected, cuts), n, m)
      a == Shares(Distribution(actual, cuts), m, n)
      low == Size([b \in DOMAIN e |-> AtLeastIndex(a[b], e[b], 2 * n * m)])
      high == Size([b \in DOMAIN e |-> AtMostIndex(a[b], e[b], 2 * n * m)])
  IN IF n = 0 \/ m = 0 \/ bands < MinBands THEN {"UNKNOWN"}
     ELSE Statuses(low, high)

\* report: no outcomes reach it, so that calibration is UNKNOWN.
OverallStatus(psi) ==
  LET statuses == {psi, "UNKNOWN"}
  IN CHOOSE s \in {"BREACH", "WARNING", "STABLE", "UNKNOWN"} :
       /\ s \in statuses
       /\ s = "WARNING" => "BREACH" \notin statuses
       /\ s = "STABLE" => statuses \cap {"BREACH", "WARNING"} = {}
       /\ s = "UNKNOWN" => statuses = {"UNKNOWN"}
=============================================================================
