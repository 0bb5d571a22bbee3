------------------------------- MODULE Binning -------------------------------
(***************************************************************************)
(* The binning of one characteristic in model/train_scorecard.py: bins at  *)
(* the quantiles of the development sample, merged until each is populated *)
(* and the bad rate runs in one direction.                                 *)
(*                                                                         *)
(* A sample says how many good and bad applicants have each value; a bin   *)
(* edge is counted in units of 1/Bins, in which quantiles are whole.  One  *)
(* pass of the `while True` of _enforce_monotonic is one step.             *)
(***************************************************************************)
EXTENDS Samples, SequencesExt

CONSTANTS
  Values,       \* values of the characteristic
  Missing,      \* no value: None or NaN
  Bins,         \* bins to start with
  MinBins,      \* min_bins
  MinShare,     \* min_share, in percent
  BadRateUnit   \* bad rates are rounded to whole multiples of 1/BadRateUnit: 10^6

ASSUME BinningAssumption ==
  /\ Values \subseteq Nat /\ IsFiniteSet(Values) /\ Missing \notin Nat
  /\ Bins \in Nat \ {0} /\ MinBins \in Nat \ {0} /\ MinShare \in 1 .. 99
  /\ BadRateUnit \in Nat \ {0}

VARIABLES
  sample,   \* sample.good[v], sample.bad[v]: applicants of the development sample
  edges,    \* the upper edges of all bins but the last
  phase     \* what model building is at

binningVars == <<sample, edges, phase>>

Samples(Counts) == [good : [Values \cup {Missing} -> Counts], bad : [Values \cup {Missing} -> Counts]]

Applicants(v) == sample.good[v] + sample.bad[v]
Everybody == Size([v \in Values \cup {Missing} |-> Applicants(v)])

-----------------------------------------------------------------------------
\* _bin_edges: the distinct quantiles of the values that are there.
BinEdges ==
  LET observed == [v \in Values |-> Applicants(v)]
  IN IF Size(observed) = 0 THEN << >>
     ELSE Ascending({Interpolated(observed, k, Bins) : k \in 1 .. Bins - 1})

\* _assign: the first bin whose edge the value does not exceed, else the last.
Assign(v, cuts) ==
  IF v = Missing THEN Missing
  ELSE Cardinality({i \in DOMAIN cuts : v * Bins > cuts[i]})

\* The values of bin b.
InBin(b, cuts) == {v \in Values \cup {Missing} : Assign(v, cuts) = b}

Goods(b, cuts) == Total(sample.good, InBin(b, cuts))
Bads(b, cuts) == Total(sample.bad, InBin(b, cuts))
Count(b, cuts) == Goods(b, cuts) + Bads(b, cuts)

\* The bins of _woe_table: those the sample has somebody in.
Populated(cuts) == {b \in 0 .. Len(cuts) : Count(b, cuts) > 0}

\* round(): half of a unit goes to the even neighbour.
InUnits(bad, of) ==
  LET whole == (BadRateUnit * bad) \div of
      twice == 2 * ((BadRateUnit * bad) % of)
  IN IF twice > of \/ (twice = of /\ whole % 2 = 1) THEN whole + 1 ELSE whole

\* _ordered_bad_rates, in units.
OrderedBadRates(cuts) ==
  LET bins == Ascending(Populated(cuts))
  IN [i \in DOMAIN bins |-> InUnits(Bads(bins[i], cuts), Count(bins[i], cuts))]

\* The change from the i-th rate to the next.
Delta(rates, i) == rates[i + 1] - rates[i]

Abs(n) == IF n < 0 THEN -n ELSE n

\* The sign of the sum of the changes, which floating point may put on either
\* side of zero when the last rate is the first.
Directions(rates) ==
  LET rise == rates[Len(rates)] - rates[1]
  IN (IF rise >= 0 THEN {1} ELSE {}) \cup (IF rise <= 0 THEN {-1} ELSE {})

\* The tolerance of the code, 1e-9, is for floating point: rounded rates that
\* differ do so by a unit or more.
Violations(rates, direction) ==
  {i \in 1 .. Len(rates) - 1 : Delta(rates, i) * direction < 0}

Monotonic(rates) ==
  \E direction \in {1, -1} : Violations(rates, direction) = {}

\* The violations with the largest change.
Worst(rates, direction) ==
  {i \in Violations(rates, direction) :
     \A j \in Violations(rates, direction) :
       Abs(Delta(rates, i)) >= Abs(Delta(rates, j))}

-----------------------------------------------------------------------------
\* edges.pop(min(i, len(edges) - 1)), for the bin that is i-th from 1
Pop(i) == edges' = RemoveAt(edges, Min({i, Len(edges)}))

\* The bins with less than the minimum share.
Small == {b \in 0 .. Len(edges) : 100 * Count(b, edges) < MinShare * Everybody}

\* Mutant: bins are never too small.
SmallBinIsMerged_Never == FALSE

SmallBinIsMerged == Small # {} /\ edges # << >> /\ Len(edges) + 1 > MinBins

StartBinning ==
  /\ phase = "sample"
  /\ edges' = BinEdges
  /\ phase' = "merging"
  /\ UNCHANGED sample

MergeSmall ==
  /\ phase = "merging"
  /\ SmallBinIsMerged
  /\ Pop(Min(Small) + 1)
  /\ UNCHANGED <<sample, phase>>

Stops == edges = << >> \/ Len(OrderedBadRates(edges)) <= MinBins

MergeViolation ==
  /\ phase = "merging"
  /\ ~SmallBinIsMerged /\ ~Stops
  /\ LET rates == OrderedBadRates(edges)
     IN \E direction \in Directions(rates) :
          \E worst \in Worst(rates, direction) : Pop(worst)
  /\ UNCHANGED <<sample, phase>>

Finish ==
  /\ phase = "merging"
  /\ ~SmallBinIsMerged
  /\ \/ Stops
     \/ /\ ~Stops
        /\ \E direction \in Directions(OrderedBadRates(edges)) :
             Violations(OrderedBadRates(edges), direction) = {}
  /\ phase' = "trained"
  /\ UNCHANGED <<sample, edges>>

BinningStep == StartBinning \/ MergeSmall \/ MergeViolation \/ Finish
=============================================================================
