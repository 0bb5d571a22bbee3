---------------------------- MODULE ModelLifecycle ----------------------------
(***************************************************************************)
(* The life of a scorecard: it is built from a development sample          *)
(* (model/train_scorecard.py), and the artefact then scores applicants     *)
(* (core/scorecard.py), has its cut-off calibrated on a later sample       *)
(* (model/calibrate_cutoffs.py), and is monitored (core/monitoring.py,     *)
(* GET /v1/monitoring).  The last three only read the artefact: a          *)
(* behaviour takes one of them.                                            *)
(*                                                                         *)
(* Populations are made of a few kinds of applicants, Sampled; what the    *)
(* card gives them is their score.                                         *)
(***************************************************************************)
EXTENDS Scorecard, Cutoffs, Monitoring

CONSTANTS
  DevelopmentSamples,   \* samples to train on
  Sampled,              \* the kinds of applicants in later samples
  Cells,                \* how many of a kind are good and bad
  References, Lives,    \* how many of a kind were developed on, and are live
  CurrentCutoff         \* the configured cut-off

ASSUME LifecycleAssumption ==
  /\ LowestScore = MinScore
  /\ DevelopmentSamples \subseteq Samples(Nat)
  /\ Sampled \subseteq Profiles /\ IsFiniteSet(Sampled)
  /\ Cells \subseteq [good : Nat, bad : Nat]
  /\ References \subseteq Nat /\ Lives \subseteq Nat
  /\ CurrentCutoff \in Nat

VARIABLES
  card,     \* the artefact in use
  result    \* what the program that used it has computed

vars == <<sample, edges, phase, card, result>>

NoSample == [good |-> << >>, bad |-> << >>]
NoCard == [edges |-> << >>]
NoResult == "none"

-----------------------------------------------------------------------------
Init ==
  /\ sample \in DevelopmentSamples
  /\ Everybody > 0
  /\ edges = << >>
  /\ phase = "sample"
  /\ card = NoCard
  /\ result = NoResult

Train == BinningStep /\ UNCHANGED <<card, result>>

\* build() has returned and load() reads what it wrote.
Deploy ==
  /\ phase = "trained"
  /\ card' = Artefact
  /\ phase' = "serving"
  /\ sample' = NoSample /\ edges' = << >>
  /\ UNCHANGED result

Report(purpose, outcome) ==
  /\ phase' = purpose
  /\ result' = outcome
  /\ UNCHANGED <<sample, edges>>

\* Scorecard.score
ScoreApplicant(values, dq) ==
  /\ phase = "serving"
  /\ Report("scored", [values |-> values, dq |-> dq, score |-> ScoreOf(card, values),
                       codes |-> ReasonCodes(card, values, dq)])
  /\ UNCHANGED card

\* _score_population and _reference_scores: the sampled applicants have been
\* scored; the card is not needed any more.
ScoreSample ==
  /\ phase = "serving"
  /\ phase' = "sampled"
  /\ result' = [p \in Sampled |-> ScoreOf(card, p)]
  /\ card' = NoCard
  /\ UNCHANGED <<sample, edges>>

\* How many there are of each score.
ByScore(number) ==
  [s \in Range(result) |-> Total(number, {p \in Sampled : result[p] = s})]

\* calibrate, for a tenant with the given configured cut-off
Calibrate(cell) ==
  /\ phase = "sampled"
  /\ \E p \in Sampled : cell[p].good + cell[p].bad > 0
  /\ LET population == [good |-> ByScore([p \in Sampled |-> cell[p].good]),
                        bad  |-> ByScore([p \in Sampled |-> cell[p].bad])]
         proposed == Recommend(population).cutoff
     IN Report("calibrated",
               [population |-> population, accept |-> proposed,
                refer |-> IF proposed = -1 THEN -1 ELSE ReferFloor(proposed),
                bands |-> BandTable(population),
                moved |-> IF proposed = -1 THEN 0 ELSE Moved(population, CurrentCutoff, proposed)])
  /\ UNCHANGED card

\* Api.monitoring: the scores of the development sample, those of the stored
\* decisions, and the report on them.
Monitor(developed, live) ==
  /\ phase = "sampled"
  /\ LET expected == ByScore(developed)
         actual == ByScore(live)
     IN \E psi \in StabilityStatuses(expected, actual) :
          Report("monitored", [expected |-> expected, actual |-> actual,
                               psi |-> psi, overall |-> OverallStatus(psi)])
  /\ UNCHANGED card

Next ==
  \/ Train
  \/ Deploy
  \/ \E values \in Profiles, dq \in {"OK", "BLOCK"} : ScoreApplicant(values, dq)
  \/ ScoreSample
  \/ \E cell \in [Sampled -> Cells] : Calibrate(cell)
  \/ \E developed \in [Sampled -> References], live \in [Sampled -> Lives] : Monitor(developed, live)

Spec == Init /\ [][Next]_vars

-----------------------------------------------------------------------------
(* train_scorecard.py, line 143, "Merge adjacent bins until bad rates are   *)
(* monotonic and bins are populated": when more than the minimum of bins    *)
(* are left, every bin has its minimum share and the bad rates run in one   *)
(* direction; merging never goes below the minimum; and while pairs of      *)
(* rates are taken for pairs of adjacent bins, no bin is without a rate.    *)
BinsAreSound ==
  /\ phase = "trained" /\ Len(edges) + 1 > MinBins => Small = {} /\ Monotonic(OrderedBadRates(edges))
  /\ phase \in {"merging", "trained"} => Len(edges) >= Min({MinBins - 1, Len(BinEdges)})
  /\ phase = "merging" /\ ~SmallBinIsMerged /\ ~Stops => Populated(edges) = 0 .. Len(edges)

(* Binning is written twice, for training and for scoring: an applicant of  *)
(* the development sample who is scored falls in the bin that was trained   *)
(* with him in it, and in no bin that is unknown to the artefact.           *)
TrainServeAgree ==
  phase = "trained" =>
    \A v \in Values \cup {Missing} :
      Applicants(v) > 0 =>
        LET b == bin_for([edges |-> edges], v) IN b \in Seen /\ v \in InBin(b, edges)

(* scorecard.py, lines 200-203: a reason is about a value that the          *)
(* applicant has, and another value would have gained him at least          *)
(* Materiality points; worse reasons come first and are not left out for    *)
(* lesser ones, among the characteristics that were not kept with the wrong *)
(* sign; without a bureau record no bureau characteristic is blamed; and    *)
(* when data blocks the score, that is all that is said.                    *)
ReasonsAreTheWorst ==
  phase = "scored" =>
    LET values  == result.values
        segment == select_segment(values)
        reasons == {i \in DOMAIN result.codes : result.codes[i] \in Named}
        Gain(c) == Max({Contribution(card, c, v) - Contribution(card, c, values[c]) :
                          v \in {w \in Values \cup {Missing} : bin_for(card, w) \in card.seen}})
    IN IF result.dq = "BLOCK" THEN result.codes = <<"INSUFFICIENT_INFORMATION">>
       ELSE /\ segment = "THIN" <=> "NO_BUREAU_RECORD" \in Range(result.codes)
            /\ segment = "THIN" => \A i \in reasons : result.codes[i] \notin Bureau
            /\ Cardinality(reasons) <= MaxReasons
            /\ \A i \in reasons :
                 /\ values[result.codes[i]] # Missing
                 /\ Gain(result.codes[i]) >= Materiality
                 /\ \A j \in reasons : i < j /\ Weight[result.codes[j]] > 0 =>
                      Gain(result.codes[i]) >= Gain(result.codes[j])
            /\ \A c \in Scored(segment) :
                 values[c] # Missing /\ Weight[c] > 0 /\ Gain(c) >= Materiality =>
                   \/ c \in Range(result.codes)
                   \/ /\ Cardinality(reasons) = MaxReasons
                      /\ \A i \in reasons : Gain(result.codes[i]) >= Gain(c)

(* calibrate_cutoffs.py, lines 128-140: with the recommended cut-off both   *)
(* those who are approved and those approved at the margin default no more  *)
(* often than the appetite allows, but for half a unit of rounding, the     *)
(* margin is no handful, and no lower cut-off of the grid would do.         *)
RecommendedWithinAppetite ==
  phase = "calibrated" =>
    LET population == result.population
        Within(S, slack) ==
          2 * RateUnit * Total(population.bad, S) <= (2 * Target + slack) * Number(population, S)
        Suits(cutoff, slack) ==
          /\ Within(AtLeast(population, cutoff), slack)
          /\ Within(Between(population, cutoff, cutoff + Window), slack)
          /\ Number(population, Between(population, cutoff, cutoff + Window)) >= MinMarginal
        lower == {cutoff \in Lowest(population) .. Highest(population) :
                    /\ (cutoff - Lowest(population)) % GridStep = 0
                    /\ result.accept = -1 \/ cutoff < result.accept}
    IN /\ result.accept # -1 => Suits(result.accept, 1)
       /\ \A cutoff \in lower : ~Suits(cutoff, -1)
       /\ result.accept # -1 => result.refer \in MinScore .. result.accept

(* The tables of the calibration report account for everybody: the bands    *)
(* hold the whole sample, and who moves between decisions is the difference *)
(* between the approvals under the two cut-offs.                            *)
EveryoneIsAccountedFor ==
  phase = "calibrated" =>
    LET population == result.population
        Approvals(cutoff) == Number(population, AtLeast(population, cutoff))
    IN /\ Size([band \in result.bands |-> band.population]) = Size(People(population))
       /\ result.accept # -1 =>
            result.moved = Abs(Approvals(result.accept) - Approvals(CurrentCutoff))

(* monitoring.py, lines 36-54 and server.py, lines 381-384: business in the *)
(* proportions of the development sample reads STABLE, however small the    *)
(* samples are that are still read; business that scores above the whole    *)
(* reference reads BREACH; and samples too small for two bands read         *)
(* UNKNOWN, which no report turns into another status.                      *)
DriftReadsTrue ==
  phase = "monitored" =>
    LET n == Size(result.expected)
        m == Size(result.actual)
        readable == Supportable(result.expected, result.actual) >= MinBands
    IN /\ (result.psi = "UNKNOWN") <=> ~readable
       /\ result.overall = result.psi
       /\ readable /\ (\A s \in DOMAIN result.expected : result.expected[s] * m = result.actual[s] * n) =>
            result.psi = "STABLE"
       /\ readable /\ (\A s, u \in DOMAIN result.expected :
                        result.actual[s] > 0 /\ result.expected[u] > 0 => s > u) =>
            result.psi = "BREACH"
=============================================================================
