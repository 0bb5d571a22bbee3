------------------------------- MODULE Cutoffs -------------------------------
(***************************************************************************)
(* model/calibrate_cutoffs.py: the cut-off that a scored sample supports.  *)
(*                                                                         *)
(* A population says how many good and bad applicants have each score.     *)
(* Rates are rounded, as the code rounds them to four decimals, here to    *)
(* 1/RateUnit; a target is a number of those units.                        *)
(***************************************************************************)
EXTENDS Samples, Sequences

CONSTANTS
  RateUnit,      \* units in the rate 1
  Target,        \* TARGET_BAD_RATE, in units
  GridStep,      \* step
  Window,        \* marginal_window
  MinMarginal,   \* the least marginal population a recommendation rests on
  BandCount,     \* bands of the band table
  ReferralWidth, \* referral_width
  LowestScore    \* the scale's min_score

ASSUME CutoffsAssumption ==
  /\ RateUnit \in Nat \ {0} /\ Target \in 0 .. RateUnit
  /\ GridStep \in Nat \ {0} /\ Window \in Nat \ {0} /\ BandCount \in Nat \ {0}
  /\ MinMarginal \in Nat \ {0} /\ ReferralWidth \in Nat /\ LowestScore \in Nat

NoCutoff == [cutoff |-> -1]

-----------------------------------------------------------------------------
People(population) == [s \in DOMAIN population.good |-> population.good[s] + population.bad[s]]

\* The scores somebody has.
ScoresOf(population) == {s \in DOMAIN population.good : People(population)[s] > 0}
Lowest(population) == Min(ScoresOf(population))
Highest(population) == Max(ScoresOf(population))

AtLeast(population, s) == {t \in DOMAIN population.good : t >= s}
Between(population, s, u) == {t \in DOMAIN population.good : t >= s /\ t < u}

Number(population, S) == Total(People(population), S)

\* round(mean, 4)
BadRate(population, S) ==
  (2 * RateUnit * Total(population.bad, S) + Number(population, S)) \div (2 * Number(population, S))

\* _cutoff_curve: every cut-off on the grid with what it approves.
Curve(population) ==
  LET Point(cutoff) ==
        LET approved == AtLeast(population, cutoff)
            marginal == Between(population, cutoff, cutoff + Window)
        IN [cutoff   |-> cutoff,
            approved |-> BadRate(population, approved),
            size     |-> Number(population, marginal),
            marginal |-> IF Number(population, marginal) = 0 THEN -1
                         ELSE BadRate(population, marginal)]
  IN {Point(Lowest(population) + GridStep * k) :
        k \in 0 .. (Highest(population) - Lowest(population)) \div GridStep}

\* Mutant: only the approved population is held against the appetite.
Feasible_OverallOnly(point) == point.approved <= Target

Feasible(point) ==
  /\ point.approved <= Target
  /\ point.marginal # -1
  /\ point.size >= MinMarginal
  /\ point.marginal <= Target

\* _recommend: the most inclusive feasible cut-off.
Recommend(population) ==
  LET feasible == {point \in Curve(population) : Feasible(point)}
  IN IF feasible = {} THEN NoCutoff
     ELSE CHOOSE p \in feasible : \A q \in feasible : p.cutoff <= q.cutoff

ReferFloor(cutoff) == Max({cutoff - ReferralWidth, LowestScore})

-----------------------------------------------------------------------------
\* round() of a number of 1/BandCount units, a half to the even neighbour
RoundHalfEven(n) ==
  LET down == n \div BandCount
      rest == 2 * (n % BandCount)
  IN IF rest > BandCount \/ (rest = BandCount /\ down % 2 = 1) THEN down + 1 ELSE down

BandEdges(population) ==
  {RoundHalfEven(Interpolated(People(population), k, BandCount)) : k \in 0 .. BandCount}

\* Mutant: the top band leaves out those who have the highest score.
TopBand_Open(population, edge) == {s \in DOMAIN population.good : s > edge}

\* The top band is closed at the highest score.
TopBand(population, edge) == AtLeast(population, edge)

\* _band_table: lower edge and population of the bands that have any.
BandTable(population) ==
  LET cuts == BandEdges(population)
      Upper(e) == Min({d \in cuts : d > e})
      Band(e) == [from |-> e,
                  population |->
                    Number(population, IF e = Max(cuts) THEN TopBand(population, e)
                                       ELSE Between(population, e, Upper(e)))]
  IN {band \in {Band(e) : e \in cuts} : band.population > 0}

\* _swap_set: who is on the other side of the proposed cut-off.
Moved(population, current, proposed) ==
  Number(population, Between(population, Min({current, proposed}), Max({current, proposed})))
=============================================================================
