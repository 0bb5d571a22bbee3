------------------------------ MODULE Scorecard ------------------------------
(***************************************************************************)
(* core/scorecard.py: from the values of an applicant to a score and its   *)
(* reason codes, with the artefact that model building leaves.             *)
(*                                                                         *)
(* The weight of evidence of a bin is represented by how many bins it is   *)
(* better than, and a coefficient by the points that is worth each; a      *)
(* negative number is a characteristic that was kept with the wrong sign.  *)
(* All characteristics are binned on the same sample.                      *)
(***************************************************************************)
EXTENDS Binning

CONSTANTS
  Characteristics,   \* of the BUREAU segment, in the artefact's order
  Bureau,            \* those of them that need a bureau record
  Weight,            \* points per rank
  BaseScore, MinScore, MaxScore,
  MaxReasons,        \* max_reasons
  Materiality        \* materiality_points

ASSUME ScorecardAssumption ==
  /\ Characteristics \in Seq(Range(Characteristics)) /\ Bureau \subseteq Range(Characteristics)
  /\ {"INSUFFICIENT_INFORMATION", "NO_BUREAU_RECORD"} \cap Range(Characteristics) = {}
  /\ Weight \in [Range(Characteristics) -> Int]
  /\ BaseScore \in Int /\ MinScore \in Nat /\ MaxScore \in Nat /\ MinScore <= MaxScore
  /\ MaxReasons \in Nat /\ Materiality \in Nat \ {0}

Named == Range(Characteristics)
Profiles == [Named -> Values \cup {Missing}]

-----------------------------------------------------------------------------
(* The artefact.                                                            *)

Seen == Populated(edges) \cup {b \in {Missing} : Count(b, edges) > 0}
Labels == 0 .. Len(edges) \cup {Missing}

\* The smoothed odds of a bin; an unseen bin has the odds of the whole sample.
Odds(b) ==
  IF b \in Seen
  THEN [good |-> 2 * Goods(b, edges) + 1, bad |-> 2 * Bads(b, edges) + 1]
  ELSE [good |-> Total(sample.good, DOMAIN sample.good) + 1,
        bad  |-> Total(sample.bad, DOMAIN sample.bad) + 1]

Better(o, p) == o.good * p.bad > p.good * o.bad

Rank(b) == Cardinality({l \in Labels : Better(Odds(b), Odds(l))})

\* What build() writes of the binning, and load() reads.
Artefact ==
  [edges  |-> edges,
   points |-> [b \in Labels |-> Rank(b)],
   seen   |-> Seen,
   best   |-> Max({Rank(b) : b \in Seen})]

-----------------------------------------------------------------------------
(* Scoring with a card.                                                     *)

\* Mutant: an edge belongs to the bin above it.
bin_for_Excludes(card, v) ==
  IF v = Missing THEN Missing
  ELSE IF \E i \in DOMAIN card.edges : v * Bins < card.edges[i]
       THEN Min({i \in DOMAIN card.edges : v * Bins < card.edges[i]}) - 1
       ELSE Len(card.edges)

bin_for(card, v) ==
  IF v = Missing THEN Missing
  ELSE IF \E i \in DOMAIN card.edges : v * Bins <= card.edges[i]
       THEN Min({i \in DOMAIN card.edges : v * Bins <= card.edges[i]}) - 1
       ELSE Len(card.edges)

select_segment(values) ==
  IF \E c \in Bureau : values[c] # Missing THEN "BUREAU" ELSE "THIN"

Scored(segment) == IF segment = "BUREAU" THEN Named ELSE Named \ Bureau

Contribution(card, c, v) == Weight[c] * card.points[bin_for(card, v)]

\* points_lost
Lost(card, c, v) == Max({Weight[c] * card.best - Contribution(card, c, v), 0})

RawScore(card, values, segment) ==
  BaseScore + Total([c \in Named |-> Contribution(card, c, values[c])], Scored(segment))

ScoreOf(card, values) ==
  Max({MinScore, Min({MaxScore, RawScore(card, values, select_segment(values))})})

Position(c) == CHOOSE i \in DOMAIN Characteristics : Characteristics[i] = c

\* Mutant: a characteristic without a value is given as a reason.
Reportable_MissingToo(card, values, segment) ==
  {c \in Scored(segment) : Lost(card, c, values[c]) >= Materiality}

\* The characteristics that may be given as a reason.
Reportable(card, values, segment) ==
  {c \in Scored(segment) :
     /\ Lost(card, c, values[c]) >= Materiality
     /\ bin_for(card, values[c]) # Missing}

\* The reason codes, worst first; equal losses stay in the artefact's order.
ReasonCodes(card, values, dq) ==
  LET segment == select_segment(values)
      WorseThan(c, d) ==
        \/ Lost(card, c, values[c]) > Lost(card, d, values[d])
        \/ Lost(card, c, values[c]) = Lost(card, d, values[d]) /\ Position(c) < Position(d)
      worstFirst == Sorted(Reportable(card, values, segment), WorseThan)
      substantive == SubSeq(worstFirst, 1, Min({MaxReasons, Len(worstFirst)}))
  IN IF dq = "BLOCK" THEN <<"INSUFFICIENT_INFORMATION">>
     ELSE IF segment = "THIN" THEN Append(substantive, "NO_BUREAU_RECORD")
     ELSE substantive
=============================================================================
