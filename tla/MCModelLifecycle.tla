--------------------------- MODULE MCModelLifecycle ---------------------------
(* ModelLifecycle for TLC.  The development samples have up to four         *)
(* applicants per value, with every mix that makes bins small, empty or out *)
(* of order.  Later samples have applicants with the lowest, the middle and *)
(* the highest value in everything, and one with no bureau record.          *)
EXTENDS ModelLifecycle, TLC

CONSTANTS Absent, dsr, dpd, age

MCValues == 1 .. 5
MCCharacteristics == <<dsr, dpd, age>>
MCBureau == {dpd}
MCWeight == (dsr :> 4) @@ (dpd :> 5) @@ (age :> 3)

Mixes == {<<0, 0>>, <<4, 0>>, <<2, 1>>, <<1, 3>>}
MissingMixes == {<<0, 0>>, <<1, 1>>}

MCDevelopmentSamples ==
  {[good |-> [v \in Values \cup {Missing} |-> IF v = Missing THEN m[1] ELSE mix[v][1]],
    bad  |-> [v \in Values \cup {Missing} |-> IF v = Missing THEN m[2] ELSE mix[v][2]]] :
     mix \in [Values -> Mixes], m \in MissingMixes}

Alike(v) == [c \in Named |-> v]

MCSampled == {Alike(1), Alike(3), Alike(5), [Alike(3) EXCEPT ![dpd] = Absent]}
MCCells == {[good |-> 0, bad |-> 0], [good |-> 2, bad |-> 0], [good |-> 2, bad |-> 1], [good |-> 1, bad |-> 2]}
MCReferences == {0, 4}
MCLives == {0, 1, 2}
=============================================================================
