------------------------------- MODULE Samples -------------------------------
(* Samples of whole numbers, as how often each number occurs, and what the  *)
(* statistics of the model/ and monitoring code take from them.             *)
EXTENDS Integers, FiniteSetsExt

Total(count, S) == MapThenSumSet(LAMBDA v : count[v], S)

Size(count) == Total(count, DOMAIN count)

\* The members of a set in order, and numbers from the least to the greatest.
Sorted(S, Before(_, _)) ==
  [i \in 1 .. Cardinality(S) |-> CHOOSE v \in S : Cardinality({w \in S : Before(w, v)}) = i - 1]

Ascending(S) == Sorted(S, <)

\* The value at position i, counted from 0, of the sample in order.
Nth(count, i) ==
  CHOOSE v \in DOMAIN count :
    LET below == Total(count, {w \in DOMAIN count : w < v})
    IN below <= i /\ i < below + count[v]

\* numpy's percentile and quantile for the k-th of `parts` equal parts, in
\* units of 1/parts: linear between the two nearest members.
Interpolated(count, k, parts) ==
  LET h     == k * (Size(count) - 1)
      lower == Nth(count, h \div parts)
      upper == Nth(count, Min({h \div parts + 1, Size(count) - 1}))
  IN lower * parts + (h % parts) * (upper - lower)
=============================================================================
