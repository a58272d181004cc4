----------------------------- MODULE TechIndex -----------------------------
(* The operator of strategy/tech_index.h that the risk control uses, over
   doubles that are integers or NaN.                                        *)
EXTENDS Integers, Sequences

CONSTANT NaN

ASSUME NaNAssumption == NaN \notin Int

\* `a < b` of the language: no comparison with NaN holds.
Less(a, b) == a # NaN /\ b # NaN /\ a < b

\* Mutant: NaN elements are never the result.
SkipNaN(m, vec) ==
  IF Len(vec) = 0 THEN m = -1
  ELSE /\ \E i \in 1 .. Len(vec) : vec[i] = m
       /\ m # NaN
       /\ \A i \in 1 .. Len(vec) : ~ Less(vec[i], m)

\* MIN's loop replaces its candidate, the first element, by each later element
\* that is smaller: a first element NaN is never replaced, a later NaN never
\* taken.  The minimum of nothing is -1.
IsMIN(m, vec) ==
  IF Len(vec) = 0 THEN m = -1
  ELSE IF vec[1] = NaN THEN m = NaN
  ELSE /\ \E i \in 1 .. Len(vec) : vec[i] = m
       /\ m # NaN
       /\ \A i \in 1 .. Len(vec) : ~ Less(vec[i], m)

\* MIN as the loop computes it.
LoopMIN(vec) ==
  IF Len(vec) = 0 THEN -1
  ELSE LET min[i \in 1 .. Len(vec)] ==
             IF i = 1 THEN vec[1]
             ELSE IF Less(vec[i], min[i - 1]) THEN vec[i] ELSE min[i - 1]
       IN min[Len(vec)]
=============================================================================
