----------------------------- MODULE MCDocView -----------------------------
(* Instances of DocView for TLC, and the text algorithm of its page on all *)
(* texts of up to four units, some of them halves of surrogate pairs.      *)
EXTENDS DocView, TLC

Diff == INSTANCE TextDiff WITH High <- {"h"}, Broken <- "?"

Strings == UNION {[1..n -> {"a", "h", "l", "m"}] : n \in 0..4}

\* A text without half a surrogate pair.
WellFormed(t) == \A i \in 1..Len(t) :
    /\ t[i] = "h" => i < Len(t) /\ t[i + 1] \in {"l", "m"}
    /\ t[i] \in {"l", "m"} => i > 1 /\ t[i - 1] = "h"

ASSUME DiffAssumption ==
    \A old, new \in Strings :
        /\ Diff!Minimal(old, new)
        /\ ~Diff!CutsPair(old, new) => Diff!Exact(old, new)
        /\ WellFormed(old) /\ WellFormed(new) /\ Diff!CutsPair(old, new) /\ old # new
              => ~Diff!Exact(old, new)

\* ... which does happen: one character of such a text is replaced.
ASSUME CutAssumption ==
    \E old, new \in Strings :
        WellFormed(old) /\ WellFormed(new) /\ Diff!CutsPair(old, new) /\ old # new
=============================================================================
