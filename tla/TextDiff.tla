------------------------------ MODULE TextDiff ------------------------------
(***************************************************************************)
(* How the page puts a new text into a live Y.Text: the common prefix and  *)
(* suffix of both texts stay, the rest is replaced in one transaction.     *)
(* Texts are sequences of UTF-16 units, as JavaScript strings are; Y.Text  *)
(* never keeps half of a surrogate pair: cutting one replaces both halves. *)
(***************************************************************************)
EXTENDS Naturals, Sequences

CONSTANTS High,   \* the units that begin a surrogate pair
          Broken  \* the unit that stands for half a pair, U+FFFD

Least(S) == CHOOSE x \in S : \A y \in S : x <= y

Shorter(a, b) == IF Len(a) <= Len(b) THEN Len(a) ELSE Len(b)

\* Where the loop over the common prefix ends: at the first difference.
Prefix(a, b) ==
    Least({s \in 0..Shorter(a, b) : s = Shorter(a, b) \/ a[s + 1] # b[s + 1]})

\* Likewise from the end of the texts, but it never reaches into the prefix.
Suffix(a, b) ==
    LET rest == Shorter(a, b) - Prefix(a, b) IN
    Least({e \in 0..rest : e = rest \/ a[Len(a) - e] # b[Len(b) - e]})

\* Y.Text cuts its item before unit k + 1.
Cut(t, k) ==
    IF 0 < k /\ k < Len(t) /\ t[k] \in High
    THEN [t EXCEPT ![k] = Broken, ![k + 1] = Broken] ELSE t

\* delete and insert; nothing happens to equal texts.
ApplyTextToYText(old, new) ==
    IF old = new THEN old
    ELSE LET s == Prefix(old, new)
             e == Suffix(old, new)
             t == Cut(Cut(old, s), Len(old) - e)
         IN  SubSeq(t, 1, s) \o SubSeq(new, s + 1, Len(new) - e)
                \o SubSeq(t, Len(old) - e + 1, Len(old))

----------------------------------------------------------------------------
(* Properties *)

\* The edit begins or ends within a surrogate pair of the old text.
CutsPair(old, new) ==
    \/ Prefix(old, new) \in 1..(Len(old) - 1) /\ old[Prefix(old, new)] \in High
    \/ Suffix(old, new) \in 1..(Len(old) - 1) /\ old[Len(old) - Suffix(old, new)] \in High

\* The document gets the very text that was on disk.
Exact(old, new) == ApplyTextToYText(old, new) = new

\* No edit in one place leaves more of the old text untouched.
Minimal(old, new) ==
    \A s \in 0..Shorter(old, new) : \A e \in 0..(Shorter(old, new) - s) :
        (/\ SubSeq(old, 1, s) = SubSeq(new, 1, s)
         /\ SubSeq(old, Len(old) - e + 1, Len(old)) = SubSeq(new, Len(new) - e + 1, Len(new)))
        => s + e <= Prefix(old, new) + Suffix(old, new)
=============================================================================
