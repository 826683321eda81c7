-------------------------- MODULE TextDiff_proofs --------------------------
(* Proofs about TextDiff: what the common prefix and suffix are, and that  *)
(* an edit that cuts no surrogate pair turns the old text into the new one.*)
EXTENDS TextDiff, Integers, SequenceTheorems, WellFoundedInduction, TLAPS

\* A set of numbers that is not empty has a least one.
LEMMA LeastIsLeast ==
    ASSUME NEW S \in SUBSET Nat, S # {}
    PROVE  Least(S) \in S /\ \A y \in S : Least(S) <= y
<1>1. \E x \in S : \A y \in S : ~(<<y, x>> \in OpToRel(<, Nat))
  BY NatLessThanWellFounded, WFMin
<1>2. PICK x \in S : \A y \in S : ~(<<y, x>> \in OpToRel(<, Nat))
  BY <1>1
<1>3. ASSUME NEW y \in S PROVE x <= y
  <2>1. x \in Nat /\ y \in Nat
    OBVIOUS
  <2>2. ~(y < x)
    BY <1>2, <2>1 DEF OpToRel
  <2>3. QED
    BY <2>1, <2>2
<1>4. \E z \in S : \A y \in S : z <= y
  BY <1>3
<1>5. QED
  BY <1>4 DEF Least

\* The common prefix is common to both texts, and no longer than either.
LEMMA PrefixFacts ==
    ASSUME NEW Unit, NEW a \in Seq(Unit), NEW b \in Seq(Unit)
    PROVE  /\ Prefix(a, b) \in 0..Shorter(a, b)
           /\ \A i \in 1..Prefix(a, b) : a[i] = b[i]
<1> DEFINE m == Shorter(a, b)
           S == {s \in 0..m : s = m \/ a[s + 1] # b[s + 1]}
<1>1. m \in Nat /\ Len(a) \in Nat /\ Len(b) \in Nat
  BY DEF Shorter
<1>2. m \in S /\ S \in SUBSET Nat
  BY <1>1
<1>3. Prefix(a, b) \in S /\ \A y \in S : Prefix(a, b) <= y
  BY <1>2, LeastIsLeast DEF Prefix
<1>4. Prefix(a, b) \in 0..m
  BY <1>3
<1>5. ASSUME NEW i \in 1..Prefix(a, b) PROVE a[i] = b[i]
  <2>1. i - 1 \in 0..m /\ i - 1 # m /\ ~(Prefix(a, b) <= i - 1) /\ (i - 1) + 1 = i
    BY <1>1, <1>4
  <2>2. i - 1 \notin S
    BY <1>3, <2>1
  <2>3. QED
    BY <2>1, <2>2
<1>6. QED
  BY <1>4, <1>5

\* The common suffix is common to both texts and does not reach the prefix.
LEMMA SuffixFacts ==
    ASSUME NEW Unit, NEW a \in Seq(Unit), NEW b \in Seq(Unit)
    PROVE  /\ Suffix(a, b) \in 0..(Shorter(a, b) - Prefix(a, b))
           /\ \A i \in 1..Suffix(a, b) : a[Len(a) - i + 1] = b[Len(b) - i + 1]
<1> DEFINE m == Shorter(a, b) - Prefix(a, b)
           S == {e \in 0..m : e = m \/ a[Len(a) - e] # b[Len(b) - e]}
<1>1. m \in Nat /\ Len(a) \in Nat /\ Len(b) \in Nat
  BY PrefixFacts DEF Shorter
<1>2. m \in S /\ S \in SUBSET Nat
  BY <1>1
<1>3. Suffix(a, b) \in S /\ \A y \in S : Suffix(a, b) <= y
  BY <1>2, LeastIsLeast DEF Suffix
<1>4. Suffix(a, b) \in 0..m
  BY <1>3
<1>5. ASSUME NEW i \in 1..Suffix(a, b)
      PROVE  a[Len(a) - i + 1] = b[Len(b) - i + 1]
  <2>1. i - 1 \in 0..m /\ i - 1 # m /\ ~(Suffix(a, b) <= i - 1)
    BY <1>1, <1>4
  <2>2. Len(a) - (i - 1) = Len(a) - i + 1 /\ Len(b) - (i - 1) = Len(b) - i + 1
    BY <1>1
  <2>3. i - 1 \notin S
    BY <1>3, <2>1
  <2>4. a[Len(a) - (i - 1)] = b[Len(b) - (i - 1)]
    BY <2>1, <2>3
  <2>5. QED
    BY <2>2, <2>4
<1>6. QED
  BY <1>4, <1>5

\* What is left of the old text and what is put in are the new text, if the
\* ends that are left are those of the new text.
LEMMA SpliceIsNew ==
    ASSUME NEW Unit, NEW old \in Seq(Unit), NEW new \in Seq(Unit),
           NEW s \in Nat, NEW e \in Nat, s + e <= Len(old), s + e <= Len(new),
           \A i \in 1..s : old[i] = new[i],
           \A i \in 1..e : old[Len(old) - i + 1] = new[Len(new) - i + 1]
    PROVE  SubSeq(old, 1, s) \o SubSeq(new, s + 1, Len(new) - e)
                \o SubSeq(old, Len(old) - e + 1, Len(old)) = new
<1> DEFINE x == SubSeq(old, 1, s)
           y == SubSeq(new, s + 1, Len(new) - e)
           z == SubSeq(old, Len(old) - e + 1, Len(old))
<1>0. Len(old) \in Nat /\ Len(new) \in Nat
  OBVIOUS
<1>1. x \in Seq(Unit) /\ Len(x) = s /\ \A i \in 1..s : x[i] = old[i]
  BY <1>0, SubSeqProperties
<1>2. y \in Seq(Unit) /\ Len(y) = Len(new) - e - s
      /\ \A i \in 1..(Len(new) - e - s) : y[i] = new[s + i]
  BY <1>0, SubSeqProperties
<1>3. z \in Seq(Unit) /\ Len(z) = e /\ \A i \in 1..e : z[i] = old[Len(old) - e + i]
  BY <1>0, SubSeqProperties
<1> HIDE DEF x, y, z
<1>4. x \o y \in Seq(Unit) /\ Len(x \o y) = Len(new) - e
      /\ \A i \in 1..(Len(new) - e) : (x \o y)[i] = IF i <= s THEN x[i] ELSE y[i - s]
  <2>1. /\ x \o y \in Seq(Unit) /\ Len(x \o y) = Len(x) + Len(y)
        /\ \A i \in 1..(Len(x) + Len(y)) :
                (x \o y)[i] = IF i <= Len(x) THEN x[i] ELSE y[i - Len(x)]
    BY <1>1, <1>2, ConcatProperties
  <2>2. Len(x) + Len(y) = Len(new) - e
    BY <1>0, <1>1, <1>2
  <2>3. QED
    BY <1>1, <2>1, <2>2
<1>5. \A i \in 1..(Len(new) - e) : (x \o y)[i] = new[i]
  <2> TAKE i \in 1..(Len(new) - e)
  <2>1. CASE i <= s
    <3>1. i \in 1..s
      BY <1>0, <2>1
    <3>2. QED
      BY <1>1, <1>4, <2>1, <3>1
  <2>2. CASE ~(i <= s)
    <3>1. i - s \in 1..(Len(new) - e - s) /\ s + (i - s) = i
      BY <1>0, <2>2
    <3>2. QED
      BY <1>2, <1>4, <2>2, <3>1
  <2>3. QED
    BY <2>1, <2>2
<1>6. \A i \in 1..e : z[i] = new[Len(new) - e + i]
  <2> TAKE i \in 1..e
  <2>1. e - i + 1 \in 1..e
        /\ Len(old) - (e - i + 1) + 1 = Len(old) - e + i
        /\ Len(new) - (e - i + 1) + 1 = Len(new) - e + i
    BY <1>0
  <2>2. old[Len(old) - (e - i + 1) + 1] = new[Len(new) - (e - i + 1) + 1]
    BY <2>1
  <2>3. QED
    BY <1>3, <2>1, <2>2
<1>7. (x \o y) \o z \in Seq(Unit) /\ Len((x \o y) \o z) = Len(new)
      /\ \A i \in 1..Len(new) : ((x \o y) \o z)[i] =
            IF i <= Len(new) - e THEN (x \o y)[i] ELSE z[i - (Len(new) - e)]
  <2>1. /\ (x \o y) \o z \in Seq(Unit) /\ Len((x \o y) \o z) = Len(x \o y) + Len(z)
        /\ \A i \in 1..(Len(x \o y) + Len(z)) : ((x \o y) \o z)[i] =
                IF i <= Len(x \o y) THEN (x \o y)[i] ELSE z[i - Len(x \o y)]
    <3> DEFINE w == x \o y
    <3>1. w \in Seq(Unit) /\ z \in Seq(Unit)
      BY <1>3, <1>4
    <3> HIDE DEF w
    <3>2. /\ w \o z \in Seq(Unit) /\ Len(w \o z) = Len(w) + Len(z)
          /\ \A i \in 1..(Len(w) + Len(z)) :
                (w \o z)[i] = IF i <= Len(w) THEN w[i] ELSE z[i - Len(w)]
      BY <3>1, ConcatProperties
    <3>3. QED
      BY <3>2 DEF w
  <2>2. Len(x \o y) + Len(z) = Len(new)
    BY <1>0, <1>3, <1>4
  <2>3. QED
    BY <1>4, <2>1, <2>2
<1>8. \A i \in 1..Len(new) : ((x \o y) \o z)[i] = new[i]
  <2> TAKE i \in 1..Len(new)
  <2>1. CASE i <= Len(new) - e
    <3>1. i \in 1..(Len(new) - e)
      BY <1>0, <2>1
    <3>2. QED
      BY <1>5, <1>7, <2>1, <3>1
  <2>2. CASE ~(i <= Len(new) - e)
    <3>1. i - (Len(new) - e) \in 1..e /\ Len(new) - e + (i - (Len(new) - e)) = i
      BY <1>0, <2>2
    <3>2. z[i - (Len(new) - e)] = new[Len(new) - e + (i - (Len(new) - e))]
      BY <1>6, <3>1
    <3>3. QED
      BY <1>7, <2>2, <3>1, <3>2
  <2>3. QED
    BY <2>1, <2>2
<1>9. QED
  BY <1>7, <1>8, SeqEqual DEF x, y, z

\* Reloading from disk (applyTextToYText): whatever the two texts are, the
\* shared document gets the very text that was on disk, if the edit begins and
\* ends between characters.
THEOREM ReloadIsExact ==
    ASSUME NEW Unit, NEW old \in Seq(Unit), NEW new \in Seq(Unit),
           ~CutsPair(old, new)
    PROVE  Exact(old, new)
<1> DEFINE s == Prefix(old, new)
           e == Suffix(old, new)
<1>1. Len(old) \in Nat /\ Len(new) \in Nat
  OBVIOUS
<1>2. /\ s \in Nat /\ e \in Nat /\ s + e <= Len(old) /\ s + e <= Len(new)
      /\ \A i \in 1..s : old[i] = new[i]
      /\ \A i \in 1..e : old[Len(old) - i + 1] = new[Len(new) - i + 1]
  <2>1. /\ s \in 0..Shorter(old, new)
        /\ \A i \in 1..s : old[i] = new[i]
    BY PrefixFacts
  <2>2. /\ e \in 0..(Shorter(old, new) - s)
        /\ \A i \in 1..e : old[Len(old) - i + 1] = new[Len(new) - i + 1]
    BY SuffixFacts
  <2>3. QED
    BY <1>1, <2>1, <2>2 DEF Shorter
<1>3. Cut(old, s) = old
  BY <1>1, <1>2 DEF Cut, CutsPair
<1>4. Cut(old, Len(old) - e) = old
  BY <1>1, <1>2 DEF Cut, CutsPair
<1>5. SubSeq(old, 1, s) \o SubSeq(new, s + 1, Len(new) - e)
            \o SubSeq(old, Len(old) - e + 1, Len(old)) = new
  BY <1>2, SpliceIsNew
<1>6. QED
  BY <1>3, <1>4, <1>5 DEF Exact, ApplyTextToYText

\* In particular texts without surrogate pairs are always reloaded exactly.
THEOREM PlainReloadIsExact ==
    ASSUME NEW Unit, NEW old \in Seq(Unit), NEW new \in Seq(Unit),
           Unit \cap High = {}
    PROVE  Exact(old, new)
<1>1. \A i \in 1..Len(old) : old[i] \notin High
  OBVIOUS
<1>2. Len(old) \in Nat /\ Prefix(old, new) \in Nat /\ Suffix(old, new) \in Nat
  BY PrefixFacts, SuffixFacts DEF Shorter
<1>3. ~CutsPair(old, new)
  BY <1>1, <1>2 DEF CutsPair
<1>4. QED
  BY <1>3, ReloadIsExact
=============================================================================
