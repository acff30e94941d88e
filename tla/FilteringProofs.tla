--------------------------- MODULE FilteringProofs ---------------------------
(***************************************************************************)
(* What AtPositions keeps, for every sequence: its elements are those of   *)
(* the kept positions, one for each, and a tail when these are a tail.     *)
(***************************************************************************)
EXTENDS Filtering, Sequences, FiniteSetTheorems, WellFoundedInduction, TLAPS

\* Every nonempty set of naturals has a least element: what the proofs here use in
\* the place of induction.
LEMMA Least ==
    ASSUME NEW T \in SUBSET Nat, T # {}
    PROVE  \E x \in T : \A y \in T : x <= y
<1>1. PICK x \in T : \A y \in T : ~(<<y, x>> \in OpToRel(<, Nat))
  BY WFMin, NatLessThanWellFounded
<1>2. \A y \in T : ~(y < x)
  BY <1>1 DEF OpToRel
<1> QED
  BY <1>2

LEMMA RanksAreFinite ==
    ASSUME NEW len \in Nat, NEW kept \in SUBSET (1..len), NEW i \in Nat
    PROVE  /\ IsFiniteSet(kept) /\ Cardinality(kept) \in Nat
           /\ IsFiniteSet({j \in kept : j <= i}) /\ Rank(kept, i) \in Nat
           /\ Rank(kept, i) <= Cardinality(kept)
<1>1. IsFiniteSet(1..len)
  BY FS_Interval
<1>2. IsFiniteSet(kept)
  BY <1>1, FS_Subset
<1>3. {j \in kept : j <= i} \in SUBSET kept
  OBVIOUS
<1> QED
  BY <1>2, <1>3, FS_Subset, FS_CardinalityType DEF Rank

\* Passing one more position adds it to the rank if it is kept.
LEMMA RankStep ==
    ASSUME NEW len \in Nat, NEW kept \in SUBSET (1..len), NEW i \in Nat \ {0}
    PROVE  Rank(kept, i) = IF i \in kept THEN Rank(kept, i - 1) + 1 ELSE Rank(kept, i - 1)
<1> DEFINE before == {j \in kept : j <= i - 1}
<1>1. IsFiniteSet(before)
  BY RanksAreFinite
<1>2. {j \in kept : j <= i} = IF i \in kept THEN before \union {i} ELSE before
  <2>1. \A j \in kept : j \in Nat /\ (j <= i <=> j <= i - 1 \/ j = i)
    OBVIOUS
  <2> QED
    BY <2>1
<1>3. i \notin before
  OBVIOUS
<1> QED
  BY <1>1, <1>2, <1>3, FS_AddElement DEF Rank

\* Two kept positions have two ranks, and the ranks are 1 to the number of them.
LEMMA RanksAreDistinct ==
    ASSUME NEW len \in Nat, NEW kept \in SUBSET (1..len),
           NEW i \in kept, NEW j \in kept, Rank(kept, i) = Rank(kept, j)
    PROVE  i = j
<1>1. ASSUME NEW a \in kept, NEW b \in kept, a < b
      PROVE  Rank(kept, a) < Rank(kept, b)
  <2>1. a \in Nat /\ b \in Nat \ {0} /\ b - 1 \in Nat
    OBVIOUS
  <2>2. {k \in kept : k <= a} \in SUBSET {k \in kept : k <= b - 1}
    <3>1. \A k \in kept : k <= a => k <= b - 1
      BY <1>1
    <3> QED
      BY <3>1
  <2>3. Rank(kept, a) <= Rank(kept, b - 1)
    BY <2>1, <2>2, RanksAreFinite, FS_Subset DEF Rank
  <2>4. Rank(kept, b) = Rank(kept, b - 1) + 1
    BY <2>1, RankStep
  <2>5. Rank(kept, a) \in Nat /\ Rank(kept, b - 1) \in Nat
    BY <2>1, RanksAreFinite
  <2> QED
    BY <2>3, <2>4, <2>5
<1>2. i \in Nat /\ j \in Nat
  OBVIOUS
<1>3. Rank(kept, i) \in Nat /\ Rank(kept, j) \in Nat
  BY <1>2, RanksAreFinite
<1> QED
  BY <1>1, <1>2, <1>3

LEMMA EveryRankIsTaken ==
    ASSUME NEW len \in Nat, NEW kept \in SUBSET (1..len), NEW n \in 1..Cardinality(kept)
    PROVE  \E i \in kept : Rank(kept, i) = n
<1> DEFINE reached == {i \in Nat : Rank(kept, i) >= n}
<1>1. len \in reached
  <2>1. \A j \in kept : j <= len
    OBVIOUS
  <2>2. {j \in kept : j <= len} = kept
    BY <2>1
  <2>3. Rank(kept, len) = Cardinality(kept) /\ Cardinality(kept) \in Nat
    BY <2>2, RanksAreFinite DEF Rank
  <2> QED
    BY <2>3
<1>2. PICK i \in reached : \A k \in reached : i <= k
  BY <1>1, Least
<1>3. i # 0
  <2>1. \A j \in kept : ~(j <= 0)
    OBVIOUS
  <2>2. Rank(kept, 0) = 0
    BY <2>1, FS_EmptySet DEF Rank
  <2> QED
    BY <2>2
<1>4. i - 1 \in Nat /\ i - 1 \notin reached
  BY <1>2, <1>3
<1>6. Rank(kept, i - 1) \in Nat /\ Rank(kept, i) \in Nat /\ Cardinality(kept) \in Nat
  BY <1>4, RanksAreFinite
<1>5. Rank(kept, i) = IF i \in kept THEN Rank(kept, i - 1) + 1 ELSE Rank(kept, i - 1)
  BY <1>3, RankStep
<1> QED
  BY <1>4, <1>5, <1>6

\* Filtering a sequence gives one element for each kept position, and no other.
THEOREM AtPositionsKeeps ==
    ASSUME NEW len \in Nat, NEW s, DOMAIN s = 1..len, NEW kept \in SUBSET (1..len)
    PROVE  /\ Cardinality(kept) \in Nat /\ DOMAIN AtPositions(s, kept) = 1..Cardinality(kept)
           /\ \A n \in 1..Cardinality(kept) : \E i \in kept :
                 Rank(kept, i) = n /\ AtPositions(s, kept)[n] = s[i]
<1>1. Cardinality(kept) \in Nat
  BY RanksAreFinite
<1>2. ASSUME NEW n \in 1..Cardinality(kept)
      PROVE  \E i \in kept : Rank(kept, i) = n /\ AtPositions(s, kept)[n] = s[i]
  <2> DEFINE i == CHOOSE k \in kept : Rank(kept, k) = n
  <2>1. i \in kept /\ Rank(kept, i) = n
    BY EveryRankIsTaken
  <2> QED
    BY <2>1 DEF AtPositions
<1> QED
  BY <1>1, <1>2 DEF AtPositions

\* What is kept of a sequence over a set is a sequence over it.
LEMMA AtPositionsIsSeq ==
    ASSUME NEW S, NEW s \in Seq(S), NEW kept \in SUBSET DOMAIN s
    PROVE  AtPositions(s, kept) \in Seq(S) /\ Len(AtPositions(s, kept)) = Cardinality(kept)
<1>1. Len(s) \in Nat /\ DOMAIN s = 1..Len(s)
  OBVIOUS
<1>2. Cardinality(kept) \in Nat
  BY <1>1, RanksAreFinite
<1>3. \A n \in 1..Cardinality(kept) : AtPositions(s, kept)[n] \in S
  BY <1>1, AtPositionsKeeps
<1>4. AtPositions(s, kept) \in [1..Cardinality(kept) -> S]
  BY <1>3 DEF AtPositions
<1> QED
  BY <1>2, <1>4

\* When the kept positions are the last ones, the result is the tail of the sequence.
LEMMA KeepingATail ==
    ASSUME NEW len \in Nat, NEW s, NEW m \in 0..len
    PROVE  AtPositions(s, (m + 1)..len) = [n \in 1..(len - m) |-> s[m + n]]
<1> DEFINE kept == (m + 1)..len
<1>1. Cardinality(kept) = len - m
  <2>1. Cardinality(kept) = IF m + 1 > len THEN 0 ELSE len - (m + 1) + 1
    BY FS_Interval
  <2> QED
    BY <2>1
<1>2. ASSUME NEW n \in 1..(len - m)
      PROVE  (CHOOSE i \in kept : Rank(kept, i) = n) = m + n
  <2>1. ASSUME NEW i \in kept
        PROVE  Rank(kept, i) = i - m
    <3>1. \A j : j \in kept /\ j <= i <=> j \in (m + 1)..i
      OBVIOUS
    <3>2. {j \in kept : j <= i} = (m + 1)..i
      BY <3>1
    <3>3. i \in Int /\ m + 1 \in Int /\ i >= m + 1 /\ m \in Int
      OBVIOUS
    <3>4. Rank(kept, i) = Cardinality((m + 1)..i)
      BY <3>2 DEF Rank
    <3> HIDE DEF kept
    <3>5. Cardinality((m + 1)..i) = IF m + 1 > i THEN 0 ELSE i - (m + 1) + 1
      BY <3>3, FS_Interval
    <3> QED
      BY <3>3, <3>4, <3>5
  <2>2. m + n \in kept /\ Rank(kept, m + n) = n
    BY <2>1
  <2>3. \A i \in kept : Rank(kept, i) = n => i = m + n
    BY <2>1
  <2> QED
    BY <2>2, <2>3
<1> HIDE DEF kept
<1>3. AtPositions(s, kept) = [n \in 1..(len - m) |-> s[CHOOSE i \in kept : Rank(kept, i) = n]]
  BY <1>1 DEF AtPositions
<1>4. AtPositions(s, kept) = [n \in 1..(len - m) |-> s[m + n]]
  BY <1>2, <1>3
<1> QED
  BY <1>4 DEF kept

\* What is above a limit in a sequence that never falls is a tail of it.
Above(s, limit) == AtPositions(s, {i \in DOMAIN s : s[i] > limit})
Rest(s, len, m) == [n \in 1..(len - m) |-> s[m + n]]

LEMMA FilteringSorted ==
    ASSUME NEW len \in Nat, NEW s, DOMAIN s = 1..len, NEW limit \in Int,
           \A i \in 1..len : s[i] \in Int,
           \A i, j \in 1..len : i <= j => s[i] <= s[j]
    PROVE  \E m \in 0..len :
              /\ \A i \in 1..m : s[i] <= limit
              /\ \A i \in (m + 1)..len : s[i] > limit
              /\ Above(s, limit) = Rest(s, len, m)
<1> DEFINE above == {i \in DOMAIN s : s[i] > limit}
<1>1. ASSUME NEW m \in 0..len,
             \A i \in 1..m : s[i] <= limit, \A i \in (m + 1)..len : s[i] > limit
      PROVE  AtPositions(s, above) = [n \in 1..(len - m) |-> s[m + n]]
  <2>1. \A i : i \in above <=> i \in (m + 1)..len
    <3>1. \A i \in (m + 1)..len : i \in 1..len /\ s[i] > limit
      BY <1>1
    <3>2. \A i \in 1..len : i \in 1..m \/ i \in (m + 1)..len
      OBVIOUS
    <3>3. \A i \in 1..m : ~(s[i] > limit)
      BY <1>1
    <3> QED
      BY <3>1, <3>2, <3>3
  <2>2. above = (m + 1)..len
    BY <2>1
  <2>3. AtPositions(s, (m + 1)..len) = [n \in 1..(len - m) |-> s[m + n]]
    BY KeepingATail
  <2> QED
    BY <2>2, <2>3
<1>2. \E m \in 0..len : (\A i \in 1..m : s[i] <= limit) /\ (\A i \in (m + 1)..len : s[i] > limit)
  <2>1. CASE above = {}
    BY <2>1
  <2>2. CASE above # {}
    <3>1. above \in SUBSET Nat
      OBVIOUS
    <3>2. PICK first \in above : \A i \in above : first <= i
      BY <2>2, <3>1, Least
    <3>3. first - 1 \in 0..len /\ first \in 1..len /\ s[first] > limit
      OBVIOUS
    <3>4. \A i \in 1..(first - 1) : s[i] <= limit
      BY <3>2, <3>3
    <3>5. \A i \in ((first - 1) + 1)..len : s[i] > limit
      BY <3>3
    <3> QED
      BY <3>3, <3>4, <3>5
  <2> QED
    BY <2>1, <2>2
<1> QED
  BY <1>1, <1>2 DEF Above, Rest
=============================================================================
