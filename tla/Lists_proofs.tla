---------------------------- MODULE Lists_proofs ----------------------------
(***************************************************************************)
(* What filtering and adding up lists does, for all lists: what is kept, in *)
(* which order and how often, and what sums keep of it.                     *)
(***************************************************************************)
EXTENDS Lists, SequencesExt, FiniteSetTheorems, WellFoundedInduction, TLAPS

-----------------------------------------------------------------------------
(* Induction, over a set of numbers: the least number outside it. *)

LEMMA Induction ==
    ASSUME NEW S, 0 \in S, \A n \in Nat : n \in S => n + 1 \in S
    PROVE  Nat \subseteq S
<1> SUFFICES ASSUME Nat \ S # {} PROVE FALSE
  OBVIOUS
<1>1. PICK x \in Nat \ S : \A y \in Nat \ S : <<y, x>> \notin OpToRel(<, Nat)
  BY NatLessThanWellFounded, WFMin
<1>2. x - 1 \in Nat
  OBVIOUS
<1>3. <<x - 1, x>> \in OpToRel(<, Nat)
  BY <1>2 DEF OpToRel
<1>4. x - 1 \notin S
  <2>1. (x - 1) + 1 = x
    OBVIOUS
  <2>2. QED
    BY <1>1, <1>2, <2>1
<1>5. QED
  BY <1>1, <1>2, <1>3, <1>4

\* A recursive function over the first numbers exists.
LEMMA Recursion ==
    ASSUME NEW Y, NEW base \in Y, NEW N \in Nat, NEW F \in [1..N -> [Y -> Y]]
    PROVE  \E g \in [0..N -> Y] : g[0] = base /\ \A k \in 1..N : g[k] = F[k][g[k - 1]]
<1> DEFINE Fits(g, n) == /\ g \in [0..n -> Y] /\ g[0] = base
                         /\ \A k \in 1..n : k <= N => g[k] = F[k][g[k - 1]]
           S == {n \in Nat : \E g : Fits(g, n)}
<1>1. 0 \in S
  <2>1. Fits([k \in 0..0 |-> base], 0)
    OBVIOUS
  <2>2. QED
    BY <2>1
<1>2. ASSUME NEW n \in Nat, n \in S
      PROVE  n + 1 \in S
  <2>1. PICK g : Fits(g, n)
    BY <1>2
  <2> DEFINE next == IF n + 1 <= N THEN F[n + 1][g[n]] ELSE base
             h == [k \in 0..n + 1 |-> IF k = n + 1 THEN next ELSE g[k]]
  <2>2. g[n] \in Y /\ next \in Y
    BY <2>1
  <2> HIDE DEF next
  <2>3. h \in [0..n + 1 -> Y] /\ h[0] = base /\ h[n + 1] = next
    BY <2>1, <2>2
  <2>4. \A k \in 0..n : h[k] = g[k]
    OBVIOUS
  <2> HIDE DEF h
  <2>5. ASSUME NEW k \in 1..n + 1, k <= N
        PROVE  h[k] = F[k][h[k - 1]]
    <3>1. k - 1 \in 0..n /\ (k = n + 1 \/ k \in 1..n)
      OBVIOUS
    <3>2. h[k - 1] = g[k - 1]
      BY <2>4, <3>1
    <3>3. CASE k = n + 1
      <4>1. k - 1 = n /\ h[k] = F[k][g[n]]
        BY <2>3, <2>5, <3>3 DEF next
      <4>2. QED
        BY <3>2, <4>1
    <3>4. CASE k \in 1..n
      BY <2>1, <2>4, <2>5, <3>2, <3>4
    <3>5. QED
      BY <3>1, <3>3, <3>4
  <2>6. Fits(h, n + 1)
    BY <2>3, <2>5
  <2>7. QED
    BY <2>6
<1>3. N \in S
  <2> HIDE DEF S
  <2> QED
    BY <1>1, <1>2, Induction
<1>4. QED
  BY <1>3

-----------------------------------------------------------------------------
(* What is kept. *)

\* g is what is kept of the first elements of the list.
KeepsFrom(g, list, S) ==
    /\ g[0] = <<>>
    /\ \A k \in 1..Len(list) :
          g[k] = IF list[k] \in S THEN Append(g[k - 1], list[k]) ELSE g[k - 1]

LEMMA KeptUnfolds ==
    ASSUME NEW X, NEW list \in Seq(X), NEW S
    PROVE  \E g : KeepsFrom(g, list, S) /\ Kept(list, S) = g[Len(list)]
<1> DEFINE N == Len(list)
           F == [k \in 1..N |-> [s \in Seq(X) |->
                    IF list[k] \in S THEN Append(s, list[k]) ELSE s]]
           Eqn(g) == g = [n \in 0..N |-> IF n = 0 THEN <<>>
                                         ELSE IF list[n] \in S THEN Append(g[n - 1], list[n])
                                         ELSE g[n - 1]]
           kept == CHOOSE g : Eqn(g)
<1>1. N \in Nat /\ <<>> \in Seq(X) /\ F \in [1..N -> [Seq(X) -> Seq(X)]]
  OBVIOUS
<1>2. PICK g \in [0..N -> Seq(X)] : g[0] = <<>> /\ \A k \in 1..N : g[k] = F[k][g[k - 1]]
  <2> DEFINE Y == Seq(X)
             base == <<>>
  <2>1. N \in Nat /\ base \in Y /\ F \in [1..N -> [Y -> Y]]
    BY <1>1
  <2> HIDE DEF F, N, Y, base
  <2>2. \E g \in [0..N -> Y] : g[0] = base /\ \A k \in 1..N : g[k] = F[k][g[k - 1]]
    BY <2>1, Recursion
  <2>3. QED
    BY <2>2 DEF Y, base
<1>3. \A k \in 1..N : g[k] = IF list[k] \in S THEN Append(g[k - 1], list[k]) ELSE g[k - 1]
  <2> SUFFICES ASSUME NEW k \in 1..N
               PROVE  g[k] = IF list[k] \in S THEN Append(g[k - 1], list[k]) ELSE g[k - 1]
    OBVIOUS
  <2>1. k - 1 \in 0..N
    OBVIOUS
  <2>2. g[k - 1] \in Seq(X)
    BY <1>2, <2>1
  <2>3. F[k][g[k - 1]] = IF list[k] \in S THEN Append(g[k - 1], list[k]) ELSE g[k - 1]
    BY <2>2
  <2>4. QED
    BY <1>2, <2>3, Zenon
<1>4. Eqn(g)
  <2>1. \A k \in 0..N : g[k] = IF k = 0 THEN <<>>
                               ELSE IF list[k] \in S THEN Append(g[k - 1], list[k]) ELSE g[k - 1]
    <3>1. \A k \in 0..N : k = 0 \/ k \in 1..N
      BY <1>1
    <3>2. QED
      BY <1>2, <1>3, <3>1, Zenon
  <2>2. QED
    BY <1>2, <2>1
<1>5. Eqn(kept)
  BY <1>4
<1>6. Kept(list, S) = kept[N]
  BY DEF Kept
<1> HIDE DEF kept
<1>7. KeepsFrom(kept, list, S)
  <2>1. kept[0] = <<>>
    BY <1>1, <1>5
  <2>2. ASSUME NEW k \in 1..N
        PROVE  kept[k] = IF list[k] \in S THEN Append(kept[k - 1], list[k]) ELSE kept[k - 1]
    <3>1. k \in 0..N /\ k # 0
      OBVIOUS
    <3>2. QED
      BY <1>5, <3>1, Zenon
  <2>3. QED
    BY <2>1, <2>2 DEF KeepsFrom
<1>8. QED
  BY <1>6, <1>7

LEMMA Elements ==
    ASSUME NEW X, NEW s \in Seq(X)
    PROVE  /\ \A i \in 1..Len(s) : s[i] \in ToSet(s) /\ s[i] \in X
           /\ \A x \in ToSet(s) : x \in X /\ \E i \in 1..Len(s) : s[i] = x
BY DEF ToSet

\* What an appended list holds.
LEMMA Appended ==
    ASSUME NEW X, NEW s \in Seq(X), NEW x \in X
    PROVE  /\ Append(s, x) \in Seq(X)
           /\ Len(s) \in Nat /\ Len(Append(s, x)) = Len(s) + 1
           /\ \A i \in 1..Len(s) : Append(s, x)[i] = s[i]
           /\ Append(s, x)[Len(s) + 1] = x
           /\ ToSet(Append(s, x)) = ToSet(s) \cup {x}
<1>1. /\ Append(s, x) \in Seq(X)
      /\ Len(s) \in Nat /\ Len(Append(s, x)) = Len(s) + 1
      /\ \A i \in 1..Len(s) : Append(s, x)[i] = s[i]
      /\ Append(s, x)[Len(s) + 1] = x
  OBVIOUS
<1>2. 1..Len(s) + 1 = 1..Len(s) \cup {Len(s) + 1}
  BY <1>1
<1>3. DOMAIN Append(s, x) = 1..Len(s) + 1 /\ DOMAIN s = 1..Len(s)
  BY <1>1
<1>4. ToSet(Append(s, x)) = ToSet(s) \cup {x}
  BY <1>1, <1>2, <1>3 DEF ToSet
<1>5. QED
  BY <1>1, <1>4

\* Induction over lists, element after element.
LEMMA ListInduction ==
    ASSUME NEW X, NEW P, <<>> \in P,
           \A s \in Seq(X), x \in X : s \in P => Append(s, x) \in P
    PROVE  Seq(X) \subseteq P
<1> DEFINE S == {n \in Nat : \A s \in Seq(X) : Len(s) = n => s \in P}
<1>1. 0 \in S
  <2>1. \A s \in Seq(X) : Len(s) = 0 => s = <<>>
    OBVIOUS
  <2>2. QED
    BY <2>1
<1>2. ASSUME NEW n \in Nat, n \in S
      PROVE  n + 1 \in S
  <2> SUFFICES ASSUME NEW s \in Seq(X), Len(s) = n + 1
               PROVE  s \in P
    OBVIOUS
  <2> DEFINE front == SubSeq(s, 1, n)
  <2>1. front \in Seq(X) /\ Len(front) = n /\ s[n + 1] \in X
    OBVIOUS
  <2>2. s = Append(front, s[n + 1])
    <3>1. /\ Append(front, s[n + 1]) \in Seq(X) /\ Len(Append(front, s[n + 1])) = n + 1
          /\ \A i \in 1..n : Append(front, s[n + 1])[i] = front[i]
          /\ Append(front, s[n + 1])[n + 1] = s[n + 1]
      <4> HIDE DEF front
      <4> QED
        BY <2>1, Appended
    <3>2. \A i \in 1..n : front[i] = s[i]
      OBVIOUS
    <3>3. \A i \in 1..n + 1 : Append(front, s[n + 1])[i] = s[i]
      <4> HIDE DEF front
      <4>1. \A i \in 1..n + 1 : i = n + 1 \/ i \in 1..n
        OBVIOUS
      <4>2. QED
        BY <3>1, <3>2, <4>1
    <3> HIDE DEF front
    <3>4. QED
      BY <3>1, <3>3
  <2>3. QED
    <3> HIDE DEF front
    <3>1. front \in P
      BY <1>2, <2>1
    <3>2. QED
      BY <2>1, <2>2, <3>1
<1>3. Nat \subseteq S
  <2> HIDE DEF S
  <2> QED
    BY <1>1, <1>2, Induction
<1>4. QED
  BY <1>3

\* As long as two lists agree, so does what is kept of them.
LEMMA KeepsAlike ==
    ASSUME NEW X, NEW list \in Seq(X), NEW other \in Seq(X), NEW S, NEW T,
           NEW g, NEW h, KeepsFrom(g, list, S), KeepsFrom(h, other, T),
           NEW m \in Nat, m <= Len(list), m <= Len(other),
           \A i \in 1..m : list[i] = other[i] /\ (list[i] \in S <=> list[i] \in T)
    PROVE  g[m] = h[m]
<1> DEFINE P == {n \in Nat : n <= m => g[n] = h[n]}
<1>1. 0 \in P
  BY DEF KeepsFrom
<1>2. ASSUME NEW n \in Nat, n \in P
      PROVE  n + 1 \in P
  <2> SUFFICES ASSUME n + 1 <= m PROVE g[n + 1] = h[n + 1]
    OBVIOUS
  <2>1. g[n] = h[n] /\ n + 1 \in 1..m /\ n + 1 \in 1..Len(list) /\ n + 1 \in 1..Len(other)
    BY <1>2
  <2>2. (n + 1) - 1 = n
    OBVIOUS
  <2>3. /\ g[n + 1] = IF list[n + 1] \in S THEN Append(g[n], list[n + 1]) ELSE g[n]
        /\ h[n + 1] = IF other[n + 1] \in T THEN Append(h[n], other[n + 1]) ELSE h[n]
    BY <2>1, <2>2 DEF KeepsFrom
  <2>4. QED
    BY <2>1, <2>3
<1>3. Nat \subseteq P
  <2> HIDE DEF P
  <2> QED
    BY <1>1, <1>2, Induction
<1>4. QED
  BY <1>3

LEMMA KeptEmpty == \A S : Kept(<<>>, S) = <<>>
<1> SUFFICES ASSUME NEW S PROVE Kept(<<>>, S) = <<>>
  OBVIOUS
<1>1. <<>> \in Seq({}) /\ Len(<<>>) = 0
  OBVIOUS
<1>2. PICK g : KeepsFrom(g, <<>>, S) /\ Kept(<<>>, S) = g[Len(<<>>)]
  BY <1>1, KeptUnfolds
<1>3. QED
  BY <1>1, <1>2 DEF KeepsFrom

LEMMA KeptAppend ==
    ASSUME NEW X, NEW list \in Seq(X), NEW x \in X, NEW S
    PROVE  Kept(Append(list, x), S) =
             IF x \in S THEN Append(Kept(list, S), x) ELSE Kept(list, S)
<1> DEFINE more == Append(list, x)
           n == Len(list)
<1>1. /\ more \in Seq(X) /\ n \in Nat /\ Len(more) = n + 1
      /\ \A i \in 1..n : more[i] = list[i]
      /\ more[n + 1] = x
  BY Appended
<1> HIDE DEF more
<1>2. PICK g : KeepsFrom(g, list, S) /\ Kept(list, S) = g[n]
  BY KeptUnfolds
<1>3. PICK h : KeepsFrom(h, more, S) /\ Kept(more, S) = h[n + 1]
  BY <1>1, KeptUnfolds
<1>4. g[n] = h[n]
  <2>1. n <= Len(list) /\ n <= Len(more)
    BY <1>1
  <2> HIDE DEF n
  <2>2. QED
    BY <1>1, <1>2, <1>3, <2>1, KeepsAlike
<1>5. h[n + 1] = IF x \in S THEN Append(h[n], x) ELSE h[n]
  <2>1. n + 1 \in 1..Len(more) /\ (n + 1) - 1 = n
    BY <1>1
  <2>2. QED
    BY <1>1, <1>3, <2>1 DEF KeepsFrom
<1>6. QED
  BY <1>2, <1>3, <1>4, <1>5 DEF more

LEMMA KeptElements ==
    ASSUME NEW X, NEW list \in Seq(X), NEW S
    PROVE  /\ Kept(list, S) \in Seq(X)
           /\ ToSet(Kept(list, S)) = ToSet(list) \cap S
<1> DEFINE P == {s \in Seq(X) : Kept(s, S) \in Seq(X) /\ ToSet(Kept(s, S)) = ToSet(s) \cap S}
<1>1. <<>> \in P
  <2>1. <<>> \in Seq(X) /\ ToSet(<<>>) = {}
    BY DEF ToSet
  <2>2. Kept(<<>>, S) = <<>>
    BY KeptEmpty
  <2>3. QED
    BY <2>1, <2>2
<1>2. ASSUME NEW s \in Seq(X), NEW x \in X, s \in P
      PROVE  Append(s, x) \in P
  <2>1. Kept(s, S) \in Seq(X) /\ ToSet(Kept(s, S)) = ToSet(s) \cap S
    BY <1>2
  <2>2. /\ Append(s, x) \in Seq(X) /\ ToSet(Append(s, x)) = ToSet(s) \cup {x}
        /\ Append(Kept(s, S), x) \in Seq(X)
        /\ ToSet(Append(Kept(s, S), x)) = ToSet(Kept(s, S)) \cup {x}
    BY <2>1, Appended
  <2>3. Kept(Append(s, x), S) = IF x \in S THEN Append(Kept(s, S), x) ELSE Kept(s, S)
    BY KeptAppend
  <2>4. QED
    BY <2>1, <2>2, <2>3
<1>3. Seq(X) \subseteq P
  <2> HIDE DEF P
  <2> QED
    BY <1>1, <1>2, ListInduction
<1>4. QED
  BY <1>3

LEMMA KeptSame ==
    ASSUME NEW X, NEW list \in Seq(X), NEW S, NEW T, ToSet(list) \cap S = ToSet(list) \cap T
    PROVE  Kept(list, S) = Kept(list, T)
<1>1. PICK g : KeepsFrom(g, list, S) /\ Kept(list, S) = g[Len(list)]
  BY KeptUnfolds
<1>2. PICK h : KeepsFrom(h, list, T) /\ Kept(list, T) = h[Len(list)]
  BY KeptUnfolds
<1>3. \A i \in 1..Len(list) : list[i] \in S <=> list[i] \in T
  BY DEF ToSet
<1>4. Len(list) \in Nat
  OBVIOUS
<1>5. g[Len(list)] = h[Len(list)]
  BY <1>1, <1>2, <1>3, <1>4, KeepsAlike
<1>6. QED
  BY <1>1, <1>2, <1>5

\* What is kept of a list without repetitions has none.
LEMMA KeptInjective ==
    ASSUME NEW X, NEW list \in Seq(X), NEW S, IsInjective(list)
    PROVE  IsInjective(Kept(list, S))
<1> DEFINE P == {s \in Seq(X) : IsInjective(s) => IsInjective(Kept(s, S))}
<1>1. <<>> \in P
  BY KeptEmpty DEF IsInjective
<1>2. ASSUME NEW s \in Seq(X), NEW x \in X, s \in P
      PROVE  Append(s, x) \in P
  <2> SUFFICES ASSUME IsInjective(Append(s, x)) PROVE IsInjective(Kept(Append(s, x), S))
    BY Appended
  <2>1. /\ Len(s) \in Nat /\ Len(Append(s, x)) = Len(s) + 1 /\ Append(s, x) \in Seq(X)
        /\ \A i \in 1..Len(s) : Append(s, x)[i] = s[i]
        /\ Append(s, x)[Len(s) + 1] = x
    BY Appended
  <2>2. \A i \in 1..Len(s) : s[i] # x
    <3> SUFFICES ASSUME NEW i \in 1..Len(s), s[i] = x PROVE FALSE
      OBVIOUS
    <3>1. i \in DOMAIN Append(s, x) /\ Len(s) + 1 \in DOMAIN Append(s, x) /\ i # Len(s) + 1
      BY <2>1
    <3>2. Append(s, x)[i] = Append(s, x)[Len(s) + 1]
      BY <2>1
    <3>3. QED
      BY <3>1, <3>2 DEF IsInjective
  <2>3. IsInjective(s)
    <3> SUFFICES ASSUME NEW i \in 1..Len(s), NEW j \in 1..Len(s), s[i] = s[j] PROVE i = j
      BY DEF IsInjective
    <3>1. i \in DOMAIN Append(s, x) /\ j \in DOMAIN Append(s, x)
      BY <2>1
    <3>2. Append(s, x)[i] = Append(s, x)[j]
      BY <2>1
    <3>3. QED
      BY <3>1, <3>2 DEF IsInjective
  <2> DEFINE kept == Kept(s, S)
  <2>4. kept \in Seq(X) /\ IsInjective(kept) /\ ToSet(kept) \subseteq ToSet(s)
    <3>1. kept \in Seq(X) /\ ToSet(kept) = ToSet(s) \cap S
      BY KeptElements
    <3>2. IsInjective(kept)
      BY <1>2, <2>3
    <3>3. QED
      BY <3>1, <3>2
  <2>5. Kept(Append(s, x), S) = IF x \in S THEN Append(kept, x) ELSE kept
    BY KeptAppend
  <2> HIDE DEF kept
  <2>6. /\ Len(kept) \in Nat /\ Len(Append(kept, x)) = Len(kept) + 1 /\ Append(kept, x) \in Seq(X)
        /\ \A i \in 1..Len(kept) : Append(kept, x)[i] = kept[i]
        /\ Append(kept, x)[Len(kept) + 1] = x
    BY <2>4, Appended
  <2>7. \A i \in 1..Len(kept) : kept[i] # x
    <3>1. x \notin ToSet(s)
      BY <2>2, Elements
    <3>2. \A i \in 1..Len(kept) : kept[i] \in ToSet(kept)
      BY <2>4, Elements
    <3>3. QED
      BY <2>4, <3>1, <3>2
  <2>8. IsInjective(Append(kept, x))
    <3> SUFFICES ASSUME NEW i \in 1..Len(kept) + 1, NEW j \in 1..Len(kept) + 1,
                        Append(kept, x)[i] = Append(kept, x)[j]
                 PROVE  i = j
      BY <2>6 DEF IsInjective
    <3>1. \A k \in 1..Len(kept) + 1 : k = Len(kept) + 1 \/ k \in 1..Len(kept)
      BY <2>6
    <3>2. \A k \in 1..Len(kept), l \in 1..Len(kept) : kept[k] = kept[l] => k = l
      BY <2>4 DEF IsInjective
    <3>3. QED
      BY <2>6, <2>7, <3>1, <3>2
  <2>9. QED
    BY <2>4, <2>5, <2>8
<1>3. Seq(X) \subseteq P
  <2> HIDE DEF P
  <2> QED
    BY <1>1, <1>2, ListInduction
<1>4. QED
  BY <1>3

-----------------------------------------------------------------------------
(* How many. *)

\* How many elements of the list are in the set.
CountIn(list, T) == Cardinality({i \in 1..Len(list) : list[i] \in T})

LEMMA CountNumbers ==
    ASSUME NEW X, NEW s \in Seq(X), NEW T
    PROVE  IsFiniteSet({i \in 1..Len(s) : s[i] \in T}) /\ CountIn(s, T) \in Nat
<1>1. Len(s) \in Nat /\ IsFiniteSet(1..Len(s))
  BY FS_Interval
<1>2. IsFiniteSet({i \in 1..Len(s) : s[i] \in T})
  BY <1>1, FS_Subset
<1>3. QED
  BY <1>2, FS_CardinalityType DEF CountIn

LEMMA CountEmpty == \A T : CountIn(<<>>, T) = 0
<1>1. \A T : {i \in 1..Len(<<>>) : <<>>[i] \in T} = {}
  OBVIOUS
<1>2. QED
  BY <1>1, FS_EmptySet DEF CountIn

LEMMA CountAppend ==
    ASSUME NEW X, NEW s \in Seq(X), NEW x \in X, NEW T
    PROVE  CountIn(Append(s, x), T) = IF x \in T THEN CountIn(s, T) + 1 ELSE CountIn(s, T)
<1> DEFINE A == {i \in 1..Len(s) : s[i] \in T}
           B == {i \in 1..Len(Append(s, x)) : Append(s, x)[i] \in T}
<1>1. /\ Len(s) \in Nat /\ Len(Append(s, x)) = Len(s) + 1
      /\ \A i \in 1..Len(s) : Append(s, x)[i] = s[i]
      /\ Append(s, x)[Len(s) + 1] = x
  BY Appended
<1>2. 1..Len(s) + 1 = 1..Len(s) \cup {Len(s) + 1} /\ Len(s) + 1 \notin 1..Len(s)
  BY <1>1
<1>3. B = IF x \in T THEN A \cup {Len(s) + 1} ELSE A
  BY <1>1, <1>2
<1>4. IsFiniteSet(A) /\ Len(s) + 1 \notin A
  BY <1>2, CountNumbers
<1>5. Cardinality(A \cup {Len(s) + 1}) = Cardinality(A) + 1
  <2> HIDE DEF A
  <2> QED
    BY <1>4, FS_AddElement
<1>6. QED
  BY <1>3, <1>5 DEF CountIn

\* If all are in the set, their number is the length.
LEMMA CountAll ==
    ASSUME NEW X, NEW s \in Seq(X), NEW T, ToSet(s) \subseteq T
    PROVE  CountIn(s, T) = Len(s)
<1>1. {i \in 1..Len(s) : s[i] \in T} = 1..Len(s)
  BY DEF ToSet
<1>2. Len(s) \in Nat
  OBVIOUS
<1>3. Cardinality(1..Len(s)) = Len(s)
  <2> DEFINE one == 1
             n == Len(s)
  <2>1. one \in Int /\ n \in Int /\ n \in Nat
    BY <1>2
  <2> HIDE DEF one, n
  <2>2. Cardinality(one..n) = IF one > n THEN 0 ELSE n - one + 1
    BY <2>1, FS_Interval
  <2>3. QED
    BY <2>1, <2>2 DEF one, n
<1>4. QED
  BY <1>1, <1>3 DEF CountIn

LEMMA CountKept ==
    ASSUME NEW X, NEW list \in Seq(X), NEW S, NEW T
    PROVE  CountIn(Kept(list, S), T) = CountIn(list, S \cap T)
<1> DEFINE P == {s \in Seq(X) : CountIn(Kept(s, S), T) = CountIn(s, S \cap T)}
<1>1. <<>> \in P
  BY KeptEmpty, CountEmpty
<1>2. ASSUME NEW s \in Seq(X), NEW x \in X, s \in P
      PROVE  Append(s, x) \in P
  <2>1. Kept(s, S) \in Seq(X) /\ CountIn(Kept(s, S), T) = CountIn(s, S \cap T)
    BY <1>2, KeptElements
  <2>2. Kept(Append(s, x), S) = IF x \in S THEN Append(Kept(s, S), x) ELSE Kept(s, S)
    BY KeptAppend
  <2>3. /\ CountIn(Append(s, x), S \cap T) =
             IF x \in S \cap T THEN CountIn(s, S \cap T) + 1 ELSE CountIn(s, S \cap T)
        /\ CountIn(Append(Kept(s, S), x), T) =
             IF x \in T THEN CountIn(Kept(s, S), T) + 1 ELSE CountIn(Kept(s, S), T)
    BY <2>1, CountAppend
  <2>4. Append(s, x) \in Seq(X)
    OBVIOUS
  <2>5. CASE x \in S
    <3>1. x \in S \cap T <=> x \in T
      BY <2>5
    <3>2. Kept(Append(s, x), S) = Append(Kept(s, S), x)
      BY <2>2, <2>5
    <3>3. CountIn(Kept(Append(s, x), S), T) = CountIn(Append(s, x), S \cap T)
      BY <2>1, <2>3, <3>1, <3>2
    <3>4. QED
      BY <2>4, <3>3
  <2>6. CASE x \notin S
    <3>1. CountIn(Kept(Append(s, x), S), T) = CountIn(Append(s, x), S \cap T)
      BY <2>1, <2>2, <2>3, <2>6
    <3>2. QED
      BY <2>4, <3>1
  <2>7. QED
    BY <2>5, <2>6
<1>3. Seq(X) \subseteq P
  <2> HIDE DEF P
  <2> QED
    BY <1>1, <1>2, ListInduction
<1>4. QED
  BY <1>3

-----------------------------------------------------------------------------
(* The last ones of a list. *)

\* How many are left out.
Cut(list, K) == IF Len(list) > K THEN Len(list) - K ELSE 0

LEMMA CutType ==
    ASSUME NEW X, NEW list \in Seq(X), NEW K \in Nat
    PROVE  /\ Len(list) \in Nat /\ Cut(list, K) \in Nat /\ Cut(list, K) <= Len(list)
           /\ Len(list) <= K => Cut(list, K) = 0
           /\ Len(list) > K => Cut(list, K) + K = Len(list)
BY DEF Cut

LEMMA LatestOnes ==
    ASSUME NEW X, NEW list \in Seq(X), NEW K \in Nat
    PROVE  /\ Latest(list, K) \in Seq(X)
           /\ Len(Latest(list, K)) = Len(list) - Cut(list, K)
           /\ \A i \in 1..Len(list) - Cut(list, K) : Latest(list, K)[i] = list[Cut(list, K) + i]
<1> DEFINE n == Len(list)
           cut == Cut(list, K)
<1>1. Latest(list, K) = SubSeq(list, cut + 1, n)
  BY DEF Latest, Cut
<1>2. n \in Nat /\ cut \in Nat /\ cut <= n
  BY CutType
<1> HIDE DEF cut
<1>3. SubSeq(list, cut + 1, n) \in Seq(X)
  <2>1. \A i \in cut + 1..n : list[i] \in X
    BY <1>2
  <2>2. QED
    BY <1>2, <2>1
<1>4. Len(SubSeq(list, cut + 1, n)) = n - cut
  BY <1>2
<1>5. \A i \in 1..n - cut : SubSeq(list, cut + 1, n)[i] = list[cut + i]
  BY <1>2
<1>6. QED
  BY <1>1, <1>3, <1>4, <1>5 DEF cut

\* To trim as one goes comes to the same as to trim at the end.
LEMMA LatestAppend ==
    ASSUME NEW X, NEW list \in Seq(X), NEW x \in X, NEW K \in Nat
    PROVE  Latest(Append(Latest(list, K), x), K) = Latest(Append(list, x), K)
<1> DEFINE n == Len(list)
           more == Append(list, x)
           old == Latest(list, K)
           both == Append(old, x)
           a == Cut(list, K)
           b == Cut(both, K)
           c == Cut(more, K)
<1>1. /\ n \in Nat /\ a \in Nat /\ a <= n
      /\ n <= K => a = 0
      /\ n > K => a + K = n
  BY CutType
<1>2. old \in Seq(X) /\ Len(old) = n - a
  BY LatestOnes
<1>3. \A i \in 1..n - a : old[i] = list[a + i]
  BY LatestOnes
<1> HIDE DEF old
<1>4. more \in Seq(X) /\ Len(more) = n + 1
  BY Appended
<1>5. (\A i \in 1..n : more[i] = list[i]) /\ more[n + 1] = x
  BY Appended
<1>6. both \in Seq(X) /\ Len(both) = n - a + 1
  <2>1. old \in Seq(X) /\ Len(both) = Len(old) + 1
    BY <1>2, Appended
  <2>2. QED
    BY <1>1, <1>2, <2>1
<1>7. (\A i \in 1..n - a : both[i] = old[i]) /\ both[n - a + 1] = x
  <2>1. old \in Seq(X)
    BY <1>2
  <2>2. (\A i \in 1..Len(old) : both[i] = old[i]) /\ both[Len(old) + 1] = x
    BY <2>1, Appended
  <2>3. QED
    BY <1>2, <2>2
<1> HIDE DEF more, both, n, a, b, c
<1>8. /\ c \in Nat /\ c <= n + 1
      /\ n + 1 <= K => c = 0
      /\ n + 1 > K => c + K = n + 1
  BY <1>4, CutType DEF c
<1>9. /\ b \in Nat /\ b <= n - a + 1
      /\ n - a + 1 <= K => b = 0
      /\ n - a + 1 > K => b + K = n - a + 1
  BY <1>6, CutType DEF b
<1>10. c = a + b
  BY <1>1, <1>8, <1>9
<1>11. ASSUME NEW j \in 1..n - a + 1
      PROVE  both[j] = more[a + j]
  <2>1. CASE j = n - a + 1
    <3>1. a + j = n + 1
      BY <1>1, <2>1
    <3>2. QED
      BY <1>5, <1>7, <2>1, <3>1
  <2>2. CASE j \in 1..n - a
    <3>1. a + j \in 1..n
      BY <1>1, <2>2
    <3>2. QED
      BY <1>3, <1>5, <1>7, <2>2, <3>1
  <2>3. QED
    BY <1>1, <2>1, <2>2
<1>12. /\ Latest(more, K) \in Seq(X) /\ Len(Latest(more, K)) = n + 1 - c
       /\ \A i \in 1..n + 1 - c : Latest(more, K)[i] = more[c + i]
  <2>1. /\ Latest(more, K) \in Seq(X) /\ Len(Latest(more, K)) = Len(more) - c
        /\ \A i \in 1..Len(more) - c : Latest(more, K)[i] = more[c + i]
    BY <1>4, LatestOnes DEF c
  <2>2. Len(more) - c = n + 1 - c
    BY <1>1, <1>4, <1>8
  <2>3. QED
    BY <2>1, <2>2
<1>13. /\ Latest(both, K) \in Seq(X) /\ Len(Latest(both, K)) = n + 1 - c
       /\ \A i \in 1..n + 1 - c : Latest(both, K)[i] = both[b + i]
  <2>1. /\ Latest(both, K) \in Seq(X) /\ Len(Latest(both, K)) = Len(both) - b
        /\ \A i \in 1..Len(both) - b : Latest(both, K)[i] = both[b + i]
    BY <1>6, LatestOnes DEF b
  <2>2. Len(both) - b = n + 1 - c
    BY <1>1, <1>6, <1>8, <1>9, <1>10
  <2>3. QED
    BY <2>1, <2>2
<1>14. \A i \in 1..n + 1 - c : Latest(both, K)[i] = Latest(more, K)[i]
  <2> SUFFICES ASSUME NEW i \in 1..n + 1 - c
               PROVE  Latest(both, K)[i] = Latest(more, K)[i]
    OBVIOUS
  <2>1. b + i \in 1..n - a + 1 /\ a + (b + i) = c + i
    BY <1>1, <1>8, <1>9, <1>10
  <2>2. Latest(both, K)[i] = both[b + i] /\ Latest(more, K)[i] = more[c + i]
    BY <1>12, <1>13
  <2>3. QED
    BY <1>11, <2>1, <2>2
<1>15. Latest(both, K) = Latest(more, K)
  <2> DEFINE u == Latest(both, K)
             v == Latest(more, K)
             m == n + 1 - c
  <2>1. u \in Seq(X) /\ v \in Seq(X) /\ Len(u) = m /\ Len(v) = m /\ \A i \in 1..m : u[i] = v[i]
    BY <1>12, <1>13, <1>14
  <2> HIDE DEF u, v, m
  <2>2. u = v
    BY <2>1
  <2>3. QED
    BY <2>2 DEF u, v
<1>16. QED
  BY <1>15 DEF both, more, old

-----------------------------------------------------------------------------
(* Sums. *)

LEMMA TotalUnfolds ==
    ASSUME NEW list \in Seq(Int)
    PROVE  \E g \in [0..Len(list) -> Int] :
              /\ g[0] = 0
              /\ \A k \in 1..Len(list) : g[k] = g[k - 1] + list[k]
              /\ Total(list) = g[Len(list)]
<1> DEFINE N == Len(list)
           F == [k \in 1..N |-> [s \in Int |-> s + list[k]]]
           Eqn(g) == g = [n \in 0..N |-> IF n = 0 THEN 0 ELSE g[n - 1] + list[n]]
           total == CHOOSE g : Eqn(g)
<1>1. N \in Nat /\ 0 \in Int /\ F \in [1..N -> [Int -> Int]] /\ \A k \in 1..N : list[k] \in Int
  OBVIOUS
<1>2. PICK g \in [0..N -> Int] : g[0] = 0 /\ \A k \in 1..N : g[k] = F[k][g[k - 1]]
  <2> DEFINE Y == Int
             base == 0
  <2>1. base \in Y /\ F \in [1..N -> [Y -> Y]] /\ N \in Nat
    BY <1>1
  <2> HIDE DEF F, N, Y, base
  <2>2. \E g \in [0..N -> Y] : g[0] = base /\ \A k \in 1..N : g[k] = F[k][g[k - 1]]
    BY <2>1, Recursion
  <2>3. QED
    BY <2>2 DEF Y, base
<1>3. ASSUME NEW k \in 1..N
      PROVE  g[k] = g[k - 1] + list[k] /\ g[k - 1] \in Int
  <2>1. k - 1 \in 0..N
    OBVIOUS
  <2>2. g[k - 1] \in Int
    BY <1>2, <2>1
  <2>3. F[k][g[k - 1]] = g[k - 1] + list[k]
    BY <2>2
  <2>4. g[k] = F[k][g[k - 1]]
    BY <1>2
  <2>5. QED
    BY <2>2, <2>3, <2>4, Zenon
<1>4. Eqn(g)
  <2>1. \A k \in 0..N : g[k] = IF k = 0 THEN 0 ELSE g[k - 1] + list[k]
    <3>1. \A k \in 0..N : k = 0 \/ k \in 1..N
      BY <1>1
    <3>2. QED
      BY <1>2, <1>3, <3>1, Zenon
  <2>2. QED
    BY <1>2, <2>1
<1>5. Eqn(total)
  BY <1>4
<1>6. Total(list) = total[N]
  BY DEF Total
<1> HIDE DEF total
<1>7. total[0] = 0 /\ \A k \in 1..N : total[k] = total[k - 1] + list[k]
  <2>1. total[0] = 0
    BY <1>1, <1>5
  <2>2. ASSUME NEW k \in 1..N
        PROVE  total[k] = total[k - 1] + list[k]
    <3>1. k \in 0..N /\ k # 0
      OBVIOUS
    <3>2. QED
      BY <1>5, <3>1, Zenon
  <2>3. QED
    BY <2>1, <2>2
<1>8. \A k \in 0..N : total[k] \in Int
  <2> DEFINE P == {n \in Nat : n <= N => total[n] \in Int}
  <2>1. 0 \in P
    BY <1>7
  <2>2. ASSUME NEW n \in Nat, n \in P
        PROVE  n + 1 \in P
    <3> SUFFICES ASSUME n + 1 <= N PROVE total[n + 1] \in Int
      OBVIOUS
    <3>1. n + 1 \in 1..N /\ (n + 1) - 1 = n /\ total[n] \in Int
      BY <1>1, <2>2
    <3>2. QED
      BY <1>1, <1>7, <3>1
  <2>3. Nat \subseteq P
    <3> HIDE DEF P
    <3> QED
      BY <2>1, <2>2, Induction
  <2>4. QED
    BY <1>1, <2>3
<1>9. total \in [0..N -> Int]
  BY <1>5, <1>8
<1>10. QED
  BY <1>6, <1>7, <1>9

LEMMA TotalEmpty == Total(<<>>) = 0
<1>1. <<>> \in Seq(Int) /\ Len(<<>>) = 0
  OBVIOUS
<1>2. QED
  BY <1>1, TotalUnfolds

LEMMA TotalAppend ==
    ASSUME NEW list \in Seq(Int), NEW x \in Int
    PROVE  /\ Total(list) \in Int
           /\ Total(Append(list, x)) = Total(list) + x
<1> DEFINE more == Append(list, x)
           n == Len(list)
<1>1. /\ more \in Seq(Int) /\ n \in Nat /\ Len(more) = n + 1
      /\ \A i \in 1..n : more[i] = list[i]
      /\ more[n + 1] = x
  BY Appended
<1> HIDE DEF more
<1>2. PICK g \in [0..n -> Int] : /\ g[0] = 0
                                 /\ \A k \in 1..n : g[k] = g[k - 1] + list[k]
                                 /\ Total(list) = g[n]
  BY TotalUnfolds
<1>3. PICK h \in [0..n + 1 -> Int] : /\ h[0] = 0
                                     /\ \A k \in 1..n + 1 : h[k] = h[k - 1] + more[k]
                                     /\ Total(more) = h[n + 1]
  BY <1>1, TotalUnfolds
<1>4. g[n] = h[n]
  <2> HIDE DEF n
  <2> DEFINE P == {m \in Nat : m <= n => g[m] = h[m]}
  <2>1. 0 \in P
    BY <1>2, <1>3
  <2>2. ASSUME NEW m \in Nat, m \in P
        PROVE  m + 1 \in P
    <3> SUFFICES ASSUME m + 1 <= n PROVE g[m + 1] = h[m + 1]
      OBVIOUS
    <3>1. m + 1 \in 1..n /\ m + 1 \in 1..n + 1 /\ (m + 1) - 1 = m /\ g[m] = h[m]
      BY <1>1, <2>2
    <3>2. QED
      BY <1>1, <1>2, <1>3, <3>1
  <2>3. Nat \subseteq P
    <3> HIDE DEF P
    <3> QED
      BY <2>1, <2>2, Induction
  <2>4. QED
    BY <1>1, <2>3
<1>5. h[n + 1] = h[n] + x
  <2>1. n + 1 \in 1..n + 1 /\ (n + 1) - 1 = n
    BY <1>1
  <2>2. QED
    BY <1>1, <1>3, <2>1
<1>6. g[n] \in Int
  BY <1>1, <1>2
<1>7. QED
  BY <1>2, <1>3, <1>4, <1>5, <1>6 DEF more

\* A sum without its last term.
LEMMA TotalSplit ==
    ASSUME NEW list \in Seq(Int), NEW front \in Seq(Int), Len(list) = Len(front) + 1,
           \A i \in 1..Len(front) : front[i] = list[i]
    PROVE  Total(list) = Total(front) + list[Len(list)]
<1> DEFINE n == Len(front)
<1>1. n \in Nat /\ Len(list) = n + 1 /\ list[n + 1] \in Int
  OBVIOUS
<1>2. /\ Append(front, list[n + 1]) \in Seq(Int) /\ Len(Append(front, list[n + 1])) = n + 1
      /\ \A i \in 1..n : Append(front, list[n + 1])[i] = front[i]
      /\ Append(front, list[n + 1])[n + 1] = list[n + 1]
  BY <1>1, Appended
<1>3. \A i \in 1..n + 1 : i = n + 1 \/ i \in 1..n
  BY <1>1
<1> HIDE DEF n
<1>4. \A i \in 1..n + 1 : Append(front, list[n + 1])[i] = list[i]
  <2> \A i \in 1..n : front[i] = list[i]
    BY DEF n
  <2> QED
    BY <1>2, <1>3
<1>5. list = Append(front, list[n + 1])
  BY <1>1, <1>2, <1>4
<1>6. QED
  BY <1>1, <1>5, TotalAppend

\* Trimmed to one more, a longer list keeps its new element.
LEMMA LatestGrows ==
    ASSUME NEW X, NEW list \in Seq(X), NEW x \in X, NEW K \in Nat
    PROVE  Latest(Append(list, x), K + 1) = Append(Latest(list, K), x)
<1> DEFINE n == Len(list)
           more == Append(list, x)
           old == Latest(list, K)
           new == Append(old, x)
           a == Cut(list, K)
           trimmed == Latest(more, K + 1)
<1>1. n \in Nat /\ a \in Nat /\ a <= n
  BY CutType
<1>2. old \in Seq(X) /\ Len(old) = n - a /\ \A i \in 1..n - a : old[i] = list[a + i]
  BY LatestOnes
<1>3. more \in Seq(X) /\ Len(more) = n + 1 /\ (\A i \in 1..n : more[i] = list[i]) /\ more[n + 1] = x
  BY Appended
<1>4. Cut(more, K + 1) = a
  BY <1>1, <1>3 DEF Cut
<1> HIDE DEF old, a
<1>5. new \in Seq(X) /\ Len(new) = n - a + 1
  <2>1. old \in Seq(X) /\ Len(new) = Len(old) + 1
    BY <1>2, Appended
  <2>2. QED
    BY <1>1, <1>2, <2>1
<1>6. (\A i \in 1..n - a : new[i] = old[i]) /\ new[n - a + 1] = x
  <2>1. old \in Seq(X)
    BY <1>2
  <2>2. (\A i \in 1..Len(old) : new[i] = old[i]) /\ new[Len(old) + 1] = x
    BY <2>1, Appended
  <2>3. QED
    BY <1>2, <2>2
<1> HIDE DEF more, new, n
<1>7. trimmed \in Seq(X) /\ Len(trimmed) = n - a + 1 /\ \A i \in 1..n - a + 1 : trimmed[i] = more[a + i]
  <2> DEFINE J == K + 1
  <2>1. J \in Nat /\ trimmed = Latest(more, J) /\ Cut(more, J) = a
    BY <1>4
  <2> HIDE DEF J, trimmed
  <2>2. /\ trimmed \in Seq(X) /\ Len(trimmed) = Len(more) - a
        /\ \A i \in 1..Len(more) - a : trimmed[i] = more[a + i]
    <3>1. more \in Seq(X)
      BY <1>3
    <3>2. J \in Nat
      BY <2>1
    <3>3. /\ Latest(more, J) \in Seq(X) /\ Len(Latest(more, J)) = Len(more) - Cut(more, J)
          /\ \A i \in 1..Len(more) - Cut(more, J) : Latest(more, J)[i] = more[Cut(more, J) + i]
      BY <3>1, <3>2, LatestOnes
    <3>4. QED
      BY <2>1, <3>3
  <2>3. Len(more) - a = n - a + 1
    BY <1>1, <1>3
  <2>4. QED
    BY <2>2, <2>3
<1> HIDE DEF trimmed
<1>8. \A i \in 1..n - a + 1 : trimmed[i] = new[i]
  <2> SUFFICES ASSUME NEW i \in 1..n - a + 1
               PROVE  trimmed[i] = new[i]
    OBVIOUS
  <2>1. CASE i = n - a + 1
    <3>1. a + i = n + 1
      BY <1>1, <2>1
    <3>2. QED
      BY <1>3, <1>6, <1>7, <2>1, <3>1
  <2>2. CASE i \in 1..n - a
    <3>1. a + i \in 1..n
      BY <1>1, <2>2
    <3>2. QED
      BY <1>2, <1>3, <1>6, <1>7, <2>2, <3>1
  <2>3. QED
    BY <1>1, <2>1, <2>2
<1>9. trimmed = new
  BY <1>5, <1>7, <1>8
<1>10. QED
  BY <1>9 DEF trimmed, new, more, old

LEMMA LatestEmpty == \A K \in Nat : Latest(<<>>, K) = <<>>
<1> SUFFICES ASSUME NEW K \in Nat PROVE Latest(<<>>, K) = <<>>
  OBVIOUS
<1>1. <<>> \in Seq({}) /\ Len(<<>>) = 0
  OBVIOUS
<1>2. Latest(<<>>, K) \in Seq({}) /\ Len(Latest(<<>>, K)) = 0
  <2> DEFINE e == <<>>
  <2>1. e \in Seq({}) /\ Len(e) = 0
    BY <1>1
  <2> HIDE DEF e
  <2>2. Latest(e, K) \in Seq({}) /\ Len(Latest(e, K)) = Len(e) - Cut(e, K)
    BY <2>1, LatestOnes
  <2>3. Cut(e, K) = 0
    BY <2>1 DEF Cut
  <2>4. QED
    BY <2>1, <2>2, <2>3 DEF e
<1>3. QED
  BY <1>2

LEMMA LatestNone ==
    ASSUME NEW X, NEW list \in Seq(X)
    PROVE  Latest(list, 0) = <<>>
<1>1. 0 \in Nat /\ Len(list) \in Nat
  OBVIOUS
<1>2. Len(list) - Cut(list, 0) = 0
  BY <1>1 DEF Cut
<1>3. Latest(list, 0) \in Seq(X) /\ Len(Latest(list, 0)) = 0
  BY <1>1, <1>2, LatestOnes
<1>4. QED
  BY <1>3

-----------------------------------------------------------------------------
(* The places of a list, in order. *)

Numbers(n) == [i \in 1..n |-> i]
InOrder(n, P) == Kept(Numbers(n), P)

LEMMA NumbersNext ==
    ASSUME NEW n \in Nat
    PROVE  /\ Numbers(n) \in Seq(1..n) /\ Numbers(n) \in Seq(Nat) /\ ToSet(Numbers(n)) = 1..n
           /\ Numbers(n + 1) = Append(Numbers(n), n + 1)
<1>1. Numbers(n) \in Seq(1..n) /\ Numbers(n) \in Seq(Nat) /\ ToSet(Numbers(n)) = 1..n
  BY DEF Numbers, ToSet
<1>2. /\ Append(Numbers(n), n + 1) \in Seq(Nat) /\ Len(Append(Numbers(n), n + 1)) = n + 1
      /\ \A i \in 1..n : Append(Numbers(n), n + 1)[i] = i
      /\ Append(Numbers(n), n + 1)[n + 1] = n + 1
  BY DEF Numbers
<1>3. /\ Numbers(n + 1) \in Seq(Nat) /\ Len(Numbers(n + 1)) = n + 1
      /\ \A i \in 1..n + 1 : Numbers(n + 1)[i] = i
  BY DEF Numbers
<1>4. \A i \in 1..n + 1 : i = n + 1 \/ i \in 1..n
  OBVIOUS
<1>5. Numbers(n + 1) = Append(Numbers(n), n + 1)
  <2> DEFINE left == Numbers(n + 1)
             right == Append(Numbers(n), n + 1)
             k == n + 1
  <2>1. left \in Seq(Nat) /\ right \in Seq(Nat) /\ Len(left) = Len(right)
    BY <1>2, <1>3
  <2>2. \A i \in 1..Len(left) : left[i] = right[i]
    BY <1>2, <1>3, <1>4
  <2> HIDE DEF left, right
  <2>3. left = right
    BY <2>1, <2>2
  <2>4. QED
    BY <2>3 DEF left, right
<1>6. QED
  BY <1>1, <1>5

LEMMA InOrderNext ==
    ASSUME NEW n \in Nat, NEW P
    PROVE  InOrder(n + 1, P) =
             IF n + 1 \in P THEN Append(InOrder(n, P), n + 1) ELSE InOrder(n, P)
<1>1. Numbers(n) \in Seq(Nat) /\ n + 1 \in Nat
  BY NumbersNext
<1>2. Numbers(n + 1) = Append(Numbers(n), n + 1)
  BY NumbersNext
<1>3. Kept(Append(Numbers(n), n + 1), P) =
        IF n + 1 \in P THEN Append(Kept(Numbers(n), P), n + 1) ELSE Kept(Numbers(n), P)
  <2> DEFINE list == Numbers(n)
             x == n + 1
  <2>1. list \in Seq(Nat) /\ x \in Nat
    BY <1>1
  <2> HIDE DEF list, x
  <2>2. Kept(Append(list, x), P) = IF x \in P THEN Append(Kept(list, P), x) ELSE Kept(list, P)
    BY <2>1, KeptAppend
  <2>3. QED
    BY <2>2 DEF list, x
<1>4. QED
  BY <1>2, <1>3 DEF InOrder

LEMMA InOrderNone == \A P : InOrder(0, P) = <<>>
<1>1. Numbers(0) = <<>>
  BY DEF Numbers
<1>2. QED
  BY <1>1, KeptEmpty DEF InOrder

LEMMA InOrderSame ==
    ASSUME NEW n \in Nat, NEW P, NEW Q, P \cap (1..n) = Q \cap (1..n)
    PROVE  InOrder(n, P) = InOrder(n, Q)
<1>1. Numbers(n) \in Seq(1..n) /\ ToSet(Numbers(n)) \cap P = ToSet(Numbers(n)) \cap Q
  BY NumbersNext
<1>2. QED
  BY <1>1, KeptSame DEF InOrder

LEMMA InOrderList ==
    ASSUME NEW n \in Nat, NEW P \in SUBSET (1..n)
    PROVE  /\ InOrder(n, P) \in Seq(1..n)
           /\ ToSet(InOrder(n, P)) = P
           /\ Len(InOrder(n, P)) = Cardinality(P)
           /\ Len(InOrder(n, P)) \in Nat
<1> DEFINE idx == InOrder(n, P)
<1>1. Numbers(n) \in Seq(1..n) /\ ToSet(Numbers(n)) = 1..n
  BY NumbersNext
<1>2. idx \in Seq(1..n) /\ ToSet(idx) = (1..n) \cap P
  BY <1>1, KeptElements DEF InOrder
<1>3. Len(idx) = CountIn(idx, P)
  <2> HIDE DEF idx
  <2>1. ToSet(idx) \subseteq P
    BY <1>2
  <2>2. QED
    BY <1>2, <2>1, CountAll
<1>4. CountIn(idx, P) = CountIn(Numbers(n), P)
  <2>1. P \cap P = P
    OBVIOUS
  <2>2. QED
    BY <1>1, <2>1, CountKept DEF InOrder
<1>5. CountIn(Numbers(n), P) = Cardinality(P)
  <2>1. {i \in 1..Len(Numbers(n)) : Numbers(n)[i] \in P} = P
    <3>1. Len(Numbers(n)) = n /\ \A i \in 1..n : Numbers(n)[i] = i
      BY DEF Numbers
    <3>2. QED
      BY <3>1
  <2>2. QED
    BY <2>1 DEF CountIn
<1>6. Len(idx) \in Nat
  <2> HIDE DEF idx
  <2> QED
    BY <1>2
<1>7. QED
  BY <1>2, <1>3, <1>4, <1>5, <1>6

\* The last K of a set of places.
LastOf(P, K) == {i \in P : Cardinality({j \in P : j > i}) < K}

LEMMA LastOfNext ==
    ASSUME NEW n \in Nat, NEW P \in SUBSET (1..n), NEW K \in Nat
    PROVE  LastOf(P \cup {n + 1}, K + 1) = LastOf(P, K) \cup {n + 1}
<1> DEFINE Q == P \cup {n + 1}
<1>1. IsFiniteSet(P) /\ \A i \in P : i \in 1..n
  <2>1. IsFiniteSet(1..n) /\ P \subseteq 1..n
    BY FS_Interval
  <2>2. QED
    BY <2>1, FS_Subset
<1>2. ASSUME NEW i \in P
      PROVE  Cardinality({j \in Q : j > i}) = Cardinality({j \in P : j > i}) + 1
  <2> DEFINE A == {j \in P : j > i}
  <2>1. {j \in Q : j > i} = A \cup {n + 1} /\ n + 1 \notin A
    OBVIOUS
  <2>2. IsFiniteSet(A)
    BY <1>1, FS_Subset
  <2> HIDE DEF A
  <2>3. Cardinality(A \cup {n + 1}) = Cardinality(A) + 1
    BY <2>1, <2>2, FS_AddElement
  <2>4. QED
    BY <2>1, <2>3 DEF A
<1>3. \A i \in P : Cardinality({j \in P : j > i}) \in Nat
  BY <1>1, FS_Subset, FS_CardinalityType
<1>4. Cardinality({j \in Q : j > n + 1}) = 0
  <2>1. {j \in Q : j > n + 1} = {}
    <3>1. \A j \in Q : j \in 1..n \/ j = n + 1
      BY <1>1
    <3>2. \A j \in Q : ~(j > n + 1)
      BY <3>1
    <3>3. QED
      BY <3>2
  <2>2. QED
    BY <2>1, FS_EmptySet
<1>5. \A i \in P : Cardinality({j \in Q : j > i}) < K + 1 <=> Cardinality({j \in P : j > i}) < K
  BY <1>2, <1>3
<1>6. Cardinality({j \in Q : j > n + 1}) < K + 1
  BY <1>4
<1>7. QED
  BY <1>5, <1>6 DEF LastOf

LEMMA LastOfInOrder ==
    ASSUME NEW n \in Nat, NEW P \in SUBSET (1..n), NEW K \in Nat
    PROVE  InOrder(n, LastOf(P, K)) = Latest(InOrder(n, P), K)
<1> DEFINE S == {m \in Nat : \A Q \in SUBSET (1..m), k \in Nat :
                                InOrder(m, LastOf(Q, k)) = Latest(InOrder(m, Q), k)}
<1>1. 0 \in S
  <2>1. \A Q, k : InOrder(0, LastOf(Q, k)) = <<>> /\ InOrder(0, Q) = <<>>
    BY InOrderNone
  <2>2. QED
    BY <2>1, LatestEmpty
<1>2. ASSUME NEW m \in Nat, m \in S
      PROVE  m + 1 \in S
  <2> SUFFICES ASSUME NEW Q \in SUBSET (1..m + 1), NEW k \in Nat
               PROVE  InOrder(m + 1, LastOf(Q, k)) = Latest(InOrder(m + 1, Q), k)
    OBVIOUS
  <2> DEFINE R == Q \ {m + 1}
  <2>1. R \in SUBSET (1..m)
    OBVIOUS
  <2>2. InOrder(m, R) \in Seq(1..m) /\ InOrder(m, R) \in Seq(Nat) /\ InOrder(m + 1, Q) \in Seq(1..m + 1)
    <3>1. InOrder(m, R) \in Seq(1..m)
      BY <2>1, InOrderList
    <3>2. InOrder(m + 1, Q) \in Seq(1..m + 1)
      <4>1. m + 1 \in Nat
        OBVIOUS
      <4>2. QED
        BY <4>1, InOrderList
    <3>3. QED
      BY <3>1, <3>2
  <2>3. CASE m + 1 \notin Q
    <3>1. Q = R /\ LastOf(Q, k) \subseteq R
      BY <2>3 DEF LastOf
    <3>2. InOrder(m + 1, LastOf(Q, k)) = InOrder(m, LastOf(Q, k)) /\ InOrder(m + 1, Q) = InOrder(m, Q)
      BY <2>3, <3>1, InOrderNext
    <3>3. QED
      BY <1>2, <2>1, <3>1, <3>2
  <2>4. CASE m + 1 \in Q /\ k = 0
    <3>1. LastOf(Q, k) = {}
      <4>1. IsFiniteSet(Q)
        <5>1. IsFiniteSet(1..m + 1) /\ Q \subseteq 1..m + 1
          BY FS_Interval
        <5>2. QED
          BY <5>1, FS_Subset
      <4>2. \A i \in Q : Cardinality({j \in Q : j > i}) \in Nat
        BY <4>1, FS_Subset, FS_CardinalityType
      <4>3. \A i \in Q : ~(Cardinality({j \in Q : j > i}) < 0)
        BY <4>2
      <4>4. QED
        BY <2>4, <4>3 DEF LastOf
    <3>2. InOrder(m + 1, {}) = <<>>
      <4>1. m + 1 \in Nat /\ {} \in SUBSET (1..m + 1)
        OBVIOUS
      <4>2. InOrder(m + 1, {}) \in Seq(1..m + 1) /\ Len(InOrder(m + 1, {})) = Cardinality({})
        BY <4>1, InOrderList
      <4>3. Cardinality({}) = 0
        BY FS_EmptySet
      <4>4. QED
        BY <4>2, <4>3
    <3>3. QED
      BY <2>2, <2>4, <3>1, <3>2, LatestNone
  <2>5. CASE m + 1 \in Q /\ k # 0
    <3>1. k - 1 \in Nat /\ (k - 1) + 1 = k /\ Q = R \cup {m + 1}
      BY <2>5
    <3>2. LastOf(Q, k) = LastOf(R, k - 1) \cup {m + 1}
      BY <2>1, <3>1, LastOfNext
    <3>3. /\ InOrder(m + 1, LastOf(Q, k)) = Append(InOrder(m, LastOf(R, k - 1)), m + 1)
          /\ InOrder(m + 1, Q) = Append(InOrder(m, R), m + 1)
      <4>1. /\ InOrder(m, LastOf(Q, k)) = InOrder(m, LastOf(R, k - 1))
            /\ InOrder(m, Q) = InOrder(m, R)
        <5>1. LastOf(Q, k) \cap (1..m) = LastOf(R, k - 1) \cap (1..m) /\ Q \cap (1..m) = R \cap (1..m)
          BY <3>1, <3>2
        <5>2. QED
          BY <5>1, InOrderSame
      <4>2. m + 1 \in LastOf(Q, k)
        BY <3>2
      <4>3. QED
        BY <2>5, <4>1, <4>2, InOrderNext
    <3>4. InOrder(m, LastOf(R, k - 1)) = Latest(InOrder(m, R), k - 1)
      BY <1>2, <2>1, <3>1
    <3>5. Latest(Append(InOrder(m, R), m + 1), k) = Append(Latest(InOrder(m, R), k - 1), m + 1)
      <4> DEFINE j == k - 1
                 idx == InOrder(m, R)
                 x == m + 1
      <4>1. j \in Nat /\ j + 1 = k /\ idx \in Seq(Nat) /\ x \in Nat
        BY <2>2, <3>1
      <4> HIDE DEF j, idx, x
      <4>2. Latest(Append(idx, x), j + 1) = Append(Latest(idx, j), x)
        BY <4>1, LatestGrows
      <4>3. QED
        BY <4>1, <4>2 DEF j, idx, x
    <3>6. QED
      BY <3>3, <3>4, <3>5
  <2>6. QED
    BY <2>3, <2>4, <2>5
<1>3. n \in S
  <2> HIDE DEF S
  <2> QED
    BY <1>1, <1>2, Induction
<1>4. QED
  BY <1>3

\* The sum of the values at some places, in two ways.
LEMMA SumInOrder ==
    ASSUME NEW v \in Seq(Int), NEW P
    PROVE  Total([k \in 1..Len(InOrder(Len(v), P)) |-> v[InOrder(Len(v), P)[k]]])
             = Total([i \in 1..Len(v) |-> IF i \in P THEN v[i] ELSE 0])
<1> DEFINE Picked(u) == [k \in 1..Len(InOrder(Len(u), P)) |-> u[InOrder(Len(u), P)[k]]]
           Masked(u) == [i \in 1..Len(u) |-> IF i \in P THEN u[i] ELSE 0]
           S == {u \in Seq(Int) : Total(Picked(u)) = Total(Masked(u))}
<1>1. <<>> \in S
  <2>1. Picked(<<>>) = <<>> /\ Masked(<<>>) = <<>>
    BY InOrderNone
  <2>2. QED
    BY <2>1
<1>2. ASSUME NEW u \in Seq(Int), NEW x \in Int, u \in S
      PROVE  Append(u, x) \in S
  <2> DEFINE more == Append(u, x)
             n == Len(u)
             idx == InOrder(n, P)
             next == InOrder(n + 1, P)
  <2>1. /\ more \in Seq(Int) /\ n \in Nat /\ Len(more) = n + 1
        /\ \A i \in 1..n : more[i] = u[i] /\ u[i] \in Int
        /\ more[n + 1] = x
    BY Appended
  <2>2. idx \in Seq(Nat) /\ Len(idx) \in Nat /\ \A k \in 1..Len(idx) : idx[k] \in 1..n
    <3>1. idx = InOrder(n, P \cap (1..n))
      BY <2>1, InOrderSame
    <3>2. P \cap (1..n) \in SUBSET (1..n)
      OBVIOUS
    <3>3. idx \in Seq(1..n) /\ Len(idx) \in Nat
      BY <2>1, <3>1, <3>2, InOrderList
    <3> HIDE DEF idx
    <3>4. \A k \in 1..Len(idx) : idx[k] \in 1..n
      BY <3>3, Elements
    <3>5. QED
      BY <3>3, <3>4
  <2>3. next = IF n + 1 \in P THEN Append(idx, n + 1) ELSE idx
    BY <2>1, InOrderNext
  <2> DEFINE pick == [k \in 1..Len(idx) |-> u[idx[k]]]
             pickmore == [k \in 1..Len(next) |-> more[next[k]]]
             mask == [i \in 1..n |-> IF i \in P THEN u[i] ELSE 0]
             maskmore == [i \in 1..n + 1 |-> IF i \in P THEN more[i] ELSE 0]
  <2>4. Total(pick) = Total(mask)
    BY <1>2
  <2>5. Picked(more) = pickmore /\ Masked(more) = maskmore
    BY <2>1
  <2> HIDE DEF more, n, idx, next
  <2>6. /\ pick \in Seq(Int) /\ Len(pick) = Len(idx)
        /\ mask \in Seq(Int) /\ Len(mask) = n
        /\ maskmore \in Seq(Int) /\ Len(maskmore) = n + 1
    <3>1. \A k \in 1..Len(idx) : idx[k] \in 1..n
      BY <2>2
    <3>2. \A i \in 1..n + 1 : more[i] \in Int
      BY <2>1
    <3>3. pick \in Seq(Int) /\ Len(pick) = Len(idx)
      BY <2>1, <2>2, <3>1
    <3>4. mask \in Seq(Int) /\ Len(mask) = n
      BY <2>1
    <3>5. maskmore \in Seq(Int) /\ Len(maskmore) = n + 1
      BY <2>1, <3>2
    <3>6. QED
      BY <3>3, <3>4, <3>5
  <2>7. Total(maskmore) = Total(mask) + (IF n + 1 \in P THEN x ELSE 0)
    <3>1. \A i \in 1..n : i \in 1..n + 1 /\ mask[i] = maskmore[i]
      BY <2>1
    <3>2. maskmore[n + 1] = IF n + 1 \in P THEN x ELSE 0
      BY <2>1
    <3> HIDE DEF mask, maskmore
    <3>3. Total(maskmore) = Total(mask) + maskmore[Len(maskmore)]
      BY <2>6, <3>1, TotalSplit
    <3>4. QED
      BY <2>6, <3>2, <3>3
  <2>8. Total(pickmore) = Total(pick) + (IF n + 1 \in P THEN x ELSE 0)
    <3>1. CASE n + 1 \in P
      <4>1. /\ Len(next) = Len(idx) + 1
            /\ \A k \in 1..Len(idx) : next[k] = idx[k]
            /\ next[Len(idx) + 1] = n + 1
        BY <2>1, <2>2, <2>3, <3>1, Appended
      <4>2. \A k \in 1..Len(idx) : k \in 1..Len(next) /\ pickmore[k] = pick[k]
        <5>1. \A k \in 1..Len(idx) : idx[k] \in 1..n /\ k \in 1..Len(next)
          BY <2>2, <4>1
        <5>2. QED
          BY <2>1, <4>1, <5>1
      <4>3. pickmore[Len(idx) + 1] = x
        BY <2>1, <2>2, <4>1
      <4>4. pickmore \in Seq(Int) /\ Len(pickmore) = Len(idx) + 1
        <5>1. \A k \in 1..Len(next) : k = Len(idx) + 1 \/ k \in 1..Len(idx)
          BY <2>2, <4>1
        <5>2. \A k \in 1..Len(next) : next[k] \in 1..n \/ next[k] = n + 1
          BY <2>2, <4>1, <5>1
        <5>3. \A k \in 1..Len(next) : more[next[k]] \in Int
          BY <2>1, <5>2
        <5>4. QED
          BY <2>2, <4>1, <5>3
      <4> HIDE DEF pick, pickmore
      <4>5. Total(pickmore) = Total(pick) + pickmore[Len(pickmore)]
        BY <2>6, <4>2, <4>4, TotalSplit
      <4>6. QED
        BY <2>6, <3>1, <4>3, <4>4, <4>5
    <3>2. CASE n + 1 \notin P
      <4>1. next = idx
        BY <2>3, <3>2
      <4>2. \A k \in 1..Len(idx) : idx[k] \in 1..n
        BY <2>2
      <4>3. pickmore = pick
        BY <2>1, <4>1, <4>2
      <4>4. Total(pick) \in Int
        <5> HIDE DEF pick
        <5> QED
          BY <2>6, TotalAppend
      <4> HIDE DEF pick, pickmore
      <4>5. QED
        BY <3>2, <4>3, <4>4
    <3>3. QED
      BY <3>1, <3>2
  <2>9. Total(Picked(more)) = Total(Masked(more))
    BY <2>4, <2>5, <2>7, <2>8
  <2>10. QED
    BY <2>1, <2>9 DEF more
<1>3. Seq(Int) \subseteq S
  <2> HIDE DEF S
  <2> QED
    BY <1>1, <1>2, ListInduction
<1>4. QED
  BY <1>3

-----------------------------------------------------------------------------
(* A list of values, for a list of places. *)

At(values, places) == [k \in 1..Len(places) |-> values[places[k]]]

LEMMA AtType ==
    ASSUME NEW X, NEW Y, NEW places \in Seq(X), NEW values \in [X -> Y]
    PROVE  /\ At(values, places) \in Seq(Y) /\ Len(At(values, places)) = Len(places)
           /\ \A k \in 1..Len(places) : At(values, places)[k] = values[places[k]]
           /\ ToSet(At(values, places)) = {values[i] : i \in ToSet(places)}
<1>1. Len(places) \in Nat /\ \A k \in 1..Len(places) : places[k] \in X /\ values[places[k]] \in Y
  BY Elements
<1>2. At(values, places) \in Seq(Y) /\ Len(At(values, places)) = Len(places)
  BY <1>1 DEF At
<1>3. \A k \in 1..Len(places) : At(values, places)[k] = values[places[k]]
  BY DEF At
<1>4. ToSet(At(values, places)) = {values[i] : i \in ToSet(places)}
  <2> DEFINE found == At(values, places)
  <2>1. found \in Seq(Y) /\ Len(found) = Len(places) /\ \A k \in 1..Len(places) : found[k] = values[places[k]]
    BY <1>2, <1>3
  <2> HIDE DEF found
  <2>2. ToSet(found) = {found[k] : k \in 1..Len(places)}
    BY <2>1 DEF ToSet
  <2>3. ToSet(places) = {places[k] : k \in 1..Len(places)}
    BY DEF ToSet
  <2>4. \A y : y \in {found[k] : k \in 1..Len(places)} <=> y \in {values[i] : i \in {places[k] : k \in 1..Len(places)}}
    <3>1. \A k \in 1..Len(places) : found[k] = values[places[k]]
      BY <2>1
    <3>2. QED
      BY <3>1
  <2>5. QED
    BY <2>2, <2>3, <2>4 DEF found
<1>5. QED
  BY <1>2, <1>3, <1>4

LEMMA AtAny ==
    ASSUME NEW X, NEW places \in Seq(X), NEW values
    PROVE  /\ At(values, places) \in Seq({values[i] : i \in X}) /\ Len(At(values, places)) = Len(places)
           /\ \A k \in 1..Len(places) : At(values, places)[k] = values[places[k]]
<1> DEFINE Y == {values[i] : i \in X}
<1>1. Len(places) \in Nat /\ \A k \in 1..Len(places) : places[k] \in X
  BY Elements
<1>2. \A k \in 1..Len(places) : values[places[k]] \in Y
  BY <1>1
<1> HIDE DEF Y
<1>3. At(values, places) \in Seq(Y) /\ Len(At(values, places)) = Len(places)
  BY <1>1, <1>2 DEF At
<1>4. \A k \in 1..Len(places) : At(values, places)[k] = values[places[k]]
  BY DEF At
<1>5. QED
  BY <1>3, <1>4 DEF Y

LEMMA AtAppend ==
    ASSUME NEW X, NEW places \in Seq(X), NEW values, NEW i \in X
    PROVE  At(values, Append(places, i)) = Append(At(values, places), values[i])
<1> DEFINE more == Append(places, i)
           old == At(values, places)
           new == At(values, more)
           y == values[i]
           Y == {values[j] : j \in X}
<1>1. /\ more \in Seq(X) /\ Len(places) \in Nat /\ Len(more) = Len(places) + 1
      /\ \A k \in 1..Len(places) : more[k] = places[k]
      /\ more[Len(places) + 1] = i
  BY Appended
<1> HIDE DEF more
<1>2. /\ old \in Seq(Y) /\ Len(old) = Len(places)
      /\ \A k \in 1..Len(places) : old[k] = values[places[k]]
  BY AtAny
<1>3. /\ new \in Seq(Y) /\ Len(new) = Len(more)
      /\ \A k \in 1..Len(more) : new[k] = values[more[k]]
  BY <1>1, AtAny
<1>4. y \in Y
  OBVIOUS
<1> HIDE DEF old, new, y, Y
<1>5. /\ Append(old, y) \in Seq(Y) /\ Len(Append(old, y)) = Len(places) + 1
      /\ \A k \in 1..Len(places) : Append(old, y)[k] = old[k]
      /\ Append(old, y)[Len(places) + 1] = y
  <2>1. /\ Append(old, y) \in Seq(Y) /\ Len(Append(old, y)) = Len(old) + 1
        /\ \A k \in 1..Len(old) : Append(old, y)[k] = old[k]
        /\ Append(old, y)[Len(old) + 1] = y
    BY <1>2, <1>4, Appended
  <2>2. QED
    BY <1>2, <2>1
<1>6. \A k \in 1..Len(places) + 1 : new[k] = Append(old, y)[k]
  <2>1. \A k \in 1..Len(places) + 1 : k = Len(places) + 1 \/ k \in 1..Len(places)
    BY <1>1
  <2>2. new[Len(places) + 1] = y
    BY <1>1, <1>3 DEF y
  <2>3. \A k \in 1..Len(places) : new[k] = old[k]
    BY <1>1, <1>2, <1>3
  <2>4. QED
    BY <1>5, <2>1, <2>2, <2>3
<1>7. new = Append(old, y)
  BY <1>1, <1>3, <1>5, <1>6
<1>8. QED
  BY <1>7 DEF new, old, more, y

\* The last values are those at the last places.
LEMMA AtLatest ==
    ASSUME NEW X, NEW places \in Seq(X), NEW values, NEW K \in Nat
    PROVE  Latest(At(values, places), K) = At(values, Latest(places, K))
<1> DEFINE Y == {values[j] : j \in X}
           found == At(values, places)
           ones == Latest(places, K)
           left == Latest(found, K)
           right == At(values, ones)
           cut == Cut(places, K)
           n == Len(places)
<1>1. n \in Nat /\ cut \in Nat /\ cut <= n
  BY CutType
<1>2. found \in Seq(Y) /\ Len(found) = n /\ \A k \in 1..n : found[k] = values[places[k]]
  BY AtAny
<1>3. Cut(found, K) = cut
  BY <1>2 DEF Cut
<1>4. ones \in Seq(X) /\ Len(ones) = n - cut /\ \A k \in 1..n - cut : ones[k] = places[cut + k]
  BY LatestOnes
<1> HIDE DEF found, ones
<1>5. left \in Seq(Y) /\ Len(left) = n - cut /\ \A k \in 1..n - cut : left[k] = found[cut + k]
  <2>1. /\ left \in Seq(Y) /\ Len(left) = Len(found) - Cut(found, K)
        /\ \A k \in 1..Len(found) - Cut(found, K) : left[k] = found[Cut(found, K) + k]
    BY <1>2, LatestOnes
  <2>2. QED
    BY <1>2, <1>3, <2>1
<1>6. right \in Seq(Y) /\ Len(right) = Len(ones) /\ \A k \in 1..Len(ones) : right[k] = values[ones[k]]
  <2>1. ones \in Seq(X)
    BY <1>4
  <2> HIDE DEF left, cut, n, right, Y
  <2>2. /\ At(values, ones) \in Seq({values[i] : i \in X}) /\ Len(At(values, ones)) = Len(ones)
        /\ \A k \in 1..Len(ones) : At(values, ones)[k] = values[ones[k]]
    BY <2>1, AtAny, ZenonT(40)
  <2>3. QED
    BY <2>2 DEF right, Y
<1> HIDE DEF left, right, cut, Y
<1>7. \A k \in 1..n - cut : left[k] = right[k]
  <2> SUFFICES ASSUME NEW k \in 1..n - cut
               PROVE  left[k] = right[k]
    OBVIOUS
  <2>1. cut + k \in 1..n /\ k \in 1..Len(ones)
    BY <1>1, <1>4
  <2>2. QED
    BY <1>2, <1>4, <1>5, <1>6, <2>1
<1>8. left = right
  <2>1. Len(left) = Len(right) /\ Len(left) \in Nat /\ left \in Seq(Y) /\ right \in Seq(Y)
    BY <1>1, <1>4, <1>5, <1>6
  <2>2. \A k \in 1..Len(left) : left[k] = right[k]
    BY <1>5, <1>7
  <2>3. QED
    BY <2>1, <2>2
<1>9. QED
  BY <1>8 DEF left, right, found, ones

\* The squared distances of m times each value from S, added up.
LEMMA TotalSquares ==
    ASSUME NEW list \in Seq(Int), NEW m \in Int, NEW S \in Int
    PROVE  LET sq == [k \in 1..Len(list) |-> list[k] * list[k]]
               dist == [k \in 1..Len(list) |-> (m * list[k] - S) * (m * list[k] - S)]
           IN  /\ Total(sq) \in Int
               /\ Total(dist) = m * m * Total(sq) - 2 * m * S * Total(list) + Len(list) * S * S
<1> DEFINE Sq(s) == [k \in 1..Len(s) |-> s[k] * s[k]]
           Dist(s) == [k \in 1..Len(s) |-> (m * s[k] - S) * (m * s[k] - S)]
           P == {s \in Seq(Int) :
                    Total(Dist(s)) = m * m * Total(Sq(s)) - 2 * m * S * Total(s) + Len(s) * S * S}
<1>1. \A s \in Seq(Int) : /\ Sq(s) \in Seq(Int) /\ Dist(s) \in Seq(Int)
                          /\ Len(Sq(s)) = Len(s) /\ Len(Dist(s)) = Len(s) /\ Len(s) \in Nat
  <2> SUFFICES ASSUME NEW s \in Seq(Int)
               PROVE  /\ Sq(s) \in Seq(Int) /\ Dist(s) \in Seq(Int)
                      /\ Len(Sq(s)) = Len(s) /\ Len(Dist(s)) = Len(s) /\ Len(s) \in Nat
    OBVIOUS
  <2>1. \A k \in 1..Len(s) : s[k] \in Int
    OBVIOUS
  <2>2. \A k \in 1..Len(s) : s[k] * s[k] \in Int /\ (m * s[k] - S) * (m * s[k] - S) \in Int
    BY <2>1
  <2>3. QED
    BY <2>2
<1>2. \A s \in Seq(Int) : Total(s) \in Int
  BY TotalAppend
<1>3. <<>> \in P
  <2>1. Sq(<<>>) = <<>> /\ Dist(<<>>) = <<>> /\ Len(<<>>) = 0 /\ <<>> \in Seq(Int)
    OBVIOUS
  <2>2. Total(Sq(<<>>)) = 0 /\ Total(Dist(<<>>)) = 0 /\ Total(<<>>) = 0
    BY <2>1, TotalEmpty
  <2> HIDE DEF Sq, Dist
  <2>3. 0 = m * m * 0 - 2 * m * S * 0 + 0 * S * S
    OBVIOUS
  <2>4. QED
    BY <2>1, <2>2, <2>3
<1>4. ASSUME NEW s \in Seq(Int), NEW x \in Int, s \in P
      PROVE  Append(s, x) \in P
  <2> DEFINE more == Append(s, x)
             n == Len(s)
  <2>1. /\ more \in Seq(Int) /\ n \in Nat /\ Len(more) = n + 1
        /\ \A i \in 1..n : more[i] = s[i]
        /\ more[n + 1] = x
    BY Appended
  <2>2. \A i \in 1..n : i \in 1..n + 1
    BY <2>1
  <2>3. n + 1 \in 1..n + 1
    BY <2>1
  <2> HIDE DEF more
  <2>4. /\ Sq(s) \in Seq(Int) /\ Dist(s) \in Seq(Int) /\ Len(Sq(s)) = n /\ Len(Dist(s)) = n
        /\ Sq(more) \in Seq(Int) /\ Dist(more) \in Seq(Int) /\ Len(Sq(more)) = n + 1 /\ Len(Dist(more)) = n + 1
    BY <1>1, <2>1
  <2>5. /\ \A i \in 1..n : Sq(s)[i] = Sq(more)[i] /\ Dist(s)[i] = Dist(more)[i]
        /\ Sq(more)[n + 1] = x * x /\ Dist(more)[n + 1] = (m * x - S) * (m * x - S)
    BY <2>1, <2>2, <2>3
  <2> HIDE DEF Sq, Dist, n
  <2>6. Total(Sq(more)) = Total(Sq(s)) + x * x
    BY <2>4, <2>5, TotalSplit
  <2>7. Total(Dist(more)) = Total(Dist(s)) + (m * x - S) * (m * x - S)
    BY <2>4, <2>5, TotalSplit
  <2>8. Total(more) = Total(s) + x
    BY TotalAppend DEF more
  <2>9. Total(Dist(s)) = m * m * Total(Sq(s)) - 2 * m * S * Total(s) + n * S * S
    BY <1>4 DEF n
  <2>10. PICK q \in Int, v \in Int, d \in Int : q = Total(Sq(s)) /\ v = Total(s) /\ d = Total(Dist(s))
    BY <1>2, <2>4
  <2>11. d + (m * x - S) * (m * x - S)
           = m * m * (q + x * x) - 2 * m * S * (v + x) + (n + 1) * S * S
    <3>1. d = m * m * q - 2 * m * S * v + n * S * S
      BY <2>9, <2>10
    <3>2. (m * x - S) * (m * x - S) = m * m * (x * x) - 2 * m * S * x + S * S
      OBVIOUS
    <3>3. m * m * (q + x * x) = m * m * q + m * m * (x * x)
      BY <2>10
    <3>4. 2 * m * S * (v + x) = 2 * m * S * v + 2 * m * S * x
      BY <2>10
    <3>5. (n + 1) * S * S = n * S * S + S * S
      BY <2>1
    <3>6. PICK a \in Int, b \in Int, c \in Int, e \in Int, g \in Int, z \in Int :
             /\ a = m * m * q /\ b = 2 * m * S * v /\ c = n * S * S
             /\ e = m * m * (x * x) /\ g = 2 * m * S * x /\ z = S * S
      BY <2>1, <2>10
    <3>7. d + (e - g + z) = (a + e) - (b + g) + (c + z)
      BY <3>1, <3>6
    <3>8. QED
      BY <3>2, <3>3, <3>4, <3>5, <3>6, <3>7
  <2>12. Total(Dist(more)) = m * m * Total(Sq(more)) - 2 * m * S * Total(more) + Len(more) * S * S
    BY <2>1, <2>6, <2>7, <2>8, <2>10, <2>11
  <2>13. QED
    BY <2>1, <2>12 DEF more
<1>5. Seq(Int) \subseteq P
  <2> HIDE DEF P
  <2> QED
    BY <1>3, <1>4, ListInduction
<1>6. Total(Sq(list)) \in Int
  BY <1>1, <1>2
<1>7. list \in P
  BY <1>5
<1>8. QED
  BY <1>6, <1>7

-----------------------------------------------------------------------------
(* Lists and their ends. *)

\* s is the end of t.
Ends(s, t) == Len(s) <= Len(t) /\ \A i \in 1..Len(s) : s[i] = t[Len(t) - Len(s) + i]

LEMMA EndsIsSuffix ==
    ASSUME NEW X, NEW s \in Seq(X), NEW t \in Seq(X), Ends(s, t)
    PROVE  IsSuffix(s, t)
<1> DEFINE m == Len(s)
           n == Len(t)
           backS == [i \in 1..m |-> s[(m - i) + 1]]
           backT == [i \in 1..n |-> t[(n - i) + 1]]
<1>1. m \in Nat /\ n \in Nat /\ m <= n /\ \A i \in 1..m : s[i] = t[n - m + i]
  BY DEF Ends
<1>2. \A i \in 1..m : backS[i] = backT[i]
  <2> SUFFICES ASSUME NEW i \in 1..m PROVE backS[i] = backT[i]
    OBVIOUS
  <2>1. (m - i) + 1 \in 1..m /\ i \in 1..n /\ n - m + ((m - i) + 1) = (n - i) + 1
    BY <1>1
  <2>2. s[(m - i) + 1] = t[(n - i) + 1]
    BY <1>1, <2>1
  <2>3. backS[i] = s[(m - i) + 1] /\ backT[i] = t[(n - i) + 1]
    BY <2>1
  <2>4. QED
    BY <2>2, <2>3
<1>3. backS \in Seq(X) /\ Len(backS) = m /\ backT \in Seq(X) /\ Len(backT) = n
  <2>1. \A i \in 1..m : (m - i) + 1 \in 1..m
    BY <1>1
  <2>2. \A i \in 1..n : (n - i) + 1 \in 1..n
    BY <1>1
  <2>3. QED
    BY <1>1, <2>1, <2>2
<1>4. Reverse(s) = backS /\ Reverse(t) = backT
  BY DEF Reverse
<1> HIDE DEF backS, backT
<1>5. SubSeq(backS, 1, m) = SubSeq(backT, 1, m)
  <2>1. /\ SubSeq(backS, 1, m) \in Seq(X) /\ Len(SubSeq(backS, 1, m)) = m
        /\ \A i \in 1..m : SubSeq(backS, 1, m)[i] = backS[i]
    BY <1>1, <1>3
  <2>2. /\ SubSeq(backT, 1, m) \in Seq(X) /\ Len(SubSeq(backT, 1, m)) = m
        /\ \A i \in 1..m : SubSeq(backT, 1, m)[i] = backT[i]
    BY <1>1, <1>3
  <2>3. QED
    BY <1>2, <2>1, <2>2
<1>6. QED
  BY <1>1, <1>3, <1>4, <1>5 DEF IsSuffix, IsPrefix

LEMMA EndsOfEnds ==
    ASSUME NEW X, NEW s \in Seq(X), NEW t \in Seq(X), NEW u \in Seq(X), Ends(s, t), Ends(t, u)
    PROVE  Ends(s, u)
<1>1. Len(s) \in Nat /\ Len(t) \in Nat /\ Len(u) \in Nat /\ Len(s) <= Len(t) /\ Len(t) <= Len(u)
  BY DEF Ends
<1>2. ASSUME NEW i \in 1..Len(s)
      PROVE  s[i] = u[Len(u) - Len(s) + i]
  <2>1. /\ Len(t) - Len(s) + i \in 1..Len(t)
        /\ Len(u) - Len(t) + (Len(t) - Len(s) + i) = Len(u) - Len(s) + i
    BY <1>1
  <2>2. s[i] = t[Len(t) - Len(s) + i]
    BY DEF Ends
  <2>3. t[Len(t) - Len(s) + i] = u[Len(u) - Len(t) + (Len(t) - Len(s) + i)]
    BY <2>1 DEF Ends
  <2>4. QED
    BY <2>1, <2>2, <2>3
<1>3. QED
  BY <1>1, <1>2 DEF Ends

\* What is added to both lists keeps the end the end.
LEMMA EndsAppend ==
    ASSUME NEW X, NEW s \in Seq(X), NEW t \in Seq(X), NEW x \in X, Ends(s, t)
    PROVE  Ends(Append(s, x), Append(t, x))
<1> DEFINE m == Len(s)
           n == Len(t)
           u == Append(s, x)
           v == Append(t, x)
<1>1. m \in Nat /\ n \in Nat /\ m <= n /\ \A i \in 1..m : s[i] = t[n - m + i]
  BY DEF Ends
<1>2. Len(u) = m + 1 /\ u[m + 1] = x /\ \A i \in 1..m : u[i] = s[i]
  BY Appended
<1>3. Len(v) = n + 1 /\ v[n + 1] = x /\ \A i \in 1..n : v[i] = t[i]
  BY Appended
<1> HIDE DEF u, v, m, n
<1>4. ASSUME NEW i \in 1..m + 1
      PROVE  u[i] = v[(n + 1) - (m + 1) + i]
  <2>1. CASE i = m + 1
    <3>1. (n + 1) - (m + 1) + i = n + 1
      BY <1>1, <2>1
    <3>2. QED
      BY <1>2, <1>3, <2>1, <3>1
  <2>2. CASE i # m + 1
    <3>1. i \in 1..m /\ n - m + i \in 1..n /\ (n + 1) - (m + 1) + i = n - m + i
      BY <1>1, <2>2
    <3>2. QED
      BY <1>1, <1>2, <1>3, <3>1
  <2>3. QED
    BY <2>1, <2>2
<1>5. Ends(u, v)
  BY <1>1, <1>2, <1>3, <1>4 DEF Ends
<1>6. QED
  BY <1>5 DEF u, v

\* Concatenation, element after element.
LEMMA ConcatAppend ==
    ASSUME NEW X, NEW s \in Seq(X), NEW t \in Seq(X), NEW x \in X
    PROVE  /\ s \o t \in Seq(X) /\ s \o <<>> = s
           /\ s \o Append(t, x) = Append(s \o t, x)
OBVIOUS

LEMMA ToSetConcat ==
    ASSUME NEW X, NEW s \in Seq(X), NEW t \in Seq(X)
    PROVE  ToSet(s \o t) = ToSet(s) \cup ToSet(t)
<1> DEFINE P == {r \in Seq(X) : ToSet(s \o r) = ToSet(s) \cup ToSet(r)}
<1>1. <<>> \in P
  <2>1. s \o <<>> = s /\ ToSet(<<>>) = {}
    BY DEF ToSet
  <2>2. QED
    BY <2>1
<1>2. ASSUME NEW r \in Seq(X), NEW x \in X, r \in P
      PROVE  Append(r, x) \in P
  <2>1. s \o r \in Seq(X) /\ s \o Append(r, x) = Append(s \o r, x)
    BY ConcatAppend
  <2>2. ToSet(Append(s \o r, x)) = ToSet(s \o r) \cup {x}
    <3> DEFINE both == s \o r
    <3> HIDE DEF both
    <3>1. both \in Seq(X)
      BY <2>1 DEF both
    <3>2. ToSet(Append(both, x)) = ToSet(both) \cup {x}
      BY <3>1, Appended
    <3>3. QED
      BY <3>2 DEF both
  <2>3. Append(r, x) \in Seq(X) /\ ToSet(Append(r, x)) = ToSet(r) \cup {x}
    BY Appended
  <2>4. ToSet(s \o r) = ToSet(s) \cup ToSet(r)
    BY <1>2
  <2>5. QED
    BY <2>1, <2>2, <2>3, <2>4
<1>3. Seq(X) \subseteq P
  <2> HIDE DEF P
  <2> QED
    BY <1>1, <1>2, ListInduction
<1>4. QED
  BY <1>3

LEMMA LatestAmong ==
    ASSUME NEW X, NEW list \in Seq(X), NEW K \in Nat
    PROVE  ToSet(Latest(list, K)) \subseteq ToSet(list)
<1>1. Len(list) \in Nat /\ Cut(list, K) \in Nat
  BY CutType
<1>2. \A i \in 1..Len(list) - Cut(list, K) : Cut(list, K) + i \in 1..Len(list)
  BY <1>1
<1> DEFINE latest == Latest(list, K)
<1>3. /\ latest \in Seq(X) /\ Len(latest) = Len(list) - Cut(list, K)
      /\ \A i \in 1..Len(list) - Cut(list, K) : latest[i] = list[Cut(list, K) + i]
  BY LatestOnes
<1> HIDE DEF latest
<1>4. ASSUME NEW x \in ToSet(latest)
      PROVE  x \in ToSet(list)
  <2>1. PICK i \in 1..Len(latest) : latest[i] = x
    BY <1>3, Elements
  <2>2. x = list[Cut(list, K) + i] /\ Cut(list, K) + i \in 1..Len(list)
    BY <1>2, <1>3, <2>1
  <2>3. QED
    BY <2>2, Elements
<1>5. QED
  BY <1>4 DEF latest

LEMMA EndsConcat ==
    ASSUME NEW X, NEW s \in Seq(X), NEW t \in Seq(X), NEW more \in Seq(X), Ends(s, t)
    PROVE  Ends(s \o more, t \o more)
<1> DEFINE P == {r \in Seq(X) : Ends(s \o r, t \o r)}
<1>1. <<>> \in P
  <2>1. s \o <<>> = s /\ t \o <<>> = t /\ <<>> \in Seq(X)
    OBVIOUS
  <2>2. QED
    BY <2>1
<1>2. ASSUME NEW r \in Seq(X), NEW x \in X, r \in P
      PROVE  Append(r, x) \in P
  <2>1. Ends(s \o r, t \o r)
    BY <1>2
  <2>2. s \o r \in Seq(X) /\ t \o r \in Seq(X) /\ Append(r, x) \in Seq(X)
    OBVIOUS
  <2>3. Ends(Append(s \o r, x), Append(t \o r, x))
    BY <2>1, <2>2, EndsAppend
  <2>4. s \o Append(r, x) = Append(s \o r, x) /\ t \o Append(r, x) = Append(t \o r, x)
    BY ConcatAppend
  <2>5. QED
    BY <2>2, <2>3, <2>4
<1>3. Seq(X) \subseteq P
  <2> HIDE DEF P
  <2> QED
    BY <1>1, <1>2, ListInduction
<1>4. QED
  BY <1>3

\* To filter two lists one after the other is to filter them put together.
LEMMA KeptConcat ==
    ASSUME NEW X, NEW s \in Seq(X), NEW t \in Seq(X), NEW S
    PROVE  Kept(s \o t, S) = Kept(s, S) \o Kept(t, S)
<1> DEFINE P == {r \in Seq(X) : Kept(s \o r, S) = Kept(s, S) \o Kept(r, S)}
<1>1. <<>> \in P
  <2>1. Kept(s, S) \in Seq(X) /\ Kept(<<>>, S) = <<>>
    BY KeptElements, KeptEmpty
  <2>2. s \o <<>> = s /\ Kept(s, S) \o <<>> = Kept(s, S) /\ <<>> \in Seq(X)
    BY <2>1
  <2>3. QED
    BY <2>1, <2>2
<1>2. ASSUME NEW r \in Seq(X), NEW x \in X, r \in P
      PROVE  Append(r, x) \in P
  <2>1. Kept(s \o r, S) = Kept(s, S) \o Kept(r, S)
    BY <1>2
  <2>2. s \o r \in Seq(X) /\ Append(r, x) \in Seq(X) /\ s \o Append(r, x) = Append(s \o r, x)
    BY ConcatAppend
  <2>3. Kept(Append(s \o r, x), S) = IF x \in S THEN Append(Kept(s \o r, S), x) ELSE Kept(s \o r, S)
    BY <2>2, KeptAppend
  <2>4. Kept(Append(r, x), S) = IF x \in S THEN Append(Kept(r, S), x) ELSE Kept(r, S)
    BY KeptAppend
  <2>5. Kept(s, S) \in Seq(X) /\ Kept(r, S) \in Seq(X)
    BY KeptElements
  <2>6. Kept(s, S) \o Append(Kept(r, S), x) = Append(Kept(s, S) \o Kept(r, S), x)
    BY <2>5, ConcatAppend
  <2>7. Kept(s \o Append(r, x), S) = Kept(s, S) \o Kept(Append(r, x), S)
    BY <2>1, <2>2, <2>3, <2>4, <2>6
  <2>8. QED
    BY <2>2, <2>7
<1>3. Seq(X) \subseteq P
  <2> HIDE DEF P
  <2> QED
    BY <1>1, <1>2, ListInduction
<1>4. QED
  BY <1>3

LEMMA KeptAll ==
    ASSUME NEW X, NEW list \in Seq(X), NEW S, ToSet(list) \subseteq S
    PROVE  Kept(list, S) = list
<1> DEFINE P == {r \in Seq(X) : ToSet(r) \subseteq S => Kept(r, S) = r}
<1>1. <<>> \in P
  BY KeptEmpty
<1>2. ASSUME NEW r \in Seq(X), NEW x \in X, r \in P
      PROVE  Append(r, x) \in P
  <2>1. Append(r, x) \in Seq(X) /\ ToSet(Append(r, x)) = ToSet(r) \cup {x}
    BY Appended
  <2>2. Kept(Append(r, x), S) = IF x \in S THEN Append(Kept(r, S), x) ELSE Kept(r, S)
    BY KeptAppend
  <2>3. QED
    BY <1>2, <2>1, <2>2
<1>3. Seq(X) \subseteq P
  <2> HIDE DEF P
  <2> QED
    BY <1>1, <1>2, ListInduction
<1>4. QED
  BY <1>3

\* What is kept of the latest is the end of what is kept of all.
LEMMA KeptLatest ==
    ASSUME NEW X, NEW list \in Seq(X), NEW S, NEW K \in Nat
    PROVE  Ends(Kept(Latest(list, K), S), Kept(list, S))
<1> DEFINE P == {r \in Seq(X) : \A k \in Nat : Ends(Kept(Latest(r, k), S), Kept(r, S))}
<1>1. <<>> \in P
  <2>1. ASSUME NEW k \in Nat
        PROVE  Ends(Kept(Latest(<<>>, k), S), Kept(<<>>, S))
    <3>1. Kept(Latest(<<>>, k), S) = <<>> /\ Kept(<<>>, S) = <<>>
      BY LatestEmpty, KeptEmpty
    <3>2. QED
      BY <3>1 DEF Ends
  <2>2. QED
    BY <2>1
<1>2. ASSUME NEW r \in Seq(X), NEW x \in X, r \in P
      PROVE  Append(r, x) \in P
  <2>1. Append(r, x) \in Seq(X)
    OBVIOUS
  <2>2. Kept(Append(r, x), S) \in Seq(X) /\ Kept(r, S) \in Seq(X)
    BY <2>1, KeptElements
  <2>3. ASSUME NEW k \in Nat
        PROVE  Ends(Kept(Latest(Append(r, x), k), S), Kept(Append(r, x), S))
    <3>1. CASE k = 0
      <4>1. Kept(Latest(Append(r, x), k), S) = <<>>
        BY <2>1, <3>1, LatestNone, KeptEmpty
      <4>2. QED
        BY <2>2, <4>1 DEF Ends
    <3>2. CASE k # 0
      <4> DEFINE old == Latest(r, k - 1)
      <4>1. k - 1 \in Nat /\ (k - 1) + 1 = k
        BY <3>2
      <4>2. old \in Seq(X)
        BY <4>1, LatestOnes
      <4>3. Latest(Append(r, x), (k - 1) + 1) = Append(old, x)
        BY <4>1, LatestGrows
      <4>4. Ends(Kept(old, S), Kept(r, S))
        BY <1>2, <4>1
      <4> HIDE DEF old
      <4>5. Kept(old, S) \in Seq(X)
        BY <4>2, KeptElements
      <4>6. Kept(Append(old, x), S) = IF x \in S THEN Append(Kept(old, S), x) ELSE Kept(old, S)
        BY <4>2, KeptAppend
      <4>7. Kept(Append(r, x), S) = IF x \in S THEN Append(Kept(r, S), x) ELSE Kept(r, S)
        BY KeptAppend
      <4>8. Ends(Append(Kept(old, S), x), Append(Kept(r, S), x))
        BY <2>2, <4>4, <4>5, EndsAppend
      <4>9. QED
        BY <4>1, <4>3, <4>4, <4>6, <4>7, <4>8
    <3>3. QED
      BY <3>1, <3>2
  <2>4. QED
    BY <2>1, <2>3
<1>3. Seq(X) \subseteq P
  <2> HIDE DEF P
  <2> QED
    BY <1>1, <1>2, ListInduction
<1>4. QED
  BY <1>3

=============================================================================
