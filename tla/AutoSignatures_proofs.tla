----------------------- MODULE AutoSignatures_proofs -----------------------
(***************************************************************************)
(* What the generated signatures guarantee for all patterns, pages and      *)
(* numbers of analyses, reviews, failing saves and restarts.                *)
(***************************************************************************)
EXTENDS AutoSignatures, WellFoundedInduction, TLAPS

-----------------------------------------------------------------------------
(* Induction, over a set of numbers: the least number outside it. *)

LEMMA Induction ==
    ASSUME NEW S, 0 \in S, \A n \in Nat : n \in S => n + 1 \in S
    PROVE  Nat \subseteq S
<1> SUFFICES ASSUME Nat \ S # {} PROVE FALSE
  OBVIOUS
<1>1. PICK x \in Nat \ S : \A y \in Nat \ S : <<y, x>> \notin OpToRel(<, Nat)
  BY NatLessThanWellFounded, WFMin
<1>2. x - 1 \in Nat
  OBVIOUS
<1>3. <<x - 1, x>> \in OpToRel(<, Nat)
  BY <1>2 DEF OpToRel
<1>4. x - 1 \notin S
  <2>1. (x - 1) + 1 = x
    OBVIOUS
  <2>2. QED
    BY <1>1, <1>2, <2>1
<1>5. QED
  BY <1>1, <1>2, <1>3, <1>4

-----------------------------------------------------------------------------
(* Lists of rules. *)

Distinct(list) == \A i, j \in DOMAIN list : list[i].pattern = list[j].pattern => i = j

\* What may be added to a list of rules: others, at its end.
Continues(list, new) ==
    /\ new \in Seq(Rule) /\ Distinct(new)
    /\ Len(list) <= Len(new)
    /\ \A i \in 1..Len(list) : new[i] = list[i]

LEMMA WithCandidateContinues ==
    ASSUME NEW list \in Seq(Rule), NEW acc, Continues(list, acc), NEW p \in Patterns
    PROVE  Continues(list, WithCandidate(acc, p))
<1> USE DEF Continues
<1>1. CASE Exists(acc, p)
  BY <1>1 DEF WithCandidate
<1>2. CASE ~Exists(acc, p)
  <2>1. WithCandidate(acc, p) = Append(acc, Candidate(p))
    BY <1>2 DEF WithCandidate
  <2>2. Candidate(p) \in Rule /\ Candidate(p).pattern = p
    BY DEF Candidate, Rule, Statuses
  <2>3. /\ Append(acc, Candidate(p)) \in Seq(Rule)
        /\ Len(Append(acc, Candidate(p))) = Len(acc) + 1
        /\ \A i \in 1..Len(acc) : Append(acc, Candidate(p))[i] = acc[i]
        /\ Append(acc, Candidate(p))[Len(acc) + 1] = Candidate(p)
    BY <2>2
  <2>4. \A i \in 1..Len(acc) : acc[i].pattern # p
    BY <1>2 DEF Exists
  <2>5. Distinct(Append(acc, Candidate(p)))
    BY <2>2, <2>3, <2>4 DEF Distinct
  <2>6. QED
    BY <2>1, <2>3, <2>5
<1>3. QED
  BY <1>1, <1>2

\* g is the list after each of the first n candidates.
Grows(g, list, found, n) ==
    g = [k \in 0..n |-> IF k = 0 THEN list ELSE WithCandidate(g[k - 1], found[k])]

LEMMA GrowthExists ==
    ASSUME NEW list, NEW found, NEW n \in Nat
    PROVE  \E g : Grows(g, list, found, n)
<1> DEFINE S == {m \in Nat : \E g : Grows(g, list, found, m)}
<1>1. 0 \in S
  <2>1. Grows([k \in 0..0 |-> list], list, found, 0)
    BY DEF Grows
  <2>2. QED
    BY <2>1
<1>2. ASSUME NEW m \in Nat, m \in S
      PROVE  m + 1 \in S
  <2>1. PICK g : Grows(g, list, found, m)
    BY <1>2
  <2> DEFINE h == [k \in 0..m + 1 |-> IF k = m + 1 THEN WithCandidate(g[m], found[m + 1]) ELSE g[k]]
  <2>2. \A k \in 0..m + 1 : h[k] = IF k = 0 THEN list ELSE WithCandidate(h[k - 1], found[k])
    <3> SUFFICES ASSUME NEW k \in 0..m + 1
                 PROVE  h[k] = IF k = 0 THEN list ELSE WithCandidate(h[k - 1], found[k])
      OBVIOUS
    <3>1. CASE k = m + 1
      <4>1. m \in 0..m + 1 /\ m # m + 1 /\ k - 1 = m /\ k # 0
        BY <3>1
      <4>2. h[m] = g[m] /\ h[k] = WithCandidate(g[m], found[k])
        BY <3>1, <4>1
      <4>3. QED
        BY <4>1, <4>2
    <3>2. CASE k # m + 1 /\ k # 0
      <4>1. k \in 0..m /\ k - 1 \in 0..m + 1 /\ k - 1 # m + 1
        BY <3>2
      <4>2. h[k] = g[k] /\ h[k - 1] = g[k - 1]
        BY <3>2, <4>1
      <4>3. g[k] = WithCandidate(g[k - 1], found[k])
        BY <2>1, <3>2, <4>1 DEF Grows
      <4>4. QED
        BY <3>2, <4>2, <4>3
    <3>3. CASE k = 0
      <4>1. 0 \in 0..m /\ 0 # m + 1
        OBVIOUS
      <4>2. h[0] = g[0] /\ g[0] = list
        BY <2>1, <3>3, <4>1 DEF Grows
      <4>3. QED
        BY <3>3, <4>2
    <3>4. QED
      BY <3>1, <3>2, <3>3
  <2>3. h = [k \in 0..m + 1 |-> h[k]]
    OBVIOUS
  <2>4. Grows(h, list, found, m + 1)
    BY <2>2, <2>3 DEF Grows
  <2>5. QED
    BY <2>4
<1>3. Nat \subseteq S
  <2> HIDE DEF S
  <2> QED
    BY <1>1, <1>2, Induction
<1>4. QED
  BY <1>3

LEMMA ExtendedContinues ==
    ASSUME NEW list \in Seq(Rule), Distinct(list), NEW found \in Seq(Patterns)
    PROVE  Continues(list, Extended(list, found))
<1> DEFINE N == Len(found)
           grown == CHOOSE g : Grows(g, list, found, N)
<1>1. N \in Nat /\ \A k \in 1..N : found[k] \in Patterns
  OBVIOUS
<1>2. Extended(list, found) = grown[N]
  BY DEF Extended, Grows
<1>3. Grows(grown, list, found, N)
  BY <1>1, GrowthExists
<1> HIDE DEF grown, N
<1>4. /\ grown[0] = list
      /\ \A k \in 1..N : grown[k] = WithCandidate(grown[k - 1], found[k])
  <2>1. \A k \in 0..N : grown[k] = IF k = 0 THEN list ELSE WithCandidate(grown[k - 1], found[k])
    BY <1>3 DEF Grows
  <2>2. 0 \in 0..N /\ \A k \in 1..N : k \in 0..N /\ k # 0
    BY <1>1
  <2>3. QED
    BY <2>1, <2>2
<1> DEFINE S == {m \in Nat : m <= N => Continues(list, grown[m])}
<1>5. 0 \in S
  BY <1>4 DEF Continues
<1>6. ASSUME NEW m \in Nat, m \in S
      PROVE  m + 1 \in S
  <2> SUFFICES ASSUME m + 1 <= N
               PROVE  Continues(list, grown[m + 1])
    OBVIOUS
  <2>1. m + 1 \in 1..N /\ (m + 1) - 1 = m /\ m <= N
    BY <1>1
  <2>2. grown[m + 1] = WithCandidate(grown[m], found[m + 1]) /\ found[m + 1] \in Patterns
    BY <1>1, <1>4, <2>1
  <2>3. Continues(list, grown[m])
    BY <1>6, <2>1
  <2>4. QED
    BY <2>2, <2>3, WithCandidateContinues
<1>7. Nat \subseteq S
  <2> HIDE DEF S
  <2> QED
    BY <1>5, <1>6, Induction
<1>8. N <= N
  BY <1>1
<1>9. QED
  BY <1>1, <1>2, <1>7, <1>8

\* What a concatenation holds.
LEMMA Concat ==
    ASSUME NEW S, NEW s \in Seq(S), NEW t \in Seq(S)
    PROVE  /\ s \o t \in Seq(S) /\ Len(s \o t) = Len(s) + Len(t)
           /\ \A i \in 1..Len(s) : (s \o t)[i] = s[i]
           /\ \A i \in Len(s) + 1..Len(s) + Len(t) : (s \o t)[i] = t[i - Len(s)]
OBVIOUS

LEMMA RemovedRules ==
    ASSUME NEW list \in Seq(Rule), NEW i \in DOMAIN list
    PROVE  /\ RemoveAt(list, i) \in Seq(Rule)
           /\ Len(RemoveAt(list, i)) = Len(list) - 1
           /\ \A j \in 1..i - 1 : RemoveAt(list, i)[j] = list[j]
           /\ \A j \in i..Len(list) - 1 : RemoveAt(list, i)[j] = list[j + 1]
           /\ \A j \in DOMAIN RemoveAt(list, i) :
                 LET k == IF j < i THEN j ELSE j + 1
                 IN  k \in DOMAIN list /\ RemoveAt(list, i)[j] = list[k]
<1>1. i \in 1..Len(list) /\ Len(list) \in Nat
  OBVIOUS
<1> DEFINE front == SubSeq(list, 1, i - 1)
           back == SubSeq(list, i + 1, Len(list))
<1>2. /\ front \in Seq(Rule) /\ Len(front) = i - 1
      /\ back \in Seq(Rule) /\ Len(back) = Len(list) - i
      /\ \A j \in 1..i - 1 : front[j] = list[j]
      /\ \A j \in 1..Len(list) - i : back[j] = list[i + j]
  BY <1>1
<1>3. /\ RemoveAt(list, i) \in Seq(Rule)
      /\ Len(RemoveAt(list, i)) = Len(list) - 1
      /\ \A j \in 1..i - 1 : RemoveAt(list, i)[j] = list[j]
      /\ \A j \in i..Len(list) - 1 : RemoveAt(list, i)[j] = list[j + 1]
  <2>1. RemoveAt(list, i) = front \o back
    BY DEF RemoveAt
  <2> HIDE DEF front, back
  <2>2. /\ front \o back \in Seq(Rule) /\ Len(front \o back) = Len(list) - 1
        /\ \A j \in 1..i - 1 : (front \o back)[j] = front[j]
        /\ \A j \in i..Len(list) - 1 : (front \o back)[j] = back[j - (i - 1)]
    <3> DEFINE m == Len(front)
               n == Len(back)
    <3>1. /\ m \in Nat /\ n \in Nat /\ m = i - 1 /\ m + n = Len(list) - 1
          /\ Len(list) \in Nat /\ i \in Nat
      BY <1>1, <1>2
    <3>2. /\ front \o back \in Seq(Rule) /\ Len(front \o back) = m + n
          /\ \A j \in 1..m : (front \o back)[j] = front[j]
          /\ \A j \in m + 1..m + n : (front \o back)[j] = back[j - m]
      BY <1>2, Concat
    <3> HIDE DEF m, n
    <3>3. \A j \in i..Len(list) - 1 : j \in m + 1..m + n /\ j - m = j - (i - 1)
      BY <3>1
    <3>4. QED
      BY <3>1, <3>2, <3>3
  <2>3. \A j \in i..Len(list) - 1 : j - (i - 1) \in 1..Len(list) - i /\ i + (j - (i - 1)) = j + 1
    BY <1>1
  <2>4. \A j \in i..Len(list) - 1 : (front \o back)[j] = list[j + 1]
    BY <1>2, <2>2, <2>3
  <2>5. QED
    BY <1>2, <2>1, <2>2, <2>4
<1>4. QED
  BY <1>1, <1>3

LEMMA RemovedLeavesOthers ==
    ASSUME NEW list \in Seq(Rule), NEW i \in DOMAIN list, NEW j \in DOMAIN list, j # i
    PROVE  \E k \in DOMAIN RemoveAt(list, i) : RemoveAt(list, i)[k] = list[j]
<1>1. /\ i \in 1..Len(list) /\ j \in 1..Len(list) /\ Len(list) \in Nat
      /\ DOMAIN RemoveAt(list, i) = 1..Len(list) - 1
  BY RemovedRules
<1>2. CASE j < i
  <2>1. j \in 1..Len(list) - 1 /\ j \in 1..i - 1
    BY <1>1, <1>2
  <2>2. QED
    BY <1>1, <2>1, RemovedRules
<1>3. CASE j > i
  <2>1. j - 1 \in 1..Len(list) - 1 /\ j - 1 \in i..Len(list) - 1 /\ (j - 1) + 1 = j
    BY <1>1, <1>3
  <2>2. QED
    BY <1>1, <2>1, RemovedRules
<1>4. QED
  BY <1>1, <1>2, <1>3

LEMMA RemovedKeepsDistinct ==
    ASSUME NEW list \in Seq(Rule), Distinct(list), NEW i \in DOMAIN list
    PROVE  Distinct(RemoveAt(list, i))
<1> SUFFICES ASSUME NEW j \in DOMAIN RemoveAt(list, i), NEW k \in DOMAIN RemoveAt(list, i),
                    RemoveAt(list, i)[j].pattern = RemoveAt(list, i)[k].pattern
             PROVE  j = k
  BY DEF Distinct
<1> DEFINE Old(x) == IF x < i THEN x ELSE x + 1
<1>1. Old(j) \in DOMAIN list /\ Old(k) \in DOMAIN list
      /\ list[Old(j)].pattern = list[Old(k)].pattern
  BY RemovedRules
<1>2. Old(j) = Old(k)
  BY <1>1 DEF Distinct
<1>3. j \in Nat /\ k \in Nat /\ i \in Nat
  <2>1. RemoveAt(list, i) \in Seq(Rule)
    BY RemovedRules
  <2>2. QED
    BY <2>1
<1>4. QED
  BY <1>2, <1>3

LEMMA ReviewedRules ==
    ASSUME NEW list \in Seq(Rule), Distinct(list), NEW i \in DOMAIN list, NEW verdict \in Statuses
    PROVE  LET new == [list EXCEPT ![i].status = verdict]
           IN  /\ new \in Seq(Rule) /\ Distinct(new)
               /\ DOMAIN new = DOMAIN list
               /\ \A j \in DOMAIN list : /\ new[j].pattern = list[j].pattern
                                         /\ new[j].status = IF j = i THEN verdict ELSE list[j].status
<1> DEFINE new == [list EXCEPT ![i].status = verdict]
<1>1. \A j \in DOMAIN list : list[j] \in [pattern : Patterns, status : Statuses]
  <2>1. \A j \in DOMAIN list : list[j] \in Rule
    OBVIOUS
  <2>2. QED
    BY <2>1 DEF Rule
<1>2. DOMAIN new = DOMAIN list /\ Len(list) \in Nat /\ DOMAIN list = 1..Len(list)
  OBVIOUS
<1>3. \A j \in DOMAIN list : /\ new[j] \in Rule
                             /\ new[j].pattern = list[j].pattern
                             /\ new[j].status = IF j = i THEN verdict ELSE list[j].status
  BY <1>1 DEF Rule
<1>4. new \in Seq(Rule)
  BY <1>1, <1>3 DEF Rule
<1>5. Distinct(new)
  BY <1>2, <1>3 DEF Distinct
<1>6. QED
  BY <1>2, <1>3, <1>4, <1>5

-----------------------------------------------------------------------------
(* The rules, the file and the pages. *)

\* What can be read from the file is a list like any other.
FileIsGood == Loaded(file) \in Seq(Rule) /\ Distinct(Loaded(file))

\* A process has the rules as the last change left them; none runs, none are there.
MemoryIsKept == rules = IF running THEN kept ELSE <<>>

FileIsKept == ~cut => Loaded(file) = kept

ReviewsAreKept ==
    ~lost => \A p \in reviewed : \E i \in DOMAIN kept :
                kept[i].pattern = p /\ kept[i].status # "pending_review"

PagesAreKept ==
    \A page \in valid : \A i \in DOMAIN shown[page] :
        i \in DOMAIN kept /\ kept[i].pattern = shown[page][i].pattern

SignaturesInv ==
    /\ TypeOK
    /\ Distinct(kept)
    /\ FileIsGood
    /\ MemoryIsKept
    /\ FileIsKept
    /\ ReviewsAreKept
    /\ PagesAreKept

LEMMA Files ==
    /\ Loaded(Missing) = <<>> /\ Loaded(Torn) = <<>>
    /\ \A new : Loaded(<<"whole", new>>) = new
    /\ \A new : <<"whole", new>> \notin {Missing, Torn}
<1>1. \A new : <<"whole", new>> \notin {Missing, Torn}
  BY DEF Missing, Torn
<1>2. QED
  BY <1>1 DEF Loaded

LEMMA EmptyList == <<>> \in Seq(Rule) /\ Distinct(<<>>)
BY DEF Distinct

\* A change keeps order, if the new list is good, keeps the reviews it should, and fits
\* the pages it spares.
LEMMA ChangeKeepsInv ==
    ASSUME SignaturesInv, NEW new \in Seq(Rule), Distinct(new),
           NEW nowReviewed \in SUBSET Patterns, NEW pages \in SUBSET valid,
           ChangeTo(new, nowReviewed, pages),
           ~lost => \A p \in nowReviewed : \E i \in DOMAIN new :
               new[i].pattern = p /\ new[i].status # "pending_review",
           \A page \in pages : \A i \in DOMAIN shown[page] :
               i \in DOMAIN new /\ new[i].pattern = shown[page][i].pattern
    PROVE  SignaturesInv'
<1> USE DEF SignaturesInv
<1>1. shown' = shown /\ lost' = lost /\ changes' \in 0..MaxChanges /\ mishaps' \in 0..MaxMishaps
  <2>1. shown' = shown /\ lost' = lost /\ changes < MaxChanges /\ changes' = changes + 1
    BY DEF ChangeTo
  <2>2. mishaps' = mishaps \/ (mishaps < MaxMishaps /\ mishaps' = mishaps + 1)
    BY DEF ChangeTo
  <2>3. QED
    BY <2>1, <2>2, SignaturesAssumption DEF TypeOK
<1>2. \/ /\ running' = running /\ running
         /\ rules' = new /\ kept' = new /\ reviewed' = nowReviewed /\ valid' = pages
         /\ \/ file' = <<"whole", new>>
            \/ file' \in {file, Torn} /\ cut' = TRUE
      \/ /\ running' = FALSE
         /\ rules' = <<>> /\ kept' = kept /\ reviewed' = reviewed /\ valid' = valid
         /\ file' = Torn /\ cut' = TRUE
  BY DEF ChangeTo
<1>3. kept' \in Seq(Rule) /\ Distinct(kept')
  BY <1>2 DEF TypeOK
<1>4. MemoryIsKept' /\ rules' \in Seq(Rule)
  BY <1>2, <1>3, EmptyList DEF MemoryIsKept
<1>5. \/ file' \in {Missing, Torn}
      \/ Len(file') = 2 /\ file'[1] = "whole" /\ file'[2] \in Seq(Rule)
  <2>1. Len(<<"whole", new>>) = 2 /\ <<"whole", new>>[1] = "whole" /\ <<"whole", new>>[2] = new
    OBVIOUS
  <2>2. QED
    BY <1>2, <2>1 DEF TypeOK
<1>6. TypeOK'
  <2>1. running' \in BOOLEAN /\ cut' \in BOOLEAN /\ lost' \in BOOLEAN
    <3>1. running' = TRUE \/ running' = FALSE
      BY <1>1, Zenon DEF ChangeTo, TypeOK
    <3>2. cut' = TRUE \/ cut' = FALSE
      BY Zenon DEF ChangeTo
    <3>3. lost' \in BOOLEAN
      BY <1>1 DEF TypeOK
    <3>4. QED
      BY <3>1, <3>2, <3>3
  <2>2. shown' \in [Pages -> Seq(Rule)] /\ valid' \subseteq Pages /\ reviewed' \subseteq Patterns
    BY <1>1, <1>2 DEF TypeOK
  <2>3. QED
    BY <1>1, <1>3, <1>4, <1>5, <2>1, <2>2 DEF TypeOK
<1>7. FileIsGood'
  BY <1>2, Files, EmptyList DEF FileIsGood
<1>8. FileIsKept'
  BY <1>2, Files DEF FileIsKept
<1>9. ReviewsAreKept'
  BY <1>1, <1>2 DEF ReviewsAreKept
<1>10. PagesAreKept'
  BY <1>1, <1>2 DEF PagesAreKept
<1>11. QED
  BY <1>3, <1>4, <1>6, <1>7, <1>8, <1>9, <1>10

\* What each action does.
LEMMA AnalyzeKeepsInv ==
    ASSUME SignaturesInv, NEW found \in Founds, Analyze(found)
    PROVE  SignaturesInv'
<1>1. found \in Seq(Patterns)
  BY DEF Founds
<1>2. rules = kept /\ rules \in Seq(Rule) /\ Distinct(rules)
  BY DEF SignaturesInv, TypeOK, MemoryIsKept, Analyze, ChangeTo
<1> DEFINE new == Extended(rules, found)
<1>3. Continues(rules, new)
  BY <1>1, <1>2, ExtendedContinues
<1>4. ChangeTo(new, reviewed, valid)
  BY DEF Analyze
<1> HIDE DEF new
<1>5. \A i \in DOMAIN rules : i \in DOMAIN new /\ new[i] = rules[i]
  BY <1>2, <1>3 DEF Continues
<1>6. ~lost => \A p \in reviewed : \E i \in DOMAIN new :
          new[i].pattern = p /\ new[i].status # "pending_review"
  BY <1>2, <1>5 DEF SignaturesInv, ReviewsAreKept
<1>7. \A page \in valid : \A i \in DOMAIN shown[page] :
          i \in DOMAIN new /\ new[i].pattern = shown[page][i].pattern
  BY <1>2, <1>5 DEF SignaturesInv, PagesAreKept
<1>8. reviewed \subseteq Patterns
  BY DEF SignaturesInv, TypeOK
<1>9. QED
  BY <1>3, <1>4, <1>6, <1>7, <1>8, ChangeKeepsInv DEF Continues

LEMMA ReviewKeepsInv ==
    ASSUME SignaturesInv, NEW page \in Pages, NEW i, NEW verdict \in {"approved", "rejected"},
           Review(page, i, verdict)
    PROVE  SignaturesInv'
<1> DEFINE new == [rules EXCEPT ![i].status = verdict]
           nowReviewed == reviewed \cup {rules[i].pattern}
<1>1. /\ rules = kept /\ rules \in Seq(Rule) /\ Distinct(rules) /\ i \in DOMAIN rules
      /\ verdict \in Statuses /\ verdict # "pending_review"
  BY DEF SignaturesInv, TypeOK, MemoryIsKept, Review, ChangeTo, Statuses
<1>2. /\ new \in Seq(Rule) /\ Distinct(new) /\ DOMAIN new = DOMAIN rules
      /\ \A j \in DOMAIN rules : /\ new[j].pattern = rules[j].pattern
                                /\ new[j].status = IF j = i THEN verdict ELSE rules[j].status
  BY <1>1, ReviewedRules
<1>3. ChangeTo(new, nowReviewed, valid)
  BY DEF Review
<1>4. nowReviewed \subseteq Patterns
  <2>1. rules[i] \in Rule
    BY <1>1
  <2>2. QED
    BY <2>1 DEF SignaturesInv, TypeOK, Rule
<1> HIDE DEF new
<1>5. ~lost => \A p \in nowReviewed : \E j \in DOMAIN new :
          new[j].pattern = p /\ new[j].status # "pending_review"
  BY <1>1, <1>2 DEF SignaturesInv, ReviewsAreKept
<1>6. \A p \in valid : \A j \in DOMAIN shown[p] :
          j \in DOMAIN new /\ new[j].pattern = shown[p][j].pattern
  BY <1>1, <1>2 DEF SignaturesInv, PagesAreKept
<1> HIDE DEF nowReviewed
<1>7. valid \in SUBSET valid /\ nowReviewed \in SUBSET Patterns /\ new \in Seq(Rule) /\ Distinct(new)
  BY <1>2, <1>4
<1>8. QED
  BY <1>3, <1>5, <1>6, <1>7, ChangeKeepsInv

LEMMA DeleteKeepsInv ==
    ASSUME SignaturesInv, NEW page \in Pages, NEW i, Delete(page, i)
    PROVE  SignaturesInv'
<1> DEFINE new == RemoveAt(rules, i)
           nowReviewed == reviewed \ {rules[i].pattern}
<1>1. rules = kept /\ rules \in Seq(Rule) /\ Distinct(rules) /\ i \in DOMAIN rules
  BY DEF SignaturesInv, TypeOK, MemoryIsKept, Delete, ChangeTo
<1>2. new \in Seq(Rule) /\ Distinct(new)
  BY <1>1, RemovedRules, RemovedKeepsDistinct
<1>3. ChangeTo(new, nowReviewed, {})
  BY DEF Delete
<1>4. nowReviewed \subseteq Patterns
  BY DEF SignaturesInv, TypeOK
\* Every other rule is still there.
<1>5. \A j \in DOMAIN rules : j # i => \E k \in DOMAIN new : new[k] = rules[j]
  BY <1>1, RemovedLeavesOthers
<1> HIDE DEF new
<1>6. ~lost => \A p \in nowReviewed : \E j \in DOMAIN new :
          new[j].pattern = p /\ new[j].status # "pending_review"
  <2> SUFFICES ASSUME ~lost, NEW p \in nowReviewed
               PROVE  \E j \in DOMAIN new : new[j].pattern = p /\ new[j].status # "pending_review"
    OBVIOUS
  <2>1. PICK j \in DOMAIN rules : rules[j].pattern = p /\ rules[j].status # "pending_review"
    BY <1>1 DEF SignaturesInv, ReviewsAreKept
  <2>2. j # i
    BY <2>1
  <2>3. QED
    BY <1>5, <2>1, <2>2
<1> HIDE DEF nowReviewed
<1>7. QED
  BY <1>2, <1>3, <1>4, <1>6, ChangeKeepsInv

LEMMA LoadPageKeepsInv ==
    ASSUME SignaturesInv, NEW page \in Pages, LoadPage(page)
    PROVE  SignaturesInv'
<1> USE DEF SignaturesInv, LoadPage
<1>1. shown' \in [Pages -> Seq(Rule)] /\ valid' \subseteq Pages
  BY DEF TypeOK
<1>2. TypeOK'
  BY <1>1 DEF TypeOK
<1>3. Distinct(kept') /\ FileIsGood' /\ MemoryIsKept' /\ FileIsKept' /\ ReviewsAreKept'
  BY DEF Distinct, FileIsGood, MemoryIsKept, FileIsKept, ReviewsAreKept
<1>4. PagesAreKept'
  BY DEF TypeOK, MemoryIsKept, PagesAreKept
<1>5. QED
  BY <1>2, <1>3, <1>4

LEMMA StopKeepsInv ==
    ASSUME SignaturesInv, Stop
    PROVE  SignaturesInv'
<1> USE DEF SignaturesInv, Stop
<1>1. mishaps' \in 0..MaxMishaps /\ rules' \in Seq(Rule)
  BY SignaturesAssumption, EmptyList DEF TypeOK
<1>2. TypeOK'
  BY <1>1 DEF TypeOK
<1>3. Distinct(kept') /\ FileIsGood' /\ MemoryIsKept' /\ FileIsKept' /\ ReviewsAreKept' /\ PagesAreKept'
  BY DEF Distinct, FileIsGood, MemoryIsKept, FileIsKept, ReviewsAreKept, PagesAreKept
<1>4. QED
  BY <1>2, <1>3

LEMMA StartKeepsInv ==
    ASSUME SignaturesInv, Start
    PROVE  SignaturesInv'
<1> USE DEF SignaturesInv, Start
<1>1. Loaded(file) \in Seq(Rule) /\ Distinct(Loaded(file))
  BY DEF FileIsGood
<1>2. kept' = Loaded(file) /\ rules' = kept'
  BY DEF FileIsKept
<1>3. \/ lost' = TRUE /\ valid' = {}
      \/ kept' = kept /\ lost' = lost /\ valid' = valid
  BY DEF Start
<1>4. TypeOK'
  <2>1. lost' \in BOOLEAN /\ valid' \subseteq Pages
    BY <1>3 DEF TypeOK
  <2>2. running' \in BOOLEAN /\ cut' \in BOOLEAN
    OBVIOUS
  <2>3. rules' \in Seq(Rule) /\ kept' \in Seq(Rule)
    BY <1>1, <1>2
  <2>4. QED
    BY <2>1, <2>2, <2>3 DEF TypeOK
<1>5. Distinct(kept') /\ FileIsGood' /\ MemoryIsKept' /\ FileIsKept'
  BY <1>1, <1>2 DEF FileIsGood, MemoryIsKept, FileIsKept
<1>6. ReviewsAreKept' /\ PagesAreKept'
  BY <1>3 DEF ReviewsAreKept, PagesAreKept
<1>7. QED
  BY <1>4, <1>5, <1>6

LEMMA SignaturesAlways ==
    ASSUME SignaturesInv, [Next]_vars
    PROVE  SignaturesInv'
<1>1. ASSUME NEW found \in Founds, Analyze(found)
      PROVE  SignaturesInv'
  BY <1>1, AnalyzeKeepsInv
<1>2. ASSUME NEW page \in Pages, LoadPage(page)
      PROVE  SignaturesInv'
  BY <1>2, LoadPageKeepsInv
<1>3. ASSUME NEW page \in Pages, NEW i \in Indices, NEW verdict \in {"approved", "rejected"},
             Review(page, i, verdict)
      PROVE  SignaturesInv'
  BY <1>3, ReviewKeepsInv
<1>4. ASSUME NEW page \in Pages, NEW i \in Indices, Delete(page, i)
      PROVE  SignaturesInv'
  BY <1>4, DeleteKeepsInv
<1>5. CASE Stop
  BY <1>5, StopKeepsInv
<1>6. CASE Start
  BY <1>6, StartKeepsInv
<1>7. CASE UNCHANGED vars
  BY <1>7 DEF vars, SignaturesInv, TypeOK, Distinct, FileIsGood, MemoryIsKept, FileIsKept,
     ReviewsAreKept, PagesAreKept
<1>8. QED
  BY <1>1, <1>2, <1>3, <1>4, <1>5, <1>6, <1>7 DEF Next, ClickMisses

LEMMA InitSignatures == Init => SignaturesInv
<1> SUFFICES ASSUME Init PROVE SignaturesInv
  OBVIOUS
<1>1. TypeOK
  <2>1. 0 \in 0..MaxChanges /\ 0 \in 0..MaxMishaps
    BY SignaturesAssumption
  <2>2. running \in BOOLEAN /\ cut \in BOOLEAN /\ lost \in BOOLEAN
    BY Zenon DEF Init
  <2>3. QED
    BY <2>1, <2>2, EmptyList DEF Init, TypeOK
<1>2. Distinct(kept) /\ FileIsGood /\ MemoryIsKept /\ FileIsKept
  BY Files, EmptyList DEF Init, FileIsGood, MemoryIsKept, FileIsKept
<1>3. ReviewsAreKept /\ PagesAreKept
  BY DEF Init, ReviewsAreKept, PagesAreKept
<1>4. QED
  BY <1>1, <1>2, <1>3 DEF SignaturesInv

LEMMA SignaturesInvariant == Spec => []SignaturesInv
BY InitSignatures, SignaturesAlways, PTL DEF Spec

-----------------------------------------------------------------------------
(* The theorems. *)

\* Rules, pages, file and histories are lists of rules with the statuses the page
\* has buttons for, whatever was torn and read again.
THEOREM SignaturesTypeCorrect == Spec => []TypeOK
<1>1. SignaturesInv => TypeOK
  BY DEF SignaturesInv
<1>2. QED
  BY <1>1, SignaturesInvariant, PTL

\* A pattern has one rule, over any number of analyses (_pattern_exists).
THEOREM OneRulePerPattern == Spec => []NoDuplicateRules
<1>1. SignaturesInv => NoDuplicateRules
  BY EmptyList DEF SignaturesInv, MemoryIsKept, NoDuplicateRules, Distinct
<1>2. QED
  BY <1>1, SignaturesInvariant, PTL

\* The file holds the rules as the last change left them and a process that starts
\* has exactly these, unless the last save raised or the process died in it and no
\* save has worked since (_save_rules, _load_rules).
THEOREM RulesComeBack == Spec => []RulesAreSaved
<1>1. SignaturesInv => RulesAreSaved
  BY DEF SignaturesInv, MemoryIsKept, FileIsKept, RulesAreSaved
<1>2. QED
  BY <1>1, SignaturesInvariant, PTL

\* While no rule goes away, an index on a page names the rule it shows there.
THEOREM IndicesNameRules == Spec => []IndicesStayGood
<1>1. SignaturesInv => IndicesStayGood
  BY DEF SignaturesInv, MemoryIsKept, PagesAreKept, IndicesStayGood
<1>2. QED
  BY <1>1, SignaturesInvariant, PTL

\* A reviewed pattern keeps its rule and its verdict until the rule is deleted,
\* unless a process has started after a save that was cut short and found other
\* rules than there were.
THEOREM ReviewsAreFinal == Spec => []ReviewSticks
<1>1. SignaturesInv => ReviewSticks
  BY DEF SignaturesInv, MemoryIsKept, ReviewsAreKept, ReviewSticks
<1>2. QED
  BY <1>1, SignaturesInvariant, PTL

=============================================================================
