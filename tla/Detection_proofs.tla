-------------------------- MODULE Detection_proofs --------------------------
(***************************************************************************)
(* What holds of the analysis for all clients, paths, windows, thresholds   *)
(* and strategies: the settings take effect, the votes decide the verdict,  *)
(* and what the trackers keep, trimmed as it is, gives the answer that the  *)
(* whole history would.                                                     *)
(***************************************************************************)
EXTENDS Detection, Lists_proofs

-----------------------------------------------------------------------------
(* The settings and the list of strategies. *)

SettingsInv ==
    /\ ConfigTypeOK
    /\ \E S : running = Kept(Order, S)
    /\ \A s \in ToSet(Order) :
        last_op[s] # "update" => (Runs(s) <=> IsEnabled(enabled, s))

LEMMA OrderType == Order \in Seq(ToSet(Order)) /\ Order \in Seq(Strategies)
<1>1. Order \in Seq(Strategies)
  BY DetectionAssumption
<1>2. \A i \in 1..Len(Order) : Order[i] \in ToSet(Order)
  BY <1>1, Elements
<1>3. Len(Order) \in Nat /\ Order = [i \in 1..Len(Order) |-> Order[i]]
  BY <1>1
<1>4. QED
  BY <1>1, <1>2, <1>3

\* A reload leaves the enabled strategies running, and no others.
LEMMA SetUpRuns ==
    ASSUME NEW section
    PROVE  /\ SetUp(section) \in Seq(ToSet(Order))
           /\ \E S : SetUp(section) = Kept(Order, S)
           /\ \A s \in ToSet(Order) : s \in ToSet(SetUp(section)) <=> IsEnabled(section, s)
<1> DEFINE S == {s \in DOMAIN section : section[s]}
<1>1. SetUp(section) = Kept(Order, S)
  BY DEF SetUp
<1>2. Kept(Order, S) \in Seq(ToSet(Order)) /\ ToSet(Kept(Order, S)) = ToSet(Order) \cap S
  BY OrderType, KeptElements
<1>3. QED
  BY <1>1, <1>2 DEF IsEnabled

LEMMA SettingsInit == ConfigInit => SettingsInv
<1> SUFFICES ASSUME ConfigInit PROVE SettingsInv
  OBVIOUS
<1>1. running = SetUp(enabled) /\ enabled = Defaults
  BY DEF ConfigInit
<1>2. enabled \in UNION {[S -> BOOLEAN] : S \in SUBSET ToSet(Order)}
  <2>1. enabled \in [DefaultStrategies -> BOOLEAN]
    BY <1>1 DEF Defaults
  <2>2. QED
    BY <2>1, ConfigAssumption
<1>3. off \subseteq UsedSwitches /\ adminOps \in 0..MaxAdminOps
  BY ConfigAssumption DEF ConfigInit
<1>4. last_op \in [ToSet(Order) -> {"none", "update", "reload", "toggle", "reset"}]
  BY DEF ConfigInit
<1>5. QED
  BY <1>1, <1>2, <1>3, <1>4, SetUpRuns DEF SettingsInv, ConfigTypeOK, Runs

\* One setting changed keeps the section a section.
LEMMA WithType ==
    ASSUME enabled \in UNION {[S -> BOOLEAN] : S \in SUBSET ToSet(Order)},
           NEW s \in ToSet(Order), NEW on \in BOOLEAN
    PROVE  /\ With(s, on) \in UNION {[S -> BOOLEAN] : S \in SUBSET ToSet(Order)}
           /\ \A t \in ToSet(Order) : t # s => (IsEnabled(With(s, on), t) <=> IsEnabled(enabled, t))
<1>1. PICK S \in SUBSET ToSet(Order) : enabled \in [S -> BOOLEAN]
  OBVIOUS
<1>2. DOMAIN enabled = S /\ \A t \in S : enabled[t] \in BOOLEAN
  BY <1>1
<1>3. With(s, on) \in [S \cup {s} -> BOOLEAN]
  BY <1>2 DEF With
<1>4. S \cup {s} \in SUBSET ToSet(Order)
  BY <1>1
<1>5. \A t \in ToSet(Order) : t # s => (IsEnabled(With(s, on), t) <=> IsEnabled(enabled, t))
  BY <1>2 DEF With, IsEnabled
<1>6. QED
  BY <1>3, <1>4, <1>5

LEMMA SettingsStep ==
    ASSUME SettingsInv, DetectionNext
    PROVE  SettingsInv'
<1>1. /\ enabled \in UNION {[S -> BOOLEAN] : S \in SUBSET ToSet(Order)}
      /\ off \subseteq UsedSwitches
      /\ running \in Seq(ToSet(Order))
      /\ last_op \in [ToSet(Order) -> {"none", "update", "reload", "toggle", "reset"}]
      /\ adminOps \in 0..MaxAdminOps
  BY DEF SettingsInv, ConfigTypeOK
<1>2. ASSUME NEW s \in ToSet(Order), NEW on \in BOOLEAN, UpdateConfig(s, on)
      PROVE  SettingsInv'
  <2>1. /\ enabled' = With(s, on) /\ last_op' = [last_op EXCEPT ![s] = "update"]
        /\ off' = off /\ running' = running
    BY <1>2 DEF UpdateConfig
  <2>2. adminOps' \in 0..MaxAdminOps
    BY <1>1, <1>2, ConfigAssumption DEF UpdateConfig, Administer
  <2>3. ConfigTypeOK'
    BY <1>1, <2>1, <2>2, WithType DEF ConfigTypeOK
  <2>4. \A t \in ToSet(Order) :
            last_op'[t] # "update" => (t \in ToSet(running') <=> IsEnabled(enabled', t))
    <3>1. last_op'[s] = "update" /\ \A t \in ToSet(Order) : t # s => last_op'[t] = last_op[t]
      BY <1>1, <2>1
    <3>2. \A t \in ToSet(Order) : t # s => (IsEnabled(enabled', t) <=> IsEnabled(enabled, t))
      BY <1>1, <2>1, WithType
    <3>3. QED
      BY <2>1, <3>1, <3>2 DEF SettingsInv, Runs
  <2>5. \E S : running' = Kept(Order, S)
    BY <2>1 DEF SettingsInv
  <2>6. QED
    BY <2>3, <2>4, <2>5 DEF SettingsInv, Runs
<1>3. ASSUME NEW check \in UsedSwitches, NEW on \in BOOLEAN, UpdateSwitch(check, on)
      PROVE  SettingsInv'
  <2>1. /\ enabled' = enabled /\ last_op' = last_op /\ running' = running
        /\ off' \subseteq UsedSwitches
    BY <1>1, <1>3 DEF UpdateSwitch
  <2>2. adminOps' \in 0..MaxAdminOps
    BY <1>1, <1>3, ConfigAssumption DEF UpdateSwitch, Administer
  <2>3. QED
    BY <1>1, <2>1, <2>2 DEF SettingsInv, ConfigTypeOK, Runs
<1>4. ASSUME NEW section, enabled' = section, running' = SetUp(section),
             section \in UNION {[S -> BOOLEAN] : S \in SUBSET ToSet(Order)},
             off' = off, Administer,
             NEW names, NEW op \in {"toggle", "reset"}, last_op' = Reloaded(names, op)
      PROVE  SettingsInv'
  <2>1. adminOps' \in 0..MaxAdminOps
    BY <1>1, <1>4, ConfigAssumption DEF Administer
  <2>2. last_op' \in [ToSet(Order) -> {"none", "update", "reload", "toggle", "reset"}]
    BY <1>1, <1>4 DEF Reloaded
  <2>3. QED
    BY <1>1, <1>4, <2>1, <2>2, SetUpRuns DEF SettingsInv, ConfigTypeOK, Runs
<1>5. ASSUME NEW s \in ToSet(Order), NEW on \in BOOLEAN, ToggleStrategy(s, on)
      PROVE  SettingsInv'
  <2> DEFINE names == IF s \in DOMAIN enabled THEN {s} ELSE {}
             section == IF s \in DOMAIN enabled THEN With(s, on) ELSE enabled
  <2>1. /\ enabled' = section /\ running' = SetUp(enabled') /\ off' = off /\ Administer
        /\ last_op' = Reloaded(names, "toggle")
    BY <1>5 DEF ToggleStrategy
  <2>2. section \in UNION {[S -> BOOLEAN] : S \in SUBSET ToSet(Order)}
    BY <1>1, WithType
  <2> HIDE DEF names, section
  <2>3. running' = SetUp(section)
    BY <2>1
  <2>4. QED
    BY <1>4, <2>1, <2>2, <2>3
<1>6. ASSUME ResetConfig
      PROVE  SettingsInv'
  <2>1. /\ enabled' = enabled /\ running' = SetUp(enabled) /\ off' = off /\ Administer
        /\ last_op' = Reloaded(ToSet(Order), "reset")
    BY <1>6 DEF ResetConfig
  <2>2. QED
    BY <1>1, <1>4, <2>1
<1>7. ASSUME configVars' = configVars
      PROVE  SettingsInv'
  <2>1. enabled' = enabled /\ off' = off /\ running' = running /\ last_op' = last_op /\ adminOps' = adminOps
    BY <1>7 DEF configVars
  <2>2. QED
    BY <2>1 DEF SettingsInv, ConfigTypeOK, Runs
<1>8. CASE Admin
  <2>1. \/ \E s \in ToSet(Order), on \in BOOLEAN : UpdateConfig(s, on) \/ ToggleStrategy(s, on)
        \/ \E check \in UsedSwitches, on \in BOOLEAN : UpdateSwitch(check, on)
        \/ ResetConfig
    BY <1>8 DEF Admin
  <2>2. QED
    BY <1>2, <1>3, <1>5, <1>6, <2>1
<1>9. CASE TimePasses
  BY <1>7, <1>9 DEF TimePasses
<1>10. ASSUME NEW ip \in IPs, NEW path \in Paths, Judge(ip, path)
       PROVE  SettingsInv'
  BY <1>7, <1>10 DEF Judge
<1>11. QED
  BY <1>8, <1>9, <1>10 DEF DetectionNext

\* Whatever is kept of the strategies, each is kept once.
LEMMA RunningOnce == SettingsInv => IsInjective(running)
<1> SUFFICES ASSUME SettingsInv PROVE IsInjective(running)
  OBVIOUS
<1>1. PICK S : running = Kept(Order, S)
  BY DEF SettingsInv
<1>2. QED
  BY <1>1, OrderType, ConfigAssumption, KeptInjective

\* So there are at most five of them.
LEMMA RunningFew ==
    ASSUME SettingsInv
    PROVE  /\ running \in Seq(Strategies) /\ Len(running) \in Nat /\ Len(running) <= 5
<1>1. running \in Seq(ToSet(Order))
  BY DEF SettingsInv, ConfigTypeOK
<1>2. Len(running) \in Nat /\ \A i \in 1..Len(running) : running[i] \in ToSet(Order)
  BY <1>1
<1>3. ToSet(Order) \subseteq Strategies
  BY OrderType, Elements
<1>4. running \in Seq(Strategies)
  BY <1>1, <1>2, <1>3
<1>5. IsFiniteSet(Strategies) /\ Cardinality(Strategies) <= 5
  <2>1. IsFiniteSet({}) /\ Cardinality({}) = 0
    BY FS_EmptySet
  <2> DEFINE A == {} \cup {"signature"}
             B == A \cup {"behavior"}
             C == B \cup {"header_validation"}
             D == C \cup {"zero_day"}
  <2>2. IsFiniteSet(A) /\ Cardinality(A) = 1
    BY <2>1, FS_AddElement
  <2>3. IsFiniteSet(B) /\ Cardinality(B) = 2
    BY <2>2, FS_AddElement
  <2>4. IsFiniteSet(C) /\ Cardinality(C) = 3
    BY <2>3, FS_AddElement
  <2>5. IsFiniteSet(D) /\ Cardinality(D) = 4
    BY <2>4, FS_AddElement
  <2>6. IsFiniteSet(D \cup {"ddos_protection"}) /\ Cardinality(D \cup {"ddos_protection"}) = 5
    BY <2>5, FS_AddElement
  <2>7. Strategies = D \cup {"ddos_protection"}
    BY DEF Strategies
  <2>8. QED
    BY <2>6, <2>7
<1>6. running \in Injection(1..Len(running), Strategies)
  <2>1. running \in [1..Len(running) -> Strategies]
    BY <1>4
  <2>2. \A a, b \in 1..Len(running) : running[a] = running[b] => a = b
    BY <2>1, RunningOnce DEF IsInjective
  <2>3. QED
    BY <2>1, <2>2 DEF Injection, IsInjective
<1>7. Cardinality(1..Len(running)) <= Cardinality(Strategies) /\ Cardinality(1..Len(running)) = Len(running)
  <2>1. Cardinality(1..Len(running)) <= Cardinality(Strategies)
    BY <1>5, <1>6, FS_Injection
  <2>2. Cardinality(1..Len(running)) = Len(running)
    <3>1. 1 \in Int /\ Len(running) \in Int
      BY <1>2
    <3>2. Cardinality(1..Len(running)) = IF 1 > Len(running) THEN 0 ELSE Len(running) - 1 + 1
      BY <3>1, FS_Interval
    <3>3. QED
      BY <1>2, <3>2
  <2>3. QED
    BY <2>1, <2>2
<1>8. Cardinality(Strategies) \in Nat
  BY <1>5, FS_CardinalityType
<1>9. QED
  BY <1>2, <1>4, <1>5, <1>7, <1>8

-----------------------------------------------------------------------------
(* The votes. *)

LEMMA MaxOf ==
    ASSUME NEW n \in Nat, NEW S \in SUBSET (0..n), S # {}
    PROVE  Max(S) \in S /\ \A x \in S : x <= Max(S)
<1> DEFINE Has(T) == \E x \in T : \A y \in T : x >= y
           P == {m \in Nat : \A T \in SUBSET (0..m) : T # {} => Has(T)}
<1>1. 0 \in P
  <2>1. ASSUME NEW T \in SUBSET (0..0), T # {}
        PROVE  Has(T)
    <3>1. PICK x \in T : TRUE
      BY <2>1
    <3>2. \A y \in T : y = 0
      OBVIOUS
    <3>3. QED
      BY <3>1, <3>2
  <2>2. QED
    BY <2>1
<1>2. ASSUME NEW m \in Nat, m \in P
      PROVE  m + 1 \in P
  <2>1. ASSUME NEW T \in SUBSET (0..m + 1), T # {}
        PROVE  Has(T)
    <3>1. CASE m + 1 \in T
      <4>1. \A y \in T : m + 1 >= y
        OBVIOUS
      <4>2. QED
        BY <3>1, <4>1
    <3>2. CASE m + 1 \notin T
      <4>1. T \in SUBSET (0..m)
        BY <3>2
      <4>2. QED
        BY <1>2, <2>1, <4>1
    <3>3. QED
      BY <3>1, <3>2
  <2>2. QED
    BY <2>1
<1>3. n \in P
  <2> HIDE DEF P
  <2> QED
    BY <1>1, <1>2, Induction
<1>4. Has(S)
  BY <1>3
<1>5. Max(S) \in S /\ \A y \in S : Max(S) >= y
  BY <1>4 DEF Max
<1>6. \A x \in S : x \in 0..n
  OBVIOUS
<1>7. QED
  BY <1>5, <1>6

LEMMA MinOf ==
    ASSUME NEW a \in Nat, NEW b \in Nat
    PROVE  Min({a, b}) = IF a <= b THEN a ELSE b
<1> DEFINE m == IF a <= b THEN a ELSE b
<1>1. m \in {a, b} /\ \A y \in {a, b} : m <= y
  OBVIOUS
<1>2. Min({a, b}) \in {a, b} /\ \A y \in {a, b} : Min({a, b}) <= y
  BY <1>1 DEF Min
<1>3. QED
  BY <1>2

\* A vote to block is more than half sure, and sees some threat.
GoodVote(v) == /\ v \in Vote
               /\ v.block => v.confidence > 50 /\ v.level > None

LEMMA VoteFields ==
    ASSUME NEW b \in BOOLEAN, NEW l \in Levels, NEW c \in 0..100, b => c > 50 /\ l > None
    PROVE  GoodVote([block |-> b, level |-> l, confidence |-> c, weight |-> 2])
<1>1. [block |-> b, level |-> l, confidence |-> c, weight |-> 2] \in Vote
  BY DEF Vote
<1>2. QED
  BY <1>1 DEF GoodVote

LEMMA LevelsOver ==
    ASSUME NEW X, NEW f, \A x \in X : f[x] \in 1..4
    PROVE  /\ Max({None} \cup {f[x] : x \in X}) \in Levels
           /\ X # {} => Max({None} \cup {f[x] : x \in X}) > None
<1> DEFINE S == {None} \cup {f[x] : x \in X}
<1>1. S \in SUBSET (0..4) /\ S # {} /\ \A x \in S : x \in Int
  BY DEF None
<1>2. \A x \in X : f[x] \in S /\ f[x] > 0
  OBVIOUS
<1> HIDE DEF S
<1>3. Max(S) \in S /\ \A x \in S : x <= Max(S)
  BY <1>1, MaxOf
<1>4. Max(S) \in Levels
  BY <1>1, <1>3 DEF Levels
<1>5. ASSUME X # {}
      PROVE  Max(S) > 0
  <2>1. PICK x \in X : TRUE
    BY <1>5
  <2>2. f[x] \in S /\ f[x] > 0 /\ f[x] \in Int
    BY <1>1, <1>2, <2>1
  <2>3. f[x] <= Max(S) /\ Max(S) \in Int
    BY <1>1, <1>3, <2>2
  <2>4. QED
    BY <2>2, <2>3
<1>6. QED
  BY <1>4, <1>5 DEF S, None

LEMMA BehaviorVoteGood ==
    ASSUME NEW alarms \in SUBSET {"rate", "path", "scan", "trace", "bot"}
    PROVE  GoodVote(BehaviorVote(alarms))
<1> DEFINE f == [a \in alarms |-> AlarmLevel(a)]
           level == Max({None} \cup {AlarmLevel(a) : a \in alarms})
           sure == IF alarms = {} THEN 85 ELSE Min({90, 50 + 10 * Cardinality(alarms)})
<1>1. \A a \in alarms : f[a] \in 1..4
  BY DEF AlarmLevel, Low, Medium, High
<1>2. {AlarmLevel(a) : a \in alarms} = {f[a] : a \in alarms}
  OBVIOUS
<1>3. level \in Levels /\ (alarms # {} => level > None)
  <2> DEFINE top == Max({None} \cup {f[x] : x \in alarms})
  <2>1. level = top
    BY <1>2
  <2> HIDE DEF f
  <2>2. top \in Levels /\ (alarms # {} => top > None)
    BY <1>1, LevelsOver
  <2> HIDE DEF level, top
  <2>3. QED
    BY <2>1, <2>2
<1>4. sure \in 0..100 /\ (alarms # {} => sure > 50)
  <2>1. IsFiniteSet(alarms)
    <3>1. IsFiniteSet({"rate", "path", "scan", "trace", "bot"})
      <4>1. IsFiniteSet({"bot"})
        BY FS_Singleton
      <4>2. IsFiniteSet({"bot"} \cup {"trace"})
        BY <4>1, FS_AddElement
      <4>3. IsFiniteSet({"bot"} \cup {"trace"} \cup {"scan"})
        BY <4>2, FS_AddElement
      <4>4. IsFiniteSet({"bot"} \cup {"trace"} \cup {"scan"} \cup {"path"})
        BY <4>3, FS_AddElement
      <4>5. IsFiniteSet({"bot"} \cup {"trace"} \cup {"scan"} \cup {"path"} \cup {"rate"})
        BY <4>4, FS_AddElement
      <4>6. {"rate", "path", "scan", "trace", "bot"}
              = {"bot"} \cup {"trace"} \cup {"scan"} \cup {"path"} \cup {"rate"}
        OBVIOUS
      <4>7. QED
        BY <4>5, <4>6
    <3>2. QED
      BY <3>1, FS_Subset
  <2>2. Cardinality(alarms) \in Nat /\ (alarms # {} => Cardinality(alarms) # 0)
    BY <2>1, FS_CardinalityType, FS_EmptySet
  <2> DEFINE b == 50 + 10 * Cardinality(alarms)
  <2>3. b \in Nat /\ 90 \in Nat /\ (alarms # {} => b > 50)
    BY <2>2
  <2> HIDE DEF b
  <2>4. Min({90, b}) = IF 90 <= b THEN 90 ELSE b
    BY <2>3, MinOf
  <2>5. QED
    BY <2>3, <2>4 DEF b
<1>5. (alarms # {}) \in BOOLEAN
  OBVIOUS
<1>6. BehaviorVote(alarms) = [block |-> alarms # {}, level |-> level, confidence |-> sure, weight |-> 2]
  BY DEF BehaviorVote
<1> HIDE DEF level, sure
<1> DEFINE b == alarms # {}
<1>7. b \in BOOLEAN /\ (b => sure > 50 /\ level > None)
  BY <1>3, <1>4, <1>5
<1>8. GoodVote([block |-> b, level |-> level, confidence |-> sure, weight |-> 2])
  <2> HIDE DEF b
  <2> QED
    BY <1>3, <1>4, <1>7, VoteFields
<1>9. QED
  BY <1>6, <1>8

LEMMA MatchVoteGood ==
    ASSUME NEW found, IsFiniteSet(found), NEW kinds, NEW levels, \A k \in kinds : levels[k] \in 1..4,
           NEW allow \in 0..100
    PROVE  GoodVote(MatchVote(found, kinds, levels, allow))
<1> DEFINE hits == {match \in found : match[1] \in kinds}
           f == [match \in hits |-> levels[match[1]]]
           level == Max({None} \cup {levels[match[1]] : match \in hits})
           sure == IF hits = {} THEN allow ELSE Min({95, 50 + 15 * Cardinality(hits)})
<1>1. \A match \in hits : f[match] \in 1..4
  OBVIOUS
<1>2. {levels[match[1]] : match \in hits} = {f[match] : match \in hits}
  OBVIOUS
<1>3. IsFiniteSet(hits)
  BY FS_Subset
<1>4. MatchVote(found, kinds, levels, allow) =
        [block |-> hits # {}, level |-> level, confidence |-> sure, weight |-> 2]
  BY DEF MatchVote
<1>5. level \in Levels /\ (hits # {} => level > None)
  <2> DEFINE top == Max({None} \cup {f[x] : x \in hits})
  <2>1. level = top
    BY <1>2
  <2> HIDE DEF f, hits
  <2>2. top \in Levels /\ (hits # {} => top > None)
    BY <1>1, LevelsOver
  <2> HIDE DEF level, top
  <2>3. QED
    BY <2>1, <2>2
<1> HIDE DEF hits
<1>6. sure \in 0..100 /\ (hits # {} => sure > 50)
  <2>1. Cardinality(hits) \in Nat /\ (hits # {} => Cardinality(hits) # 0)
    BY <1>3, FS_CardinalityType, FS_EmptySet
  <2> DEFINE b == 50 + 15 * Cardinality(hits)
  <2>2. b \in Nat /\ 95 \in Nat /\ (hits # {} => b > 50)
    BY <2>1
  <2> HIDE DEF b
  <2>3. Min({95, b}) = IF 95 <= b THEN 95 ELSE b
    BY <2>2, MinOf
  <2>4. QED
    BY <2>2, <2>3 DEF b
<1>7. (hits # {}) \in BOOLEAN
  OBVIOUS
<1> HIDE DEF level, sure
<1> DEFINE b == hits # {}
<1>8. b \in BOOLEAN /\ (b => sure > 50 /\ level > None)
  BY <1>5, <1>6, <1>7
<1>9. GoodVote([block |-> b, level |-> level, confidence |-> sure, weight |-> 2])
  <2> HIDE DEF b
  <2> QED
    BY <1>5, <1>6, <1>8, VoteFields
<1>10. QED
  BY <1>4, <1>9

\* The strategies without a memory.
LEMMA MatchersVoteGood ==
    ASSUME NEW path \in Paths, NEW switched
    PROVE  GoodVote(SignatureVote(Contents[path], switched)) /\ GoodVote(HeaderVote(Contents[path], switched))
<1>1. IsFiniteSet(Contents[path])
  BY DetectionAssumption
<1>2. \A k \in Categories \ switched : CategoryLevel[k] \in 1..4
  BY DEF CategoryLevel, Categories, Medium, High, Critical
<1>3. \A k \in Findings \ switched : FindingLevel[k] \in 1..4
  BY DEF FindingLevel, Findings, Low, Medium, High
<1>4. 90 \in 0..100 /\ 95 \in 0..100
  OBVIOUS
<1>5. GoodVote(MatchVote(Contents[path], Categories \ switched, CategoryLevel, 90))
  BY <1>1, <1>2, <1>4, MatchVoteGood
<1>6. GoodVote(MatchVote(Contents[path], Findings \ switched, FindingLevel, 95))
  BY <1>1, <1>3, <1>4, MatchVoteGood
<1>7. QED
  BY <1>5, <1>6 DEF SignatureVote, HeaderVote

LEMMA ZeroDayVoteGood == \A list, path : GoodVote(ZeroDayVote(list, path))
<1> SUFFICES ASSUME NEW list, NEW path PROVE GoodVote(ZeroDayVote(list, path))
  OBVIOUS
<1> DEFINE level == IF Exceeds(list, path, 8) THEN High ELSE Medium
           sure == 50 + (5 * Deviation) \div 2
<1>1. level \in Levels /\ level > None
  BY DEF Levels, High, Medium, None
<1>2. sure \in 0..100 /\ sure > 50
  <2>1. Deviation \in 1..18 /\ Deviation % 2 = 0
    BY ZeroDayAssumption
  <2>2. QED
    BY <2>1
<1> HIDE DEF level, sure
<1>3. ZeroDayVote(list, path) =
        IF IsAnomalous(list, path)
        THEN [block |-> TRUE, level |-> level, confidence |-> sure, weight |-> 2]
        ELSE [block |-> FALSE, level |-> None, confidence |-> 0, weight |-> 2]
  BY DEF ZeroDayVote, level, sure
<1>4. QED
  BY <1>1, <1>2, <1>3 DEF GoodVote, Vote, Levels, None

\* The flood detector votes to block as soon as there is an alert.
LEMMA DDoSVoteGood ==
    ASSUME NEW alerts \in SUBSET {"global", "client", "blocked", "distributed"}
    PROVE  GoodVote(DDoSVote(alerts)) /\ (DDoSVote(alerts).block <=> alerts # {})
<1> DEFINE S == {0} \cup {AlertScore(a) : a \in alerts}
           score == Max(S)
           level == IF score > 90 THEN Critical ELSE IF score > 80 THEN High
                    ELSE IF score > 70 THEN Medium ELSE None
<1>1. \A a \in alerts : AlertScore(a) \in 85..100
  BY DEF AlertScore
<1>2. S \in SUBSET (0..100) /\ S # {} /\ \A x \in S : x = 0 \/ x \in 85..100
  BY <1>1
<1>3. \A a \in alerts : AlertScore(a) \in S
  OBVIOUS
<1>4. alerts = {} => S = {0}
  OBVIOUS
<1>5. DDoSVote(alerts) = [block |-> score > 70, level |-> level, confidence |-> score, weight |-> 2]
  BY DEF DDoSVote
<1> HIDE DEF S
<1>6. score \in S /\ \A x \in S : x <= score
  BY <1>2, MaxOf
<1> HIDE DEF score
<1>7. score \in 0..100 /\ (score > 70 <=> alerts # {})
  <2>1. CASE alerts = {}
    BY <1>4, <1>6, <2>1
  <2>2. CASE alerts # {}
    <3>1. PICK a \in alerts : TRUE
      BY <2>2
    <3>2. AlertScore(a) \in 85..100 /\ AlertScore(a) <= score /\ score \in 0..100
      BY <1>1, <1>2, <1>3, <1>6, <3>1
    <3>3. QED
      BY <2>2, <3>2
  <2>3. QED
    BY <2>1, <2>2
<1>8. level \in Levels /\ (score > 70 => level > None)
  BY <1>7 DEF Levels, Critical, High, Medium, None
<1>9. (score > 70) \in BOOLEAN
  OBVIOUS
<1> HIDE DEF level
<1>10. GoodVote(DDoSVote(alerts))
  <2> DEFINE b == score > 70
  <2>1. b \in BOOLEAN /\ (b => score > 50 /\ level > None)
    BY <1>7, <1>8, <1>9
  <2>2. GoodVote([block |-> b, level |-> level, confidence |-> score, weight |-> 2])
    <3> HIDE DEF b
    <3> QED
      BY <1>7, <1>8, <2>1, VoteFields
  <2>3. QED
    BY <1>5, <2>2
<1>11. DDoSVote(alerts).block = (score > 70)
  BY <1>5
<1>12. QED
  BY <1>7, <1>10, <1>11

-----------------------------------------------------------------------------
(* The verdict. *)

Sure == {v \in Vote : v.confidence > 50}

LEMMA SureFields ==
    \A v \in Sure : /\ v.confidence \in Int /\ v.confidence > 50
                    /\ v.weight = 2 \/ v.weight = 3
                    /\ v.confidence * v.weight \in Int /\ v.weight \in Int
<1> SUFFICES ASSUME NEW v \in Sure
             PROVE  /\ v.confidence \in Int /\ v.confidence > 50
                    /\ v.weight = 2 \/ v.weight = 3
                    /\ v.confidence * v.weight \in Int /\ v.weight \in Int
  OBVIOUS
<1>1. v \in Vote /\ v.confidence > 50
  BY DEF Sure
<1>2. v.confidence \in 0..100 /\ v.weight \in {2, 3}
  BY <1>1 DEF Vote
<1>3. v.confidence * v.weight \in Int
  BY <1>2
<1>4. QED
  BY <1>1, <1>2, <1>3

\* Votes to block, each more than half sure, outweigh the threshold together.
LEMMA SureVotes ==
    ASSUME NEW votes \in Seq(Sure)
    PROVE  /\ WeightedSum(votes) \in Int /\ TotalWeight(votes) \in Int
           /\ 2 * WeightedSum(votes) >= 100 * TotalWeight(votes) + Len(votes)
<1> DEFINE P == {vs \in Seq(Sure) : /\ WeightedSum(vs) \in Int /\ TotalWeight(vs) \in Int
                                    /\ 2 * WeightedSum(vs) >= 100 * TotalWeight(vs) + Len(vs)}
<1>1. <<>> \in P
  <2>1. WeightedSum(<<>>) = Total(<<>>) /\ TotalWeight(<<>>) = Total(<<>>)
    BY DEF WeightedSum, TotalWeight
  <2>2. <<>> \in Seq(Sure) /\ Len(<<>>) = 0
    OBVIOUS
  <2>3. QED
    BY <2>1, <2>2, TotalEmpty
<1>2. ASSUME NEW vs \in Seq(Sure), NEW x \in Sure, vs \in P
      PROVE  Append(vs, x) \in P
  <2> DEFINE more == Append(vs, x)
             n == Len(vs)
             product == [i \in 1..n |-> vs[i].confidence * vs[i].weight]
             products == [i \in 1..n + 1 |-> more[i].confidence * more[i].weight]
             weights == [i \in 1..n |-> vs[i].weight]
             allWeights == [i \in 1..n + 1 |-> more[i].weight]
  <2>1. /\ more \in Seq(Sure) /\ n \in Nat /\ Len(more) = n + 1
        /\ \A i \in 1..n : more[i] = vs[i]
        /\ more[n + 1] = x
    BY Appended
  <2>2. /\ WeightedSum(vs) = Total(product) /\ TotalWeight(vs) = Total(weights)
        /\ WeightedSum(more) = Total(products) /\ TotalWeight(more) = Total(allWeights)
    BY <2>1 DEF WeightedSum, TotalWeight
  <2>3. \A v \in Sure : /\ v.confidence \in Int /\ v.confidence > 50
                        /\ v.weight = 2 \/ v.weight = 3
                        /\ v.confidence * v.weight \in Int /\ v.weight \in Int
    BY SureFields
  <2> HIDE DEF more
  <2>4. \A i \in 1..n + 1 : more[i] \in Sure
    BY <2>1, Elements
  <2>5. \A i \in 1..n : i \in 1..n + 1 /\ vs[i] \in Sure
    BY <2>1, <2>4
  <2>6. /\ product \in Seq(Int) /\ Len(product) = n /\ weights \in Seq(Int) /\ Len(weights) = n
        /\ \A i \in 1..n : product[i] = products[i] /\ weights[i] = allWeights[i]
    BY <2>1, <2>3, <2>5
  <2>7. /\ products \in Seq(Int) /\ Len(products) = n + 1 /\ products[n + 1] = x.confidence * x.weight
        /\ allWeights \in Seq(Int) /\ Len(allWeights) = n + 1 /\ allWeights[n + 1] = x.weight
    BY <2>1, <2>3, <2>4
  <2> HIDE DEF product, products, weights, allWeights, n
  <2>8. Total(products) = Total(product) + x.confidence * x.weight
    BY <2>1, <2>6, <2>7, TotalSplit
  <2>9. Total(allWeights) = Total(weights) + x.weight
    BY <2>1, <2>6, <2>7, TotalSplit
  <2>10. Total(product) \in Int /\ Total(weights) \in Int
    BY <1>2, <2>2
  <2>11. 2 * Total(product) >= 100 * Total(weights) + n
    BY <1>2, <2>2 DEF n
  <2>12. x.confidence \in Int /\ x.confidence > 50 /\ (x.weight = 2 \/ x.weight = 3)
    BY <2>3
  <2>13. 2 * (x.confidence * x.weight) >= 100 * x.weight + 1
    BY <2>12
  <2>14. x.confidence * x.weight \in Int /\ x.weight \in Int
    BY <2>3
  <2>15. 2 * Total(products) >= 100 * Total(allWeights) + (n + 1) /\ Total(products) \in Int /\ Total(allWeights) \in Int
    <3> DEFINE cw == x.confidence * x.weight
               w == x.weight
    <3>1. cw \in Int /\ w \in Int /\ 2 * cw >= 100 * w + 1
      BY <2>13, <2>14
    <3> HIDE DEF cw, w
    <3>2. Total(products) = Total(product) + cw /\ Total(allWeights) = Total(weights) + w
      BY <2>8, <2>9 DEF cw, w
    <3>3. PICK p \in Int, q \in Int : p = Total(product) /\ q = Total(weights)
      BY <2>10
    <3>4. 2 * p >= 100 * q + n /\ n \in Nat
      BY <2>1, <2>11, <3>3
    <3>5. 2 * (p + cw) >= 100 * (q + w) + (n + 1)
      BY <3>1, <3>4
    <3>6. QED
      BY <3>1, <3>2, <3>3, <3>5
  <2>16. QED
    BY <2>1, <2>2, <2>15 DEF more
<1>3. Seq(Sure) \subseteq P
  <2> HIDE DEF P
  <2> QED
    BY <1>1, <1>2, ListInduction
<1>4. QED
  BY <1>3

LEMMA BlockingVotes ==
    ASSUME NEW votes \in Seq(Vote), \A i \in 1..Len(votes) : GoodVote(votes[i])
    PROVE  (votes # <<>> /\ ExceedsThreshold(votes)) <=> \E i \in 1..Len(votes) : votes[i].block
<1> DEFINE some == Blocking(votes)
<1>1. some \in Seq(Vote) /\ ToSet(some) = ToSet(votes) \cap {v \in Vote : v.block}
  BY KeptElements DEF Blocking
<1>2. \A v \in ToSet(votes) : v \in Vote /\ \E i \in 1..Len(votes) : votes[i] = v
  BY Elements
<1>3. \A i \in 1..Len(votes) : votes[i] \in ToSet(votes)
  BY Elements
<1> HIDE DEF some
<1>4. Len(some) \in Nat /\ \A i \in 1..Len(some) : some[i] \in ToSet(some)
  BY <1>1, Elements
<1>5. \A i \in 1..Len(some) : some[i] \in Sure
  <2> SUFFICES ASSUME NEW i \in 1..Len(some) PROVE some[i] \in Sure
    OBVIOUS
  <2>1. some[i] \in ToSet(votes) /\ some[i] \in Vote /\ some[i].block
    BY <1>1, <1>4
  <2>2. PICK j \in 1..Len(votes) : votes[j] = some[i]
    BY <1>2, <2>1
  <2>3. QED
    BY <2>1, <2>2 DEF GoodVote, Sure
<1>6. some \in Seq(Sure)
  <2>1. some = [i \in 1..Len(some) |-> some[i]]
    BY <1>1
  <2>2. QED
    BY <1>4, <1>5, <2>1
<1>7. /\ WeightedSum(some) \in Int /\ TotalWeight(some) \in Int
      /\ 2 * WeightedSum(some) >= 100 * TotalWeight(some) + Len(some)
  BY <1>6, SureVotes
<1>8. ExceedsThreshold(votes) <=> 2 * WeightedSum(some) > 100 * TotalWeight(some)
  BY DEF ExceedsThreshold, some
<1>9. CASE some = <<>>
  <2>1. WeightedSum(some) = 0 /\ TotalWeight(some) = 0
    BY <1>9, TotalEmpty DEF WeightedSum, TotalWeight
  <2>2. ~ExceedsThreshold(votes)
    BY <1>8, <2>1
  <2>3. \A i \in 1..Len(votes) : ~votes[i].block
    <3>1. ToSet(some) = {}
      BY <1>9 DEF ToSet
    <3>2. QED
      BY <1>1, <1>2, <1>3, <3>1
  <2>4. QED
    BY <2>2, <2>3
<1>10. CASE some # <<>>
  <2>1. Len(some) > 0
    BY <1>1, <1>4, <1>10
  <2>2. ExceedsThreshold(votes)
    BY <1>4, <1>7, <1>8, <2>1
  <2>3. \E i \in 1..Len(votes) : votes[i].block
    <3>1. some[1] \in ToSet(votes) /\ some[1].block
      BY <1>1, <1>4, <2>1
    <3>2. QED
      BY <1>2, <3>1
  <2>4. votes # <<>>
    BY <2>3
  <2>5. QED
    BY <2>2, <2>3, <2>4
<1>11. QED
  BY <1>9, <1>10

\* A list of levels has a k-th one in order.
LEMMA RankedOf ==
    ASSUME NEW levels \in Seq(Levels), NEW k \in 1..Len(levels)
    PROVE  /\ Ranked(levels, k) \in Levels
           /\ \E i \in 1..Len(levels) : levels[i] >= Ranked(levels, k)
           /\ k = Len(levels) => \A i \in 1..Len(levels) : levels[i] <= Ranked(levels, k)
<1> DEFINE n == Len(levels)
           Below(l) == {i \in DOMAIN levels : levels[i] < l}
           UpTo(l) == {i \in DOMAIN levels : levels[i] <= l}
           Fits(l) == Cardinality(Below(l)) < k /\ Cardinality(UpTo(l)) >= k
<1>1. n \in Nat /\ DOMAIN levels = 1..n /\ \A i \in 1..n : levels[i] \in 0..4
  BY DEF Levels
<1>2. IsFiniteSet(1..n) /\ Cardinality(1..n) = n
  <2>1. 1 \in Int /\ n \in Int
    BY <1>1
  <2>2. IsFiniteSet(1..n) /\ Cardinality(1..n) = IF 1 > n THEN 0 ELSE n - 1 + 1
    BY <2>1, FS_Interval
  <2>3. QED
    BY <1>1, <2>2
<1>3. \A l : /\ Below(l) \subseteq 1..n /\ UpTo(l) \subseteq 1..n
             /\ Cardinality(Below(l)) \in Nat /\ Cardinality(UpTo(l)) \in Nat
  BY <1>1, <1>2, FS_Subset, FS_CardinalityType
<1>4. Below(0) = {} /\ UpTo(4) = 1..n
  BY <1>1
<1>5. Below(1) = UpTo(0) /\ Below(2) = UpTo(1) /\ Below(3) = UpTo(2) /\ Below(4) = UpTo(3)
  BY <1>1
<1>6. Cardinality(Below(0)) = 0 /\ Cardinality(UpTo(4)) = n
  BY <1>2, <1>4, FS_EmptySet
<1>7. \E l \in Levels : Fits(l)
  <2> DEFINE u(l) == Cardinality(UpTo(l))
             b(l) == Cardinality(Below(l))
  <2>1. /\ b(0) = 0 /\ b(1) = u(0) /\ b(2) = u(1) /\ b(3) = u(2) /\ b(4) = u(3) /\ u(4) = n
    BY <1>5, <1>6
  <2>2. /\ u(0) \in Nat /\ u(1) \in Nat /\ u(2) \in Nat /\ u(3) \in Nat
    BY <1>3
  <2>3. 0 \in Levels /\ 1 \in Levels /\ 2 \in Levels /\ 3 \in Levels /\ 4 \in Levels
    BY DEF Levels
  <2>4. Fits(0) <=> b(0) < k /\ u(0) >= k
    OBVIOUS
  <2>5. Fits(1) <=> b(1) < k /\ u(1) >= k
    OBVIOUS
  <2>6. Fits(2) <=> b(2) < k /\ u(2) >= k
    OBVIOUS
  <2>7. Fits(3) <=> b(3) < k /\ u(3) >= k
    OBVIOUS
  <2>8. Fits(4) <=> b(4) < k /\ u(4) >= k
    OBVIOUS
  <2>9. k \in Int /\ 0 < k /\ k <= n
    BY <1>1
  <2> HIDE DEF u, b, Fits
  <2>10. Fits(0) \/ Fits(1) \/ Fits(2) \/ Fits(3) \/ Fits(4)
    <3>1. CASE u(0) >= k
      BY <2>1, <2>4, <2>9, <3>1
    <3>2. CASE u(0) < k /\ u(1) >= k
      BY <2>1, <2>5, <3>2
    <3>3. CASE u(1) < k /\ u(2) >= k
      BY <2>1, <2>6, <3>3
    <3>4. CASE u(2) < k /\ u(3) >= k
      BY <2>1, <2>7, <3>4
    <3>5. CASE u(3) < k
      BY <1>1, <2>1, <2>8, <2>9, <3>5
    <3>6. QED
      BY <2>2, <2>9, <3>1, <3>2, <3>3, <3>4, <3>5
  <2>11. QED
    BY <2>3, <2>10
<1> DEFINE r == Ranked(levels, k)
<1>8. r = CHOOSE l \in Levels : Fits(l)
  BY DEF Ranked
<1>9. r \in Levels /\ Fits(r)
  <2> HIDE DEF Fits, r
  <2> QED
    BY <1>7, <1>8
<1> HIDE DEF r
<1>10. r \in 0..4
  BY <1>9 DEF Levels
<1>11. \E i \in 1..n : levels[i] >= r
  <2> SUFFICES ASSUME \A i \in 1..n : ~(levels[i] >= r) PROVE FALSE
    OBVIOUS
  <2>1. Below(r) = 1..n
    <3>1. \A i \in 1..n : levels[i] < r
      BY <1>1, <1>10
    <3>2. QED
      BY <1>1, <3>1
  <2>2. Cardinality(Below(r)) = n
    BY <1>2, <2>1
  <2>3. Cardinality(Below(r)) < k
    BY <1>9
  <2>4. k <= n /\ k \in Int /\ n \in Int
    BY <1>1
  <2>5. QED
    BY <2>2, <2>3, <2>4
<1>12. ASSUME k = n
       PROVE  \A i \in 1..n : levels[i] <= r
  <2>1. UpTo(r) \subseteq 1..n
    BY <1>3
  <2>2. Cardinality(UpTo(r)) >= n /\ Cardinality(UpTo(r)) \in Nat
    BY <1>3, <1>9, <1>12
  <2>3. Cardinality(UpTo(r)) <= n /\ (Cardinality(UpTo(r)) = n => UpTo(r) = 1..n)
    BY <1>2, <2>1, FS_Subset
  <2>4. Cardinality(UpTo(r)) = n
    BY <1>1, <2>2, <2>3
  <2>5. UpTo(r) = 1..n
    BY <2>3, <2>4
  <2>6. QED
    BY <2>5
<1>13. QED
  BY <1>9, <1>11, <1>12 DEF r

\* A value between two levels, in tenths, rounded.
LEMMA Rounded ==
    ASSUME NEW a \in 0..4, NEW b \in 0..4, NEW w \in 0..4, a <= w, b <= w, NEW r \in 0..9
    PROVE  LET l == RoundTenths(a * (10 - r) + b * r)
           IN  l \in 0..w /\ (r >= 6 /\ b >= 1 => l >= 1) /\ (r = 0 /\ a >= 1 => l >= 1)
<1> DEFINE v == a * (10 - r) + b * r
<1>1. v \in 0..40 /\ v <= 10 * w /\ (r >= 6 /\ b >= 1 => v >= 6) /\ (r = 0 /\ a >= 1 => v >= 6)
  <2>1. CASE r = 0
    BY <2>1
  <2>2. CASE r = 1
    BY <2>2
  <2>3. CASE r = 2
    BY <2>3
  <2>4. CASE r = 3
    BY <2>4
  <2>5. CASE r = 4
    BY <2>5
  <2>6. CASE r = 5
    BY <2>6
  <2>7. CASE r = 6
    BY <2>7
  <2>8. CASE r = 7
    BY <2>8
  <2>9. CASE r = 8
    BY <2>9
  <2>10. CASE r = 9
    BY <2>10
  <2>11. QED
    BY <2>1, <2>2, <2>3, <2>4, <2>5, <2>6, <2>7, <2>8, <2>9, <2>10
<1> HIDE DEF v
<1>2. RoundTenths(v) \in 0..w /\ (v >= 6 => RoundTenths(v) >= 1)
  <2>1. PICK q \in 0..4, s \in 0..9 : v = 10 * q + s /\ q = v \div 10 /\ s = v % 10
    BY <1>1
  <2>2. RoundTenths(v) = IF s > 5 \/ (s = 5 /\ q % 2 = 1) THEN q + 1 ELSE q
    BY <2>1 DEF RoundTenths
  <2>3. RoundTenths(v) = q \/ (RoundTenths(v) = q + 1 /\ s >= 5)
    BY <2>2
  <2>4. s > 5 => RoundTenths(v) = q + 1
    BY <2>2
  <2>5. QED
    BY <1>1, <2>1, <2>3, <2>4
<1>3. QED
  BY <1>1, <1>2 DEF v

LEMMA Aggregated ==
    ASSUME NEW levels \in Seq(Levels), NEW w \in Levels, \A i \in 1..Len(levels) : levels[i] <= w
    PROVE  /\ AggregateLevels(levels) \in 0..w
           /\ Len(levels) <= 5 /\ (\E i \in 1..Len(levels) : levels[i] > 0)
                => AggregateLevels(levels) > 0
<1> DEFINE n == Len(levels)
           pos == 9 * (n - 1)
           k == pos \div 10 + 1
           next == IF k < n THEN k + 1 ELSE k
           r == pos % 10
<1>1. n \in Nat /\ w \in 0..4 /\ \A i \in 1..n : levels[i] \in 0..4
  BY DEF Levels
<1>2. CASE levels = <<>>
  <2>1. AggregateLevels(levels) = 0 /\ n = 0
    BY <1>2 DEF AggregateLevels, None
  <2>2. QED
    BY <1>1, <2>1
<1>3. CASE levels # <<>>
  <2>1. n > 0
    BY <1>1, <1>3
  <2>2. k \in 1..n /\ next \in 1..n /\ r \in 0..9
    BY <1>1, <2>1
  <2>3. n <= 5 => (next = n /\ (r >= 6 \/ (r = 0 /\ k = n)))
    BY <1>1, <2>1
  <2>4. AggregateLevels(levels) = RoundTenths(Ranked(levels, k) * (10 - r) + Ranked(levels, next) * r)
    BY <1>3 DEF AggregateLevels
  <2> DEFINE a == Ranked(levels, k)
             b == Ranked(levels, next)
  <2>5. /\ a \in 0..4 /\ a <= w /\ b \in 0..4 /\ b <= w
        /\ next = n => \A i \in 1..n : levels[i] <= b
        /\ k = n => \A i \in 1..n : levels[i] <= a
    <3> HIDE DEF k, next, r
    <3>1. /\ a \in Levels /\ \E i \in 1..n : levels[i] >= a
          /\ k = n => \A i \in 1..n : levels[i] <= a
      BY <2>2, RankedOf
    <3>2. /\ b \in Levels /\ \E i \in 1..n : levels[i] >= b
          /\ next = n => \A i \in 1..n : levels[i] <= b
      BY <2>2, RankedOf
    <3> HIDE DEF a, b
    <3>3. \A i \in 1..n : levels[i] <= w /\ levels[i] \in 0..4
      BY <1>1
    <3>4. a \in 0..4 /\ b \in 0..4
      BY <3>1, <3>2 DEF Levels
    <3>5. a <= w
      BY <1>1, <3>1, <3>3, <3>4
    <3>6. b <= w
      BY <1>1, <3>2, <3>3, <3>4
    <3>7. QED
      BY <3>1, <3>2, <3>4, <3>5, <3>6
  <2> DEFINE l == RoundTenths(a * (10 - r) + b * r)
  <2> HIDE DEF a, b, k, next, r
  <2>6. l \in 0..w /\ (r >= 6 /\ b >= 1 => l >= 1) /\ (r = 0 /\ a >= 1 => l >= 1)
    BY <1>1, <2>2, <2>5, Rounded
  <2>7. AggregateLevels(levels) = l
    BY <2>4 DEF a, b
  <2> HIDE DEF l
  <2>8. ASSUME n <= 5, NEW i \in 1..n, levels[i] > 0
        PROVE  l > 0
    <3>1. levels[i] \in 0..4 /\ l \in Int /\ levels[i] >= 1
      BY <1>1, <2>6, <2>8
    <3>2. levels[i] <= b
      BY <2>3, <2>5, <2>8
    <3>3. b >= 1
      BY <2>5, <3>1, <3>2
    <3>4. CASE r >= 6
      BY <2>6, <3>1, <3>3, <3>4
    <3>5. CASE r = 0 /\ k = n
      <4>1. levels[i] <= a
        BY <2>5, <3>5
      <4>2. a >= 1
        BY <2>5, <3>1, <4>1
      <4>3. QED
        BY <2>6, <3>1, <3>5, <4>2
    <3>6. QED
      BY <2>3, <2>8, <3>4, <3>5
  <2>9. QED
    BY <2>6, <2>7, <2>8
<1>4. QED
  BY <1>2, <1>3

\* What the votes of one analysis are.
VotesInv ==
    /\ last.votes \in Seq(Vote)
    /\ Len(last.votes) <= 5
    /\ \A i \in 1..Len(last.votes) : GoodVote(last.votes[i])

LEMMA VerdictFollows ==
    ASSUME VotesInv
    PROVE  VerdictFollowsVotes /\ verdict \in [block : BOOLEAN, level : Levels]
<1> DEFINE votes == last.votes
           levels == LevelsOf(votes)
           worst == Max({None} \cup {votes[i].level : i \in 1..Len(votes)})
<1>1. votes \in Seq(Vote) /\ Len(votes) \in Nat /\ Len(votes) <= 5
  BY DEF VotesInv
<1>2. \A i \in 1..Len(votes) : GoodVote(votes[i]) /\ votes[i] \in Vote
  BY DEF VotesInv, GoodVote
<1>3. \A i \in 1..Len(votes) : votes[i].level \in Levels
  BY <1>2 DEF Vote
<1> HIDE DEF votes
<1>4. levels \in Seq(Levels) /\ Len(levels) = Len(votes) /\ \A i \in 1..Len(votes) : levels[i] = votes[i].level
  BY <1>1, <1>3 DEF LevelsOf
<1> HIDE DEF levels
<1>5. worst \in 0..4 /\ \A i \in 1..Len(votes) : votes[i].level <= worst
  <2> DEFINE S == {None} \cup {votes[i].level : i \in 1..Len(votes)}
  <2>1. S \in SUBSET (0..4) /\ S # {}
    BY <1>3 DEF None, Levels
  <2>2. \A i \in 1..Len(votes) : votes[i].level \in S
    OBVIOUS
  <2> HIDE DEF S
  <2>3. Max(S) \in S /\ \A x \in S : x <= Max(S)
    BY <2>1, MaxOf
  <2>4. worst = Max(S)
    BY DEF S
  <2> HIDE DEF worst
  <2>5. QED
    BY <2>1, <2>2, <2>3, <2>4
<1> HIDE DEF worst
<1>6. /\ AggregateLevels(levels) \in 0..worst
      /\ Len(levels) <= 5 /\ (\E i \in 1..Len(levels) : levels[i] > 0) => AggregateLevels(levels) > 0
  <2>1. worst \in Levels /\ \A i \in 1..Len(levels) : levels[i] <= worst
    BY <1>4, <1>5 DEF Levels
  <2>2. QED
    BY <1>4, <2>1, Aggregated
<1>7. verdict.block = (votes # <<>> /\ ExceedsThreshold(votes)) /\ verdict.level = AggregateLevels(levels)
  BY DEF verdict, Verdict, votes, levels
<1>8. verdict = [block |-> votes # <<>> /\ ExceedsThreshold(votes), level |-> AggregateLevels(levels)]
  BY DEF verdict, Verdict, votes, levels
<1>9. (votes # <<>> /\ ExceedsThreshold(votes)) <=> \E i \in 1..Len(votes) : votes[i].block
  BY <1>1, <1>2, BlockingVotes
<1>10. verdict.block <=> \E i \in 1..Len(votes) : votes[i].block
  BY <1>7, <1>9
<1>11. verdict.block => verdict.level > None
  <2> SUFFICES ASSUME verdict.block PROVE verdict.level > None
    OBVIOUS
  <2>1. PICK i \in 1..Len(votes) : votes[i].block
    BY <1>10
  <2>2. levels[i] > 0 /\ i \in 1..Len(levels)
    BY <1>2, <1>4, <2>1 DEF GoodVote, None
  <2>3. AggregateLevels(levels) > 0
    BY <1>1, <1>4, <1>6, <2>2
  <2>4. QED
    BY <1>7, <2>3 DEF None
<1>12. verdict.level <= worst
  BY <1>5, <1>6, <1>7
<1>13. verdict \in [block : BOOLEAN, level : Levels]
  <2>1. AggregateLevels(levels) \in Levels
    BY <1>5, <1>6 DEF Levels
  <2>2. (votes # <<>> /\ ExceedsThreshold(votes)) \in BOOLEAN
    BY <1>9
  <2>3. QED
    BY <1>8, <2>1, <2>2
<1>14. QED
  BY <1>10, <1>11, <1>12, <1>13 DEF VerdictFollowsVotes, votes, worst

-----------------------------------------------------------------------------
(* The history, and what the trackers keep of it. *)

HistoryInv ==
    /\ now \in 0..MaxTime
    /\ seen \in Seq(Request)
    /\ \A i \in 1..Len(seen) : seen[i].at <= now

\* The requests of one client that a strategy has seen.
Mine(s, ip) == OfClient(SeenBy(s), ip)

LEMMA HistoryPlaces ==
    ASSUME HistoryInv, NEW s, NEW c
    PROVE  /\ Len(seen) \in Nat /\ now \in Nat /\ now \in 0..MaxTime
           /\ SeenBy(s) \in SUBSET (1..Len(seen)) /\ Mine(s, c) \in SUBSET (1..Len(seen))
           /\ \A i \in 1..Len(seen) : /\ seen[i].at \in Nat /\ seen[i].at <= now
                                      /\ seen[i].path \in Paths /\ seen[i].ip \in IPs
<1>1. Len(seen) \in Nat /\ \A i \in 1..Len(seen) : seen[i] \in Request
  BY DEF HistoryInv
<1>2. \A i \in 1..Len(seen) : seen[i].at \in 0..MaxTime /\ seen[i].path \in Paths /\ seen[i].ip \in IPs
  BY <1>1 DEF Request
<1>3. MaxTime \in Nat
  BY TrafficAssumption
<1>4. now \in 0..MaxTime /\ \A i \in 1..Len(seen) : seen[i].at <= now
  BY DEF HistoryInv
<1>5. SeenBy(s) \in SUBSET (1..Len(seen)) /\ Mine(s, c) \in SUBSET (1..Len(seen))
  BY DEF SeenBy, Mine, OfClient
<1>6. QED
  BY <1>1, <1>2, <1>3, <1>4, <1>5

\* One request more.
LEMMA HistoryNext ==
    ASSUME HistoryInv, SettingsInv, NEW ip \in IPs, NEW path \in Paths, Judge(ip, path), NEW s, NEW c
    PROVE  /\ Len(seen') = Len(seen) + 1 /\ now' = now
           /\ \A i \in 1..Len(seen) : seen'[i] = seen[i]
           /\ seen'[Len(seen) + 1] = [ip |-> ip, path |-> path, at |-> now, by |-> ToSet(running)]
           /\ SeenBy(s)' = IF Runs(s) THEN SeenBy(s) \cup {Len(seen) + 1} ELSE SeenBy(s)
           /\ Mine(s, c)' = IF Runs(s) /\ c = ip THEN Mine(s, c) \cup {Len(seen) + 1} ELSE Mine(s, c)
           /\ HistoryInv'
<1> DEFINE r == [ip |-> ip, path |-> path, at |-> now, by |-> ToSet(running)]
           n == Len(seen)
<1>1. seen' = Append(seen, r) /\ now' = now
  BY DEF Judge
<1>2. r \in Request /\ r.ip = ip /\ r.by = ToSet(running) /\ r.at = now
  <2>1. ToSet(running) \subseteq Strategies
    BY RunningFew, Elements
  <2>2. now \in 0..MaxTime
    BY DEF HistoryInv
  <2>3. QED
    BY <2>1, <2>2 DEF Request
<1> HIDE DEF r
<1>3. seen \in Seq(Request)
  BY DEF HistoryInv
<1>4. /\ seen' \in Seq(Request) /\ n \in Nat /\ Len(seen') = n + 1
      /\ \A i \in 1..n : seen'[i] = seen[i]
      /\ seen'[n + 1] = r
  BY <1>1, <1>2, <1>3, Appended
<1>5. \A i \in 1..n + 1 : i = n + 1 \/ i \in 1..n
  BY <1>4
<1>6. SeenBy(s)' = {i \in 1..n + 1 : s \in seen'[i].by} /\ SeenBy(s) = {i \in 1..n : s \in seen[i].by}
  BY <1>4 DEF SeenBy
<1>7. SeenBy(s)' = IF Runs(s) THEN SeenBy(s) \cup {n + 1} ELSE SeenBy(s)
  <2>1. Runs(s) <=> s \in r.by
    BY <1>2 DEF Runs
  <2>2. 1..n + 1 = (1..n) \cup {n + 1} /\ n + 1 \notin 1..n
    BY <1>4
  <2>3. QED
    BY <1>4, <1>6, <2>1, <2>2
<1>8. Mine(s, c)' = IF Runs(s) /\ c = ip THEN Mine(s, c) \cup {n + 1} ELSE Mine(s, c)
  <2>1. Mine(s, c)' = {i \in SeenBy(s)' : seen'[i].ip = c} /\ Mine(s, c) = {i \in SeenBy(s) : seen[i].ip = c}
    BY DEF Mine, OfClient
  <2>2. \A i \in SeenBy(s) : seen'[i] = seen[i]
    BY <1>4, <1>6
  <2>3. QED
    BY <1>2, <1>4, <1>7, <2>1, <2>2
<1>9. HistoryInv'
  <2>1. now' \in 0..MaxTime /\ \A i \in 1..n : seen[i].at <= now
    BY <1>1 DEF HistoryInv
  <2>2. now \in Int
    BY HistoryPlaces
  <2>3. \A i \in 1..n + 1 : seen'[i].at <= now'
    BY <1>1, <1>2, <1>4, <1>5, <2>1, <2>2
  <2>4. QED
    BY <1>4, <2>1, <2>3 DEF HistoryInv
<1>10. QED
  BY <1>1, <1>4, <1>7, <1>8, <1>9 DEF r

\* When no request comes, the history stays, and the clock does not go back.
Quiet == seen' = seen /\ now' \in 0..MaxTime /\ now' >= now

LEMMA QuietSteps ==
    ASSUME HistoryInv
    PROVE  /\ TimePasses \/ Admin => Quiet /\ last' = Nothing
           /\ TimePasses \/ Admin => behaviorVars' = behaviorVars /\ ddosVars' = ddosVars /\ baseline' = baseline
           /\ UNCHANGED <<seen, now>> => Quiet
           /\ Quiet => HistoryInv'
<1>1. now \in Nat /\ now \in 0..MaxTime /\ MaxTime \in Nat
  BY HistoryPlaces, TrafficAssumption
<1>2. TimePasses => now' = now + 1 /\ now' \in 0..MaxTime /\ seen' = seen
  BY <1>1 DEF TimePasses
<1>3. Admin => now' = now /\ seen' = seen
  BY DEF Admin
<1>4. TimePasses \/ Admin => last' = Nothing
  BY DEF TimePasses, Admin
<1>5. TimePasses \/ Admin => behaviorVars' = behaviorVars /\ ddosVars' = ddosVars /\ baseline' = baseline
  BY DEF TimePasses, Admin
<1>6. Quiet => HistoryInv'
  <2> SUFFICES ASSUME Quiet PROVE HistoryInv'
    OBVIOUS
  <2>1. seen' = seen /\ now' \in Nat /\ now' \in 0..MaxTime /\ now' >= now
    BY <1>1 DEF Quiet
  <2>2. \A i \in 1..Len(seen) : seen[i].at \in Nat /\ seen[i].at <= now
    BY HistoryPlaces
  <2>3. \A i \in 1..Len(seen) : seen[i].at <= now'
    BY <1>1, <2>1, <2>2
  <2>4. QED
    BY <2>1, <2>3 DEF HistoryInv
<1>7. UNCHANGED <<seen, now>> => Quiet
  BY <1>1 DEF Quiet
<1>8. TimePasses \/ Admin => Quiet
  BY <1>1, <1>2, <1>3 DEF Quiet
<1>9. QED
  BY <1>4, <1>5, <1>6, <1>7, <1>8

-----------------------------------------------------------------------------
(* Counting the requests since a time, in a list that forgets old ones. *)

After(t) == {x \in Int : x > t}

\* The requests at these places that came after t.
LateIn(history, places, t) == {i \in places : history[i].at > t}

\* A list agrees with the history from this time on.
Agrees(list, places, from) ==
    \A t \in Int : t >= from => CountIn(list, After(t)) = Cardinality(LateIn(seen, places, t))

LEMMA CountRecorded ==
    ASSUME NEW list \in Seq(Nat), NEW time \in Nat, NEW w \in Nat, NEW t \in Int, t >= time - w
    PROVE  /\ CountIn(Kept(list, After(time - w)), After(t)) = CountIn(list, After(t))
           /\ CountIn(Append(Kept(list, After(time - w)), time), After(t))
                = IF time > t THEN CountIn(list, After(t)) + 1 ELSE CountIn(list, After(t))
           /\ CountIn(Kept(Append(list, time), After(time - w)), After(t))
                = IF time > t THEN CountIn(list, After(t)) + 1 ELSE CountIn(list, After(t))
<1> DEFINE S == After(time - w)
           T == After(t)
<1>1. S \cap T = T
  <2>1. \A x \in Int : x > t => x > time - w
    OBVIOUS
  <2>2. QED
    BY <2>1 DEF After
<1>2. time \in T <=> time > t
  BY DEF After
<1> HIDE DEF S, T
<1>3. Kept(list, S) \in Seq(Nat) /\ Append(list, time) \in Seq(Nat)
  BY KeptElements
<1>4. CountIn(Kept(list, S), T) = CountIn(list, T)
  <2>1. CountIn(Kept(list, S), T) = CountIn(list, S \cap T)
    BY CountKept
  <2>2. QED
    BY <1>1, <2>1
<1>5. CountIn(Append(Kept(list, S), time), T)
        = IF time \in T THEN CountIn(Kept(list, S), T) + 1 ELSE CountIn(Kept(list, S), T)
  <2> DEFINE kept == Kept(list, S)
  <2>1. kept \in Seq(Nat)
    BY <1>3
  <2> HIDE DEF kept
  <2>2. CountIn(Append(kept, time), T) = IF time \in T THEN CountIn(kept, T) + 1 ELSE CountIn(kept, T)
    BY <2>1, CountAppend
  <2>3. QED
    BY <2>2 DEF kept
<1>6. CountIn(Kept(Append(list, time), S), T) = CountIn(Append(list, time), T)
  <2> DEFINE more == Append(list, time)
  <2>1. more \in Seq(Nat)
    BY <1>3
  <2> HIDE DEF more
  <2>2. CountIn(Kept(more, S), T) = CountIn(more, S \cap T)
    BY <2>1, CountKept
  <2>3. QED
    BY <1>1, <2>2 DEF more
<1>7. CountIn(Append(list, time), T) = IF time \in T THEN CountIn(list, T) + 1 ELSE CountIn(list, T)
  BY CountAppend
<1>8. QED
  BY <1>2, <1>4, <1>5, <1>6, <1>7 DEF S, T

\* The places counted.
LEMMA LatePlaces ==
    ASSUME HistoryInv, NEW P \in SUBSET (1..Len(seen)), NEW t \in Int
    PROVE  /\ IsFiniteSet(LateIn(seen, P, t)) /\ Cardinality(LateIn(seen, P, t)) \in Nat
           /\ LateIn(seen, P, t) \subseteq P
<1>1. Len(seen) \in Nat
  BY HistoryPlaces
<1>2. IsFiniteSet(1..Len(seen))
  BY <1>1, FS_Interval
<1>3. LateIn(seen, P, t) \subseteq P /\ LateIn(seen, P, t) \subseteq 1..Len(seen)
  BY DEF LateIn
<1>4. IsFiniteSet(LateIn(seen, P, t))
  BY <1>2, <1>3, FS_Subset
<1>5. QED
  BY <1>3, <1>4, FS_CardinalityType

\* One request more, among the places or not.
LEMMA LateNext ==
    ASSUME HistoryInv, SettingsInv, NEW ip \in IPs, NEW path \in Paths, Judge(ip, path),
           NEW P \in SUBSET (1..Len(seen)), NEW t \in Int
    PROVE  /\ Cardinality(LateIn(seen', P, t)) = Cardinality(LateIn(seen, P, t))
           /\ Cardinality(LateIn(seen', P \cup {Len(seen) + 1}, t))
                = IF now > t THEN Cardinality(LateIn(seen, P, t)) + 1 ELSE Cardinality(LateIn(seen, P, t))
<1> DEFINE n == Len(seen)
<1>1. /\ n \in Nat /\ \A i \in 1..n : seen'[i] = seen[i]
      /\ seen'[n + 1].at = now
  <2>1. /\ \A i \in 1..n : seen'[i] = seen[i]
        /\ seen'[n + 1] = [ip |-> ip, path |-> path, at |-> now, by |-> ToSet(running)]
    BY HistoryNext
  <2>2. QED
    BY <2>1, HistoryPlaces
<1>2. LateIn(seen', P, t) = LateIn(seen, P, t)
  BY <1>1 DEF LateIn
<1>3. LateIn(seen', P \cup {n + 1}, t) = IF now > t THEN LateIn(seen, P, t) \cup {n + 1} ELSE LateIn(seen, P, t)
  BY <1>1 DEF LateIn
<1>4. IsFiniteSet(LateIn(seen, P, t)) /\ n + 1 \notin LateIn(seen, P, t)
  <2>1. n + 1 \notin P
    BY <1>1
  <2>2. QED
    BY <2>1, LatePlaces
<1>5. Cardinality(LateIn(seen, P, t) \cup {n + 1}) = Cardinality(LateIn(seen, P, t)) + 1
  BY <1>4, FS_AddElement
<1>6. QED
  BY <1>2, <1>3, <1>5

-----------------------------------------------------------------------------
(* The types of the trackers' lists. *)

TrackersInv == BehaviorTypeOK /\ DDoSTypeOK /\ ZeroDayTypeOK

\* The times of the lists are times.
LEMMA TrackerTypes ==
    ASSUME TrackersInv
    PROVE  /\ visits \in [IPs -> Seq(Paths)] /\ baseline \in Seq(Paths)
           /\ \A c \in IPs : rates[c] \in Seq(0..MaxTime) /\ rates[c] \in Seq(Nat)
           /\ times \in Seq(0..MaxTime) /\ times \in Seq(Nat)
           /\ \A c \in IPs : client_times[c] \in Seq(0..MaxTime) /\ client_times[c] \in Seq(Nat)
<1>1. ASSUME NEW list \in Seq(0..MaxTime)
      PROVE  list \in Seq(Nat)
  <2>1. \A x \in 0..MaxTime : x \in Nat
    BY TrafficAssumption
  <2> DEFINE Times == 0..MaxTime
  <2> HIDE DEF Times
  <2>2. list \in Seq(Times) /\ \A x \in Times : x \in Nat
    BY <2>1 DEF Times
  <2>3. QED
    BY <2>2
<1>2. /\ visits \in [IPs -> Seq(Paths)] /\ rates \in [IPs -> Seq(0..MaxTime)] /\ baseline \in Seq(Paths)
      /\ times \in Seq(0..MaxTime) /\ client_times \in [IPs -> Seq(0..MaxTime)]
  BY DEF TrackersInv, BehaviorTypeOK, DDoSTypeOK, ZeroDayTypeOK
<1>3. QED
  BY <1>1, <1>2

\* What the proofs need of the constants, and which times are kept.
LEMMA Windows ==
    /\ RateWindow \in Nat /\ FloodWindow \in Nat /\ FloodWindow > 0
    /\ KeepLast \in Nat /\ BaselineWindow \in Nat /\ BlockTime \in Nat
    /\ GlobalFlood \in Nat /\ ClientFlood \in Nat /\ RateLimit \in Nat /\ ScanThreshold \in Nat
    /\ \A list : Recent(list) = Kept(list, After(now - FloodWindow))
BY BehaviorAssumption, DDoSAssumption, ZeroDayAssumption DEF Recent, After

LEMMA FreshTimes ==
    ASSUME HistoryInv
    PROVE  Fresh = After(now - RateWindow)
<1>1. now \in Int /\ RateWindow \in Int
  BY HistoryPlaces, Windows
<1>2. \A x \in Int : now - x < RateWindow <=> x > now - RateWindow
  BY <1>1
<1>3. QED
  BY <1>2 DEF Fresh, After

LEMMA TrackersStep ==
    ASSUME TrackersInv, HistoryInv, NEW ip \in IPs, NEW path \in Paths, Judge(ip, path)
    PROVE  TrackersInv'
<1>1. now \in 0..MaxTime /\ now \in Nat
  BY HistoryPlaces
<1>2. BehaviorTypeOK'
  <2>1. CASE Runs("behavior")
    <3>1. /\ visits' = [visits EXCEPT ![ip] = Latest(Append(visits[ip], path), KeepLast)]
          /\ rates' = [rates EXCEPT ![ip] = Kept(Append(rates[ip], now), Fresh)]
          /\ stamps' = [stamps EXCEPT ![ip] = stamps[ip] + 1]
      BY <2>1 DEF Judge, Track
    <3> DEFINE paths == Append(visits[ip], path)
               stamped == Append(rates[ip], now)
    <3>2. paths \in Seq(Paths) /\ stamped \in Seq(0..MaxTime)
      BY <1>1, TrackerTypes
    <3> HIDE DEF paths, stamped
    <3>3. Latest(paths, KeepLast) \in Seq(Paths) /\ Len(Latest(paths, KeepLast)) <= KeepLast
      <4>1. KeepLast \in Nat
        BY Windows
      <4>2. Latest(paths, KeepLast) \in Seq(Paths) /\ Len(Latest(paths, KeepLast)) = Len(paths) - Cut(paths, KeepLast)
        BY <3>2, <4>1, LatestOnes
      <4>3. /\ Len(paths) \in Nat /\ Cut(paths, KeepLast) \in Nat
            /\ Len(paths) <= KeepLast => Cut(paths, KeepLast) = 0
            /\ Len(paths) > KeepLast => Cut(paths, KeepLast) + KeepLast = Len(paths)
        BY <3>2, <4>1, CutType
      <4>4. QED
        BY <4>1, <4>2, <4>3
    <3>4. Kept(stamped, Fresh) \in Seq(0..MaxTime)
      BY <3>2, KeptElements
    <3>5. /\ visits \in [IPs -> Seq(Paths)] /\ rates \in [IPs -> Seq(0..MaxTime)] /\ stamps \in [IPs -> Nat]
          /\ \A c \in IPs : Len(visits[c]) <= KeepLast
      BY DEF TrackersInv, BehaviorTypeOK
    <3>6. /\ visits' = [visits EXCEPT ![ip] = Latest(paths, KeepLast)]
          /\ rates' = [rates EXCEPT ![ip] = Kept(stamped, Fresh)]
      BY <3>1 DEF paths, stamped
    <3>7. visits' \in [IPs -> Seq(Paths)] /\ \A c \in IPs : Len(visits'[c]) <= KeepLast
      BY <3>3, <3>5, <3>6
    <3>8. rates' \in [IPs -> Seq(0..MaxTime)]
      BY <3>4, <3>5, <3>6
    <3>9. stamps' \in [IPs -> Nat]
      BY <3>1, <3>5
    <3>10. QED
      BY <3>7, <3>8, <3>9 DEF BehaviorTypeOK
  <2>2. CASE ~Runs("behavior")
    BY <2>2 DEF Judge, behaviorVars, TrackersInv, BehaviorTypeOK
  <2>3. QED
    BY <2>1, <2>2
<1>3. DDoSTypeOK'
  <2>1. CASE Runs("ddos_protection")
    <3>1. /\ times' = Append(Recent(times), now)
          /\ client_times' = [c \in IPs |-> IF c = ip THEN Append(Recent(client_times[c]), now)
                                            ELSE Recent(client_times[c])]
          /\ blocked_until' = Flooded(ip, client_times',
                                  [c \in IPs |-> IF now > blocked_until[c] THEN NotBlocked
                                                 ELSE blocked_until[c]])
      BY <2>1 DEF Judge, Record
    <3>2. ASSUME NEW list \in Seq(0..MaxTime)
          PROVE  Recent(list) \in Seq(0..MaxTime) /\ Append(Recent(list), now) \in Seq(0..MaxTime)
      <4>1. Recent(list) \in Seq(0..MaxTime)
        BY KeptElements, Windows
      <4> HIDE DEF Recent
      <4>2. QED
        BY <1>1, <4>1
    <3>3. times' \in Seq(0..MaxTime)
      BY <3>1, <3>2, TrackerTypes
    <3>4. client_times' \in [IPs -> Seq(0..MaxTime)]
      <4>1. \A c \in IPs : (IF c = ip THEN Append(Recent(client_times[c]), now) ELSE Recent(client_times[c]))
                                \in Seq(0..MaxTime)
        BY <3>2, TrackerTypes
      <4>2. QED
        BY <3>1, <4>1
    <3>5. blocked_until' \in [IPs -> Nat \cup {NotBlocked}]
      <4> DEFINE cleaned == [c \in IPs |-> IF now > blocked_until[c] THEN NotBlocked ELSE blocked_until[c]]
      <4>1. cleaned \in [IPs -> Nat \cup {NotBlocked}]
        BY DEF TrackersInv, DDoSTypeOK
      <4>2. now + BlockTime \in Nat
        BY <1>1, Windows
      <4>3. blocked_until' = cleaned \/ blocked_until' = [cleaned EXCEPT ![ip] = now + BlockTime]
        BY <3>1 DEF Flooded
      <4> HIDE DEF cleaned
      <4>4. QED
        BY <4>1, <4>2, <4>3
    <3>6. QED
      BY <3>3, <3>4, <3>5 DEF DDoSTypeOK
  <2>2. CASE ~Runs("ddos_protection")
    BY <2>2 DEF Judge, ddosVars, TrackersInv, DDoSTypeOK
  <2>3. QED
    BY <2>1, <2>2
<1>4. ZeroDayTypeOK'
  <2>1. CASE Runs("zero_day")
    <3> DEFINE more == Append(baseline, path)
    <3>1. baseline' = Latest(more, BaselineWindow)
      BY <2>1 DEF Judge, UpdateBaseline
    <3>2. more \in Seq(Paths) /\ BaselineWindow \in Nat
      BY TrackerTypes, Windows
    <3> HIDE DEF more
    <3>3. Latest(more, BaselineWindow) \in Seq(Paths) /\ Len(Latest(more, BaselineWindow)) = Len(more) - Cut(more, BaselineWindow)
      BY <3>2, LatestOnes
    <3>4. /\ Len(more) \in Nat /\ Cut(more, BaselineWindow) \in Nat
          /\ Len(more) <= BaselineWindow => Cut(more, BaselineWindow) = 0
          /\ Len(more) > BaselineWindow => Cut(more, BaselineWindow) + BaselineWindow = Len(more)
      BY <3>2, CutType
    <3>5. QED
      BY <3>1, <3>2, <3>3, <3>4 DEF ZeroDayTypeOK
  <2>2. CASE ~Runs("zero_day")
    BY <2>2 DEF Judge, TrackersInv, ZeroDayTypeOK
  <2>3. QED
    BY <2>1, <2>2
<1>5. QED
  BY <1>2, <1>3, <1>4 DEF TrackersInv

-----------------------------------------------------------------------------
(* The windows of request times. *)

CountsInv ==
    /\ \A c \in IPs : Agrees(rates[c], Mine("behavior", c), now - RateWindow)
    /\ Agrees(times, SeenBy("ddos_protection"), now - FloodWindow)
    /\ \A c \in IPs : Agrees(client_times[c], Mine("ddos_protection", c), now - FloodWindow)

\* A list that agrees with the history goes on to do so, recorded in or not.
LEMMA AgreesNext ==
    ASSUME HistoryInv, SettingsInv, NEW ip \in IPs, NEW path \in Paths, Judge(ip, path),
           NEW list \in Seq(Nat), NEW w \in Nat, NEW P \in SUBSET (1..Len(seen)),
           Agrees(list, P, now - w), NEW t \in Int, t >= now - w
    PROVE  LET forgot == Kept(list, After(now - w))
               count == Cardinality(LateIn(seen', P, t))
               counts == Cardinality(LateIn(seen', P \cup {Len(seen) + 1}, t))
           IN  /\ CountIn(list, After(t)) = count
               /\ CountIn(forgot, After(t)) = count
               /\ CountIn(Append(forgot, now), After(t)) = counts
               /\ CountIn(Kept(Append(list, now), After(now - w)), After(t)) = counts
<1>1. now \in Nat
  BY HistoryPlaces
<1>2. CountIn(list, After(t)) = Cardinality(LateIn(seen, P, t))
  BY DEF Agrees
<1>3. /\ Cardinality(LateIn(seen', P, t)) = Cardinality(LateIn(seen, P, t))
      /\ Cardinality(LateIn(seen', P \cup {Len(seen) + 1}, t))
            = IF now > t THEN Cardinality(LateIn(seen, P, t)) + 1 ELSE Cardinality(LateIn(seen, P, t))
  BY LateNext
<1>4. /\ CountIn(Kept(list, After(now - w)), After(t)) = CountIn(list, After(t))
      /\ CountIn(Append(Kept(list, After(now - w)), now), After(t))
            = IF now > t THEN CountIn(list, After(t)) + 1 ELSE CountIn(list, After(t))
      /\ CountIn(Kept(Append(list, now), After(now - w)), After(t))
            = IF now > t THEN CountIn(list, After(t)) + 1 ELSE CountIn(list, After(t))
  BY <1>1, CountRecorded
<1>5. QED
  BY <1>2, <1>3, <1>4

LEMMA CountsStep ==
    ASSUME CountsInv, TrackersInv, HistoryInv, SettingsInv,
           NEW ip \in IPs, NEW path \in Paths, Judge(ip, path)
    PROVE  CountsInv'
<1> DEFINE n == Len(seen)
<1>1. now' = now /\ now \in Nat
  BY HistoryNext, HistoryPlaces
<1>2. ASSUME NEW c \in IPs
      PROVE  Agrees(rates[c], Mine("behavior", c), now - RateWindow)'
  <2> SUFFICES ASSUME NEW t \in Int, t >= now' - RateWindow
               PROVE  CountIn(rates'[c], After(t)) = Cardinality(LateIn(seen', Mine("behavior", c)', t))
    BY DEF Agrees
  <2>1. t >= now - RateWindow /\ RateWindow \in Nat
    BY <1>1, Windows
  <2>2. rates[c] \in Seq(Nat) /\ Mine("behavior", c) \in SUBSET (1..Len(seen))
    BY TrackerTypes, HistoryPlaces
  <2>3. Agrees(rates[c], Mine("behavior", c), now - RateWindow)
    BY DEF CountsInv
  <2>4. Mine("behavior", c)' = IF Runs("behavior") /\ c = ip THEN Mine("behavior", c) \cup {n + 1} ELSE Mine("behavior", c)
    BY HistoryNext
  <2> DEFINE count == Cardinality(LateIn(seen', Mine("behavior", c), t))
             counts == Cardinality(LateIn(seen', Mine("behavior", c) \cup {n + 1}, t))
  <2>8. /\ CountIn(rates[c], After(t)) = count
      /\ CountIn(Kept(rates[c], After(now - RateWindow)), After(t)) = count
      /\ CountIn(Append(Kept(rates[c], After(now - RateWindow)), now), After(t)) = counts
      /\ CountIn(Kept(Append(rates[c], now), After(now - RateWindow)), After(t)) = counts
    <3> DEFINE list == rates[c]
               P == Mine("behavior", c)
               w == RateWindow
    <3>1. list \in Seq(Nat) /\ w \in Nat /\ P \in SUBSET (1..Len(seen)) /\ Agrees(list, P, now - w) /\ t >= now - w
      BY <2>1, <2>2, <2>3
    <3> HIDE DEF list, P, w
    <3>2. /\ CountIn(list, After(t)) = Cardinality(LateIn(seen', P, t))
          /\ CountIn(Kept(list, After(now - w)), After(t)) = Cardinality(LateIn(seen', P, t))
          /\ CountIn(Append(Kept(list, After(now - w)), now), After(t)) = Cardinality(LateIn(seen', P \cup {Len(seen) + 1}, t))
          /\ CountIn(Kept(Append(list, now), After(now - w)), After(t)) = Cardinality(LateIn(seen', P \cup {Len(seen) + 1}, t))
      BY <3>1, AgreesNext
    <3>3. QED
      BY <3>2 DEF list, P, w
  <2>5. CASE Runs("behavior") /\ c = ip
    <3>1. rates'[c] = Kept(Append(rates[c], now), After(now - RateWindow))
      <4>1. rates' = [rates EXCEPT ![ip] = Kept(Append(rates[ip], now), Fresh)]
        BY <2>5 DEF Judge, Track
      <4>2. rates \in [IPs -> Seq(0..MaxTime)]
        BY DEF TrackersInv, BehaviorTypeOK
      <4>3. QED
        BY <2>5, <4>1, <4>2, FreshTimes
    <3>2. QED
      BY <2>4, <2>5, <2>8, <3>1
  <2>6. CASE ~(Runs("behavior") /\ c = ip)
    <3>1. rates'[c] = rates[c]
      <4>1. rates \in [IPs -> Seq(0..MaxTime)]
        BY DEF TrackersInv, BehaviorTypeOK
      <4>2. \/ rates' = [rates EXCEPT ![ip] = Kept(Append(rates[ip], now), Fresh)] /\ c # ip
            \/ rates' = rates
        BY <2>6 DEF Judge, Track, behaviorVars
      <4>3. QED
        BY <4>1, <4>2
    <3>2. QED
      BY <2>4, <2>6, <2>8, <3>1
  <2>7. QED
    BY <2>5, <2>6
<1>3. Agrees(times, SeenBy("ddos_protection"), now - FloodWindow)'
  <2> SUFFICES ASSUME NEW t \in Int, t >= now' - FloodWindow
               PROVE  CountIn(times', After(t)) = Cardinality(LateIn(seen', SeenBy("ddos_protection")', t))
    BY DEF Agrees
  <2>1. t >= now - FloodWindow /\ FloodWindow \in Nat
    BY <1>1, Windows
  <2>2. times \in Seq(Nat) /\ SeenBy("ddos_protection") \in SUBSET (1..Len(seen))
    BY TrackerTypes, HistoryPlaces
  <2>3. Agrees(times, SeenBy("ddos_protection"), now - FloodWindow)
    BY DEF CountsInv
  <2>4. SeenBy("ddos_protection")' = IF Runs("ddos_protection") THEN SeenBy("ddos_protection") \cup {n + 1}
                                     ELSE SeenBy("ddos_protection")
    BY HistoryNext
  <2> DEFINE count == Cardinality(LateIn(seen', SeenBy("ddos_protection"), t))
             counts == Cardinality(LateIn(seen', SeenBy("ddos_protection") \cup {n + 1}, t))
  <2>7. /\ CountIn(times, After(t)) = count
      /\ CountIn(Kept(times, After(now - FloodWindow)), After(t)) = count
      /\ CountIn(Append(Kept(times, After(now - FloodWindow)), now), After(t)) = counts
      /\ CountIn(Kept(Append(times, now), After(now - FloodWindow)), After(t)) = counts
    <3> DEFINE list == times
               P == SeenBy("ddos_protection")
               w == FloodWindow
    <3>1. list \in Seq(Nat) /\ w \in Nat /\ P \in SUBSET (1..Len(seen)) /\ Agrees(list, P, now - w) /\ t >= now - w
      BY <2>1, <2>2, <2>3
    <3> HIDE DEF list, P, w
    <3>2. /\ CountIn(list, After(t)) = Cardinality(LateIn(seen', P, t))
          /\ CountIn(Kept(list, After(now - w)), After(t)) = Cardinality(LateIn(seen', P, t))
          /\ CountIn(Append(Kept(list, After(now - w)), now), After(t)) = Cardinality(LateIn(seen', P \cup {Len(seen) + 1}, t))
          /\ CountIn(Kept(Append(list, now), After(now - w)), After(t)) = Cardinality(LateIn(seen', P \cup {Len(seen) + 1}, t))
      BY <3>1, AgreesNext
    <3>3. QED
      BY <3>2 DEF list, P, w
  <2>5. times' = IF Runs("ddos_protection") THEN Append(Kept(times, After(now - FloodWindow)), now) ELSE times
    BY Windows DEF Judge, Record, ddosVars
  <2>6. QED
    BY <2>4, <2>5, <2>7
<1>4. ASSUME NEW c \in IPs
      PROVE  Agrees(client_times[c], Mine("ddos_protection", c), now - FloodWindow)'
  <2> SUFFICES ASSUME NEW t \in Int, t >= now' - FloodWindow
               PROVE  CountIn(client_times'[c], After(t)) = Cardinality(LateIn(seen', Mine("ddos_protection", c)', t))
    BY DEF Agrees
  <2>1. t >= now - FloodWindow /\ FloodWindow \in Nat
    BY <1>1, Windows
  <2>2. client_times[c] \in Seq(Nat) /\ Mine("ddos_protection", c) \in SUBSET (1..Len(seen))
    BY TrackerTypes, HistoryPlaces
  <2>3. Agrees(client_times[c], Mine("ddos_protection", c), now - FloodWindow)
    BY DEF CountsInv
  <2>4. Mine("ddos_protection", c)' = IF Runs("ddos_protection") /\ c = ip THEN Mine("ddos_protection", c) \cup {n + 1}
                                     ELSE Mine("ddos_protection", c)
    BY HistoryNext
  <2> DEFINE count == Cardinality(LateIn(seen', Mine("ddos_protection", c), t))
             counts == Cardinality(LateIn(seen', Mine("ddos_protection", c) \cup {n + 1}, t))
  <2>7. /\ CountIn(client_times[c], After(t)) = count
      /\ CountIn(Kept(client_times[c], After(now - FloodWindow)), After(t)) = count
      /\ CountIn(Append(Kept(client_times[c], After(now - FloodWindow)), now), After(t)) = counts
      /\ CountIn(Kept(Append(client_times[c], now), After(now - FloodWindow)), After(t)) = counts
    <3> DEFINE list == client_times[c]
               P == Mine("ddos_protection", c)
               w == FloodWindow
    <3>1. list \in Seq(Nat) /\ w \in Nat /\ P \in SUBSET (1..Len(seen)) /\ Agrees(list, P, now - w) /\ t >= now - w
      BY <2>1, <2>2, <2>3
    <3> HIDE DEF list, P, w
    <3>2. /\ CountIn(list, After(t)) = Cardinality(LateIn(seen', P, t))
          /\ CountIn(Kept(list, After(now - w)), After(t)) = Cardinality(LateIn(seen', P, t))
          /\ CountIn(Append(Kept(list, After(now - w)), now), After(t)) = Cardinality(LateIn(seen', P \cup {Len(seen) + 1}, t))
          /\ CountIn(Kept(Append(list, now), After(now - w)), After(t)) = Cardinality(LateIn(seen', P \cup {Len(seen) + 1}, t))
      BY <3>1, AgreesNext
    <3>3. QED
      BY <3>2 DEF list, P, w
  <2>5. client_times'[c] = IF ~Runs("ddos_protection") THEN client_times[c]
                           ELSE IF c = ip THEN Append(Kept(client_times[c], After(now - FloodWindow)), now)
                           ELSE Kept(client_times[c], After(now - FloodWindow))
    BY Windows DEF Judge, Record, ddosVars
  <2>6. QED
    BY <2>4, <2>5, <2>7
<1>5. QED
  BY <1>2, <1>3, <1>4 DEF CountsInv

\* As time passes, only more recent requests are asked for.
LEMMA CountsQuiet ==
    ASSUME CountsInv, HistoryInv, Quiet, behaviorVars' = behaviorVars, ddosVars' = ddosVars
    PROVE  CountsInv'
<1>1. now \in Nat /\ now' \in Nat /\ now' >= now /\ seen' = seen
  BY HistoryPlaces, QuietSteps, TrafficAssumption DEF Quiet
<1>2. ASSUME NEW list, NEW P, NEW w \in Nat, Agrees(list, P, now - w)
      PROVE  \A t \in Int : t >= now' - w => CountIn(list, After(t)) = Cardinality(LateIn(seen', P, t))
  <2>1. \A t \in Int : t >= now' - w => t >= now - w
    <3> DEFINE a == now
               b == now'
    <3>1. a \in Nat /\ b \in Nat /\ b >= a
      BY <1>1
    <3> HIDE DEF a, b
    <3>2. \A t \in Int : t >= b - w => t >= a - w
      BY <3>1
    <3>3. QED
      BY <3>2 DEF a, b
  <2>2. \A t \in Int : t >= now - w => CountIn(list, After(t)) = Cardinality(LateIn(seen, P, t))
    BY <1>2 DEF Agrees
  <2>3. \A t : LateIn(seen, P, t) = LateIn(seen', P, t)
    BY <1>1 DEF LateIn
  <2>4. QED
    BY <2>1, <2>2, <2>3
<1>3. rates' = rates /\ times' = times /\ client_times' = client_times
  BY DEF behaviorVars, ddosVars
<1>4. \A s, c : SeenBy(s)' = SeenBy(s) /\ Mine(s, c)' = Mine(s, c)
  BY <1>1 DEF SeenBy, Mine, OfClient
<1>5. RateWindow \in Nat /\ FloodWindow \in Nat
  BY Windows
<1>6. ASSUME NEW c \in IPs
      PROVE  Agrees(rates[c], Mine("behavior", c), now - RateWindow)'
  BY <1>2, <1>3, <1>4, <1>5 DEF CountsInv, Agrees
<1>7. Agrees(times, SeenBy("ddos_protection"), now - FloodWindow)'
  BY <1>2, <1>3, <1>4, <1>5 DEF CountsInv, Agrees
<1>8. ASSUME NEW c \in IPs
      PROVE  Agrees(client_times[c], Mine("ddos_protection", c), now - FloodWindow)'
  BY <1>2, <1>3, <1>4, <1>5 DEF CountsInv, Agrees
<1>9. QED
  BY <1>6, <1>7, <1>8 DEF CountsInv

-----------------------------------------------------------------------------
(* What the analysis of a request returns. *)

LEMMA Judged ==
    ASSUME SettingsInv, NEW ip \in IPs, NEW path \in Paths, Judge(ip, path)
    PROVE  \E alarms \in SUBSET {"rate", "path", "scan", "trace", "bot"} :
              /\ alarms \ {"bot"} = FoundAlarms(ip, path, visits'[ip], rates'[ip])
              /\ last'.votes = [i \in 1..Len(running) |-> VoteOf(running[i], ip, path, alarms)]
              /\ last'.alarms = IF Runs("behavior") THEN alarms ELSE {}
<1>1. PICK extra \in SUBSET PossibleAlarms(stamps'[ip]) :
        LET alarms == FoundAlarms(ip, path, visits'[ip], rates'[ip]) \cup extra
        IN  last' = [votes |-> [i \in 1..Len(running) |-> VoteOf(running[i], ip, path, alarms)],
                     alarms |-> IF Runs("behavior") THEN alarms ELSE {}]
  BY DEF Judge
<1> DEFINE found == FoundAlarms(ip, path, visits'[ip], rates'[ip])
           alarms == found \cup extra
<1>2. found \in SUBSET {"rate", "path", "scan", "trace"}
  BY DEF FoundAlarms
<1>3. extra \in SUBSET {"bot"}
  BY DEF PossibleAlarms
<1> HIDE DEF found
<1>4. alarms \in SUBSET {"rate", "path", "scan", "trace", "bot"} /\ alarms \ {"bot"} = found
  BY <1>2, <1>3
<1>5. last' = [votes |-> [i \in 1..Len(running) |-> VoteOf(running[i], ip, path, alarms)],
               alarms |-> IF Runs("behavior") THEN alarms ELSE {}]
  BY <1>1 DEF found
<1> HIDE DEF alarms
<1>6. /\ last'.votes = [i \in 1..Len(running) |-> VoteOf(running[i], ip, path, alarms)]
      /\ last'.alarms = IF Runs("behavior") THEN alarms ELSE {}
  BY <1>5
<1>7. QED
  BY <1>4, <1>6 DEF found

LEMMA VotesGood ==
    ASSUME SettingsInv, NEW ip \in IPs, NEW path \in Paths, Judge(ip, path)
    PROVE  VotesInv'
<1>1. PICK alarms \in SUBSET {"rate", "path", "scan", "trace", "bot"} :
        last'.votes = [i \in 1..Len(running) |-> VoteOf(running[i], ip, path, alarms)]
  BY Judged
<1>2. \A i \in 1..Len(running) : running[i] \in Strategies
  BY RunningFew, Elements
<1>3. Len(running) \in Nat /\ Len(running) <= 5
  BY RunningFew
<1>4. ASSUME NEW s \in Strategies
      PROVE  GoodVote(VoteOf(s, ip, path, alarms))
  <2>1. CASE s = "signature"
    <3>1. VoteOf(s, ip, path, alarms) = SignatureVote(Contents[path], off)
      BY <2>1 DEF VoteOf
    <3>2. QED
      BY <3>1, MatchersVoteGood
  <2>2. CASE s = "behavior"
    <3>1. VoteOf(s, ip, path, alarms) = BehaviorVote(alarms)
      BY <2>2 DEF VoteOf
    <3>2. QED
      BY <3>1, BehaviorVoteGood
  <2>3. CASE s = "header_validation"
    <3>1. VoteOf(s, ip, path, alarms) = HeaderVote(Contents[path], off)
      BY <2>3 DEF VoteOf
    <3>2. QED
      BY <3>1, MatchersVoteGood
  <2>4. CASE s = "zero_day"
    <3>1. VoteOf(s, ip, path, alarms) = ZeroDayVote(baseline', path)
      BY <2>4 DEF VoteOf
    <3>2. QED
      BY <3>1, ZeroDayVoteGood
  <2>5. CASE s = "ddos_protection"
    <3> DEFINE alerts == Alerts(ip, times', client_times', blocked_until')
    <3>1. VoteOf(s, ip, path, alarms) = DDoSVote(alerts)
      BY <2>5 DEF VoteOf
    <3>2. alerts \in SUBSET {"global", "client", "blocked", "distributed"}
      BY DEF Alerts
    <3> HIDE DEF alerts
    <3>3. QED
      BY <3>1, <3>2, DDoSVoteGood
  <2>6. QED
    BY <2>1, <2>2, <2>3, <2>4, <2>5 DEF Strategies
<1> DEFINE votes == last'.votes
<1>5. \A i \in 1..Len(running) : GoodVote(VoteOf(running[i], ip, path, alarms))
  BY <1>2, <1>4
<1>6. votes \in Seq(Vote) /\ Len(votes) = Len(running) /\ \A i \in 1..Len(running) : GoodVote(votes[i])
  <2>1. \A i \in 1..Len(running) : VoteOf(running[i], ip, path, alarms) \in Vote
    BY <1>5 DEF GoodVote
  <2>2. QED
    BY <1>1, <1>3, <1>5, <2>1
<1>7. QED
  BY <1>3, <1>6 DEF VotesInv

\* The vote of a strategy is found by its name.
LEMMA VoteFound ==
    ASSUME SettingsInv, HistoryInv, NEW ip \in IPs, NEW path \in Paths, Judge(ip, path),
           NEW alarms, last'.votes = [i \in 1..Len(running) |-> VoteOf(running[i], ip, path, alarms)],
           NEW s, Runs(s)
    PROVE  VoteIn(s)' = VoteOf(s, ip, path, alarms)
<1>1. seen'[Len(seen')].by = ToSet(running)
  <2>1. /\ Len(seen') = Len(seen) + 1
        /\ seen'[Len(seen) + 1] = [ip |-> ip, path |-> path, at |-> now, by |-> ToSet(running)]
    BY HistoryNext
  <2>2. QED
    BY <2>1
<1>2. Kept(Order, ToSet(running)) = running
  <2>1. PICK S : running = Kept(Order, S)
    BY DEF SettingsInv
  <2>2. ToSet(running) = ToSet(Order) \cap S
    BY <2>1, OrderType, KeptElements
  <2>3. ToSet(Order) \cap ToSet(running) = ToSet(Order) \cap S
    BY <2>2
  <2>4. QED
    BY <2>1, <2>3, OrderType, KeptSame
<1> DEFINE k == CHOOSE j \in 1..Len(running) : running[j] = s
<1>3. VoteIn(s)' = last'.votes[k]
  BY <1>1, <1>2 DEF VoteIn
<1>4. \E j \in 1..Len(running) : running[j] = s
  <2>1. running \in Seq(Strategies) /\ s \in ToSet(running)
    BY RunningFew DEF Runs
  <2>2. QED
    BY <2>1, Elements
<1>5. k \in 1..Len(running) /\ running[k] = s
  BY <1>4
<1> HIDE DEF k
<1>6. QED
  BY <1>3, <1>5

-----------------------------------------------------------------------------
(* The flood detector. *)

\* A client is locked out exactly for BlockTime after each of its floods.
LockoutsInv ==
    \A c \in IPs, t \in Int : t >= now =>
        (blocked_until[c] >= t <=>
            \E i \in Mine("ddos_protection", c) : Floods(i) /\ seen[i].at + BlockTime >= t)

\* An earlier request floods or not, whatever comes later.
LEMMA FloodsStay ==
    ASSUME HistoryInv, SettingsInv, NEW ip \in IPs, NEW path \in Paths, Judge(ip, path),
           NEW i \in 1..Len(seen)
    PROVE  Floods(i)' <=> Floods(i)
<1> DEFINE n == Len(seen)
           d == "ddos_protection"
<1>1. n \in Nat /\ \A j \in 1..n : seen'[j] = seen[j]
  BY HistoryNext, HistoryPlaces
<1>2. SeenBy(d)' = SeenBy(d) \/ SeenBy(d)' = SeenBy(d) \cup {n + 1}
  BY HistoryNext
<1>3. SeenBy(d) \in SUBSET (1..n)
  BY HistoryPlaces
<1>4. InWindow(d, i, FloodWindow)' = {j \in SeenBy(d)' : j <= i /\ seen'[i].at - seen'[j].at < FloodWindow}
  BY DEF InWindow
<1>5. InWindow(d, i, FloodWindow) = {j \in SeenBy(d) : j <= i /\ seen[i].at - seen[j].at < FloodWindow}
  BY DEF InWindow
<1>6. \A j : (j \in SeenBy(d)' /\ j <= i) <=> (j \in SeenBy(d) /\ j <= i)
  <2>1. ~(n + 1 <= i)
    BY <1>1
  <2>2. QED
    BY <1>2, <2>1
<1>7. InWindow(d, i, FloodWindow)' = InWindow(d, i, FloodWindow)
  <2>1. \A j \in SeenBy(d) : seen'[j] = seen[j]
    BY <1>1, <1>3
  <2>2. seen'[i] = seen[i]
    BY <1>1
  <2>3. QED
    BY <1>4, <1>5, <1>6, <2>1, <2>2
<1>8. OfClient(InWindow(d, i, FloodWindow), seen[i].ip)' = OfClient(InWindow(d, i, FloodWindow), seen[i].ip)
  <2>1. InWindow(d, i, FloodWindow) \subseteq 1..n
    BY <1>3, <1>5
  <2>2. QED
    BY <1>1, <1>7, <2>1 DEF OfClient
<1>9. QED
  BY <1>8 DEF Floods

\* What is in the lists after a record: the requests of the window.
LEMMA Recorded ==
    ASSUME CountsInv, CountsInv', TrackersInv, TrackersInv', HistoryInv, HistoryInv', SettingsInv,
           NEW ip \in IPs, NEW path \in Paths, Judge(ip, path), Runs("ddos_protection")
    PROVE  LET n == Len(seen')
               all == InWindow("ddos_protection", Len(seen), FloodWindow)'
           IN  /\ Len(times') = Cardinality(all)
               /\ \A c \in IPs : Len(client_times'[c]) = Cardinality({j \in all : seen'[j].ip = c})
               /\ {c \in IPs : client_times'[c] # <<>>} = {seen'[i].ip : i \in all}
               /\ IsFiniteSet(all) /\ all \subseteq 1..n
<1> DEFINE n == Len(seen')
           d == "ddos_protection"
           from == now - FloodWindow
           all == InWindow(d, Len(seen), FloodWindow)'
<1>1. /\ n = Len(seen) + 1 /\ n \in Nat /\ now' = now /\ now \in Nat
      /\ seen'[n].at = now
  <2>1. Len(seen') = Len(seen) + 1 /\ now' = now /\ Len(seen) \in Nat /\ now \in Nat
    BY HistoryNext, HistoryPlaces
  <2>2. seen'[Len(seen) + 1] = [ip |-> ip, path |-> path, at |-> now, by |-> ToSet(running)]
    BY HistoryNext
  <2>3. QED
    BY <2>1, <2>2
<1>2. /\ SeenBy(d)' \in SUBSET (1..n) /\ \A c : Mine(d, c)' \in SUBSET (1..n)
      /\ \A i \in 1..n : seen'[i].at \in Nat /\ seen'[i].ip \in IPs
  <2>1. \A i \in 1..n : seen'[i] \in Request
    <3>1. seen' \in Seq(Request)
      BY DEF HistoryInv
    <3>2. QED
      BY <3>1
  <2>2. \A i \in 1..n : seen'[i].at \in Nat /\ seen'[i].ip \in IPs
    BY <2>1, TrafficAssumption DEF Request
  <2>3. QED
    BY <2>2 DEF SeenBy, Mine, OfClient
<1>3. from \in Int /\ from < now /\ FloodWindow \in Nat
  BY <1>1, Windows
<1>4. all = LateIn(seen', SeenBy(d)', from)
  <2>1. all = {j \in SeenBy(d)' : j <= n /\ seen'[n].at - seen'[j].at < FloodWindow}
    BY DEF InWindow
  <2>2. \A j \in SeenBy(d)' : /\ j <= n
                              /\ seen'[n].at - seen'[j].at < FloodWindow <=> seen'[j].at > from
    <3> SUFFICES ASSUME NEW j \in SeenBy(d)'
                 PROVE  j <= n /\ (seen'[n].at - seen'[j].at < FloodWindow <=> seen'[j].at > from)
      OBVIOUS
    <3>1. j \in 1..n /\ seen'[j].at \in Nat
      BY <1>2
    <3>2. QED
      BY <1>1, <1>3, <3>1
  <2> HIDE DEF from, n
  <2>3. QED
    BY <2>1, <2>2 DEF LateIn
<1>5. /\ times' = Append(Kept(times, After(from)), now)
      /\ \A c \in IPs : client_times'[c] = IF c = ip THEN Append(Kept(client_times[c], After(from)), now)
                                           ELSE Kept(client_times[c], After(from))
  BY Windows DEF Judge, Record
<1> HIDE DEF from, n
<1>6. ASSUME NEW list \in Seq(Nat)
      PROVE  /\ CountIn(Kept(list, After(from)), After(from)) = Len(Kept(list, After(from)))
             /\ CountIn(Append(Kept(list, After(from)), now), After(from)) = Len(Append(Kept(list, After(from)), now))
             /\ Kept(list, After(from)) \in Seq(Nat)
  <2> DEFINE kept == Kept(list, After(from))
             more == Append(kept, now)
  <2>1. kept \in Seq(Nat) /\ ToSet(kept) \subseteq After(from)
    BY KeptElements
  <2> HIDE DEF kept
  <2>2. more \in Seq(Nat) /\ ToSet(more) = ToSet(kept) \cup {now}
    BY <1>1, <2>1, Appended
  <2>3. now \in After(from)
    BY <1>1, <1>3 DEF After
  <2>4. ToSet(more) \subseteq After(from)
    BY <2>1, <2>2, <2>3
  <2> HIDE DEF more
  <2>5. CountIn(kept, After(from)) = Len(kept) /\ CountIn(more, After(from)) = Len(more)
    BY <2>1, <2>2, <2>4, CountAll
  <2>6. QED
    BY <2>1, <2>5 DEF kept, more
<1>7. Len(times') = Cardinality(all)
  <2>1. CountIn(times', After(from)) = Len(times')
    BY <1>5, <1>6, TrackerTypes
  <2>2. CountIn(times', After(from)) = Cardinality(LateIn(seen', SeenBy(d)', from))
    <3>1. Agrees(times, SeenBy(d), now - FloodWindow)'
      BY DEF CountsInv
    <3>2. \A t \in Int : t >= now' - FloodWindow => CountIn(times', After(t)) = Cardinality(LateIn(seen', SeenBy(d)', t))
      BY <3>1 DEF Agrees
    <3>3. from >= now' - FloodWindow
      BY <1>1, <1>3 DEF from
    <3>4. QED
      BY <1>3, <3>2, <3>3
  <2>3. QED
    BY <1>4, <2>1, <2>2
<1>8. ASSUME NEW c \in IPs
      PROVE  Len(client_times'[c]) = Cardinality({j \in all : seen'[j].ip = c})
  <2>1. CountIn(client_times'[c], After(from)) = Len(client_times'[c])
    BY <1>5, <1>6, TrackerTypes
  <2>2. CountIn(client_times'[c], After(from)) = Cardinality(LateIn(seen', Mine(d, c)', from))
    <3>1. Agrees(client_times[c], Mine(d, c), now - FloodWindow)'
      BY DEF CountsInv
    <3>2. \A t \in Int : t >= now' - FloodWindow => CountIn(client_times'[c], After(t)) = Cardinality(LateIn(seen', Mine(d, c)', t))
      BY <3>1 DEF Agrees
    <3>3. from >= now' - FloodWindow
      BY <1>1, <1>3 DEF from
    <3>4. QED
      BY <1>3, <3>2, <3>3
  <2>3. LateIn(seen', Mine(d, c)', from) = {j \in all : seen'[j].ip = c}
    BY <1>4 DEF Mine, OfClient, LateIn
  <2>4. QED
    BY <2>1, <2>2, <2>3
<1>9. IsFiniteSet(all) /\ all \subseteq 1..n
  <2>1. all \subseteq 1..n
    BY <1>2, <1>4 DEF LateIn
  <2>2. IsFiniteSet(1..n)
    BY <1>1, FS_Interval
  <2>3. QED
    BY <2>1, <2>2, FS_Subset
<1> HIDE DEF all
<1>10. {c \in IPs : client_times'[c] # <<>>} = {seen'[i].ip : i \in all}
  <2>1. ASSUME NEW c \in IPs
        PROVE  client_times'[c] # <<>> <=> \E j \in all : seen'[j].ip = c
    <3> DEFINE own == {j \in all : seen'[j].ip = c}
    <3>1. client_times'[c] \in Seq(Nat)
      <4>1. Kept(client_times[c], After(from)) \in Seq(Nat)
        BY <1>6, TrackerTypes
      <4>2. \A kept \in Seq(Nat) : Append(kept, now) \in Seq(Nat)
        BY <1>1
      <4>3. QED
        BY <1>5, <4>1, <4>2
    <3>2. IsFiniteSet(own)
      BY <1>9, FS_Subset
    <3>3. Cardinality(own) = 0 <=> own = {}
      BY <3>2, FS_EmptySet
    <3>4. Len(client_times'[c]) = Cardinality(own)
      BY <1>8
    <3>5. Len(client_times'[c]) = 0 <=> client_times'[c] = <<>>
      BY <3>1
    <3>6. QED
      BY <3>3, <3>4, <3>5
  <2>2. \A j \in all : seen'[j].ip \in IPs
    BY <1>2, <1>9
  <2>3. QED
    BY <2>1, <2>2
<1>11. QED
  BY <1>7, <1>8, <1>9, <1>10 DEF all, n

\* The request that floods is the one whose client has too many in its list.
LEMMA FloodsNow ==
    ASSUME CountsInv, CountsInv', TrackersInv, TrackersInv', HistoryInv, HistoryInv', SettingsInv,
           NEW ip \in IPs, NEW path \in Paths, Judge(ip, path), Runs("ddos_protection")
    PROVE  LET n == Len(seen')
           IN  /\ n = Len(seen) + 1 /\ seen'[n].at = now /\ seen'[n].ip = ip
               /\ Cardinality(OfClient(InWindow("ddos_protection", Len(seen), FloodWindow), seen[Len(seen)].ip)') > ClientFlood
                    <=> Len(client_times'[ip]) > ClientFlood
<1>1. Len(seen') = Len(seen) + 1 /\ seen'[Len(seen) + 1] = [ip |-> ip, path |-> path, at |-> now, by |-> ToSet(running)]
  BY HistoryNext
<1>2. seen'[Len(seen')].ip = ip /\ seen'[Len(seen')].at = now
  BY <1>1
<1>3. OfClient(InWindow("ddos_protection", Len(seen), FloodWindow), seen[Len(seen)].ip)'
        = {j \in InWindow("ddos_protection", Len(seen), FloodWindow)' : seen'[j].ip = ip}
  BY <1>2 DEF OfClient
<1>4. Len(client_times'[ip]) = Cardinality({j \in InWindow("ddos_protection", Len(seen), FloodWindow)' : seen'[j].ip = ip})
  BY Recorded
<1>5. QED
  BY <1>1, <1>2, <1>3, <1>4

LEMMA LockoutsStep ==
    ASSUME LockoutsInv, CountsInv, CountsInv', TrackersInv, TrackersInv', HistoryInv, HistoryInv', SettingsInv,
           NEW ip \in IPs, NEW path \in Paths, Judge(ip, path)
    PROVE  LockoutsInv'
<1> DEFINE d == "ddos_protection"
<1>0. PICK n : n = Len(seen)
  OBVIOUS
<1>1. n \in Nat /\ now \in Nat /\ now' = now /\ BlockTime \in Nat
  BY <1>0, HistoryNext, HistoryPlaces, Windows
<1>2. /\ \A i \in 1..n : seen'[i] = seen[i] /\ seen[i].at \in Nat /\ seen[i].at <= now
      /\ seen'[n + 1].at = now
  <2>1. /\ \A i \in 1..n : seen'[i] = seen[i]
        /\ seen'[n + 1] = [ip |-> ip, path |-> path, at |-> now, by |-> ToSet(running)]
    BY <1>0, HistoryNext
  <2>2. QED
    BY <1>0, <2>1, HistoryPlaces
<1>3. \A i \in 1..n : Floods(i)' <=> Floods(i)
  BY <1>0, FloodsStay
<1>4. \A c : Mine(d, c) \in SUBSET (1..n)
  BY <1>0, HistoryPlaces
<1>5. \A c : Mine(d, c)' = IF Runs(d) /\ c = ip THEN Mine(d, c) \cup {n + 1} ELSE Mine(d, c)
  BY <1>0, HistoryNext
<1> DEFINE OldFlood(c, t) == \E i \in Mine(d, c) : Floods(i) /\ seen[i].at + BlockTime >= t
           NewFlood(c, t) == \E i \in Mine(d, c)' : Floods(i)' /\ seen'[i].at + BlockTime >= t
<1>6. \A c, t : (\E i \in Mine(d, c) : Floods(i)' /\ seen'[i].at + BlockTime >= t) <=> OldFlood(c, t)
  BY <1>2, <1>3, <1>4
<1>7. \A c \in IPs, t \in Int : t >= now => (blocked_until[c] >= t <=> OldFlood(c, t))
  BY DEF LockoutsInv
<1>8. SUFFICES ASSUME NEW c \in IPs, NEW t \in Int, t >= now
               PROVE  blocked_until'[c] >= t <=> NewFlood(c, t)
  BY <1>1 DEF LockoutsInv
<1>9. blocked_until[c] \in Int /\ (blocked_until[c] \in Nat \/ blocked_until[c] = -1)
  BY DEF TrackersInv, DDoSTypeOK, NotBlocked
<1> HIDE DEF d
<1>10. CASE ~Runs(d)
  <2>1. blocked_until' = blocked_until /\ Mine(d, c)' = Mine(d, c)
    BY <1>5, <1>10 DEF Judge, ddosVars, d
  <2>2. NewFlood(c, t) <=> OldFlood(c, t)
    BY <1>6, <2>1
  <2>3. QED
    BY <1>7, <1>8, <2>1, <2>2
<1>11. CASE Runs(d)
  <2> DEFINE flooded == Len(client_times'[ip]) > ClientFlood
             cleaned == IF now > blocked_until[c] THEN -1 ELSE blocked_until[c]
  <2>1. blocked_until'[c] = IF flooded /\ c = ip THEN now + BlockTime ELSE cleaned
    <3>1. blocked_until' = Flooded(ip, client_times', [b \in IPs |-> IF now > blocked_until[b] THEN NotBlocked
                                                                     ELSE blocked_until[b]])
      BY <1>11 DEF Judge, Record, d
    <3>2. QED
      BY <3>1 DEF Flooded, NotBlocked
  <2>2. cleaned >= t <=> blocked_until[c] >= t
    BY <1>1, <1>8, <1>9
  <2>3. cleaned >= t <=> OldFlood(c, t)
    BY <1>7, <1>8, <2>2
  <2>4. Floods(n + 1)' <=> flooded
    <3>1. Floods(n + 1)' <=> Cardinality(OfClient(InWindow("ddos_protection", Len(seen), FloodWindow), seen[Len(seen)].ip)') > ClientFlood
      <4>1. Len(seen') = n + 1
        BY <1>0, HistoryNext
      <4>2. QED
        BY <4>1 DEF Floods, InWindow, OfClient
    <3>2. QED
      BY <1>11, <3>1, FloodsNow DEF d
  <2> HIDE DEF flooded, cleaned
  <2>5. CASE c # ip
    <3>1. Mine(d, c)' = Mine(d, c) /\ blocked_until'[c] = cleaned
      BY <1>5, <2>1, <2>5
    <3>2. NewFlood(c, t) <=> OldFlood(c, t)
      BY <1>6, <3>1
    <3>3. QED
      BY <2>3, <3>1, <3>2
  <2>6. CASE c = ip
    <3>1. Mine(d, c)' = Mine(d, c) \cup {n + 1}
      BY <1>5, <1>11, <2>6
    <3>2. NewFlood(c, t) <=> OldFlood(c, t) \/ (flooded /\ now + BlockTime >= t)
      <4>1. NewFlood(c, t) <=> \/ \E i \in Mine(d, c) : Floods(i)' /\ seen'[i].at + BlockTime >= t
                               \/ Floods(n + 1)' /\ seen'[n + 1].at + BlockTime >= t
        BY <3>1
      <4>2. seen'[n + 1].at = now
        BY <1>2
      <4>3. QED
        BY <1>6, <2>4, <4>1, <4>2
    <3>3. CASE ~flooded
      BY <2>1, <2>3, <3>2, <3>3
    <3>4. CASE flooded
      <4>1. blocked_until'[c] = now + BlockTime
        BY <2>1, <2>6, <3>4
      <4>2. OldFlood(c, t) => now + BlockTime >= t
        <5> SUFFICES ASSUME NEW i \in Mine(d, c), seen[i].at + BlockTime >= t
                     PROVE  now + BlockTime >= t
          OBVIOUS
        <5>1. seen[i].at \in Nat /\ seen[i].at <= now
          BY <1>2, <1>4
        <5>2. QED
          BY <1>1, <5>1
      <4>3. QED
        BY <3>2, <3>4, <4>1, <4>2
    <3>5. QED
      BY <3>3, <3>4
  <2>7. QED
    BY <2>5, <2>6
<1>12. QED
  BY <1>10, <1>11

LEMMA LockoutsQuiet ==
    ASSUME LockoutsInv, HistoryInv, Quiet, ddosVars' = ddosVars
    PROVE  LockoutsInv'
<1>1. now \in Nat /\ now' \in Nat /\ now' >= now /\ seen' = seen /\ blocked_until' = blocked_until
  BY HistoryPlaces, TrafficAssumption DEF Quiet, ddosVars
<1>2. \A c : Mine("ddos_protection", c)' = Mine("ddos_protection", c)
  BY <1>1 DEF Mine, OfClient, SeenBy
<1>3. \A i : Floods(i)' <=> Floods(i)
  BY <1>1 DEF Floods, InWindow, OfClient, SeenBy
<1>4. \A t \in Int : t >= now' => t >= now
  <2> DEFINE a == now
             b == now'
  <2>1. a \in Nat /\ b \in Nat /\ b >= a
    BY <1>1
  <2> HIDE DEF a, b
  <2>2. \A t \in Int : t >= b => t >= a
    BY <2>1
  <2>3. QED
    BY <2>2 DEF a, b
<1>5. QED
  BY <1>1, <1>2, <1>3, <1>4 DEF LockoutsInv

LEMMA FloodersStep ==
    ASSUME LockoutsInv, LockoutsInv', CountsInv, CountsInv', TrackersInv, TrackersInv',
           HistoryInv, HistoryInv', SettingsInv,
           NEW ip \in IPs, NEW path \in Paths, Judge(ip, path)
    PROVE  FloodersStayOut'
<1> DEFINE n == Len(seen')
           d == "ddos_protection"
           all == InWindow("ddos_protection", Len(seen), FloodWindow)'
           out == \E i \in Mine(d, ip)' : Floods(i)' /\ now - seen'[i].at <= BlockTime
           many == Cardinality(all) > GlobalFlood
           spread == /\ Cardinality({seen'[i].ip : i \in all}) > ManyClients
                     /\ 2 * Cardinality(all) > GlobalFlood
<1>1. /\ n = Len(seen) + 1 /\ now' = now /\ now \in Nat /\ Len(seen) \in Nat
      /\ seen'[n] = [ip |-> ip, path |-> path, at |-> now, by |-> ToSet(running)]
      /\ SeenBy(d)' = IF Runs(d) THEN SeenBy(d) \cup {Len(seen) + 1} ELSE SeenBy(d)
      /\ SeenBy(d) \in SUBSET (1..Len(seen))
  <2>1. Len(seen') = Len(seen) + 1 /\ now' = now
    BY HistoryNext
  <2>2. seen'[Len(seen) + 1] = [ip |-> ip, path |-> path, at |-> now, by |-> ToSet(running)]
    BY HistoryNext
  <2>3. QED
    BY <2>1, <2>2, HistoryNext, HistoryPlaces
<1>2. CASE ~Runs(d)
  <2>1. n \notin SeenBy(d)'
    BY <1>1, <1>2
  <2>2. QED
    BY <2>1 DEF FloodersStayOut
<1>3. CASE Runs(d)
  <2>1. /\ Len(times') = Cardinality(all)
        /\ {c \in IPs : client_times'[c] # <<>>} = {seen'[i].ip : i \in all}
    BY <1>3, Recorded
  <2> DEFINE flooded == Len(client_times'[ip]) > ClientFlood
             alerts == Alerts(ip, times', client_times', blocked_until')
  <2>2. \E alarms : VoteIn(d)' = VoteOf(d, ip, path, alarms)
    <3>1. PICK alarms : last'.votes = [i \in 1..Len(running) |-> VoteOf(running[i], ip, path, alarms)]
      BY Judged
    <3>2. QED
      BY <1>3, <3>1, VoteFound
  <2>3. VoteIn(d)' = DDoSVote(alerts)
    BY <2>2 DEF VoteOf
  <2>4. VoteIn(d)'.block <=> alerts # {}
    <3>1. alerts \in SUBSET {"global", "client", "blocked", "distributed"}
      BY DEF Alerts
    <3> HIDE DEF alerts
    <3>2. DDoSVote(alerts).block <=> alerts # {}
      BY <3>1, DDoSVoteGood
    <3>3. QED
      BY <2>3, <3>2
  <2>5. alerts # {} <=> many \/ flooded \/ blocked_until'[ip] # NotBlocked \/ spread
    <3>1. /\ "global" \in alerts <=> many
          /\ "client" \in alerts <=> flooded
          /\ "blocked" \in alerts <=> blocked_until'[ip] # NotBlocked
          /\ "distributed" \in alerts <=> spread
      <4> HIDE DEF all
      <4>1. QED
        BY <2>1 DEF Alerts
    <3>2. alerts \in SUBSET {"global", "client", "blocked", "distributed"}
      BY DEF Alerts
    <3> HIDE DEF alerts, many, flooded, spread
    <3>3. QED
      BY <3>1, <3>2
  <2>6. /\ flooded => blocked_until'[ip] # NotBlocked
        /\ blocked_until'[ip] # NotBlocked <=> blocked_until'[ip] >= now
    <3>1. blocked_until'[ip] = IF flooded THEN now + BlockTime
                               ELSE IF now > blocked_until[ip] THEN -1 ELSE blocked_until[ip]
      <4>1. blocked_until' = Flooded(ip, client_times', [b \in IPs |-> IF now > blocked_until[b] THEN NotBlocked
                                                                       ELSE blocked_until[b]])
        BY <1>3 DEF Judge, Record
      <4>2. QED
        BY <4>1 DEF Flooded, NotBlocked
    <3>2. blocked_until[ip] \in Int
      BY DEF TrackersInv, DDoSTypeOK, NotBlocked
    <3> HIDE DEF flooded
    <3>3. QED
      BY <1>1, <3>1, <3>2, Windows DEF NotBlocked
  <2>7. blocked_until'[ip] >= now <=> out
    <3>1. blocked_until'[ip] >= now <=> \E i \in Mine(d, ip)' : Floods(i)' /\ seen'[i].at + BlockTime >= now
      <4>1. now \in Int /\ now >= now'
        BY <1>1
      <4>2. \A t \in Int : t >= now' =>
               (blocked_until'[ip] >= t <=> \E i \in Mine(d, ip)' : Floods(i)' /\ seen'[i].at + BlockTime >= t)
        BY DEF LockoutsInv
      <4>3. QED
        BY <4>1, <4>2
    <3>2. \A i \in Mine(d, ip)' : seen'[i].at + BlockTime >= now <=> now - seen'[i].at <= BlockTime
      <4> SUFFICES ASSUME NEW i \in Mine(d, ip)'
                   PROVE  seen'[i].at + BlockTime >= now <=> now - seen'[i].at <= BlockTime
        OBVIOUS
      <4>1. i \in 1..Len(seen')
        BY DEF Mine, SeenBy, OfClient
      <4>2. seen'[i] \in Request
        BY <4>1 DEF HistoryInv
      <4>3. seen'[i].at \in Nat
        BY <4>2, TrafficAssumption DEF Request
      <4>4. QED
        BY <1>1, <4>3, Windows
    <3>3. QED
      BY <3>1, <3>2
  <2> HIDE DEF alerts, flooded
  <2>8. VoteIn(d)'.block <=> out \/ many \/ spread
    BY <2>4, <2>5, <2>6, <2>7
  <2>9. seen'[n].at = now /\ seen'[n].ip = ip
    BY <1>1
  <2>10. FloodersStayOut' = (last' # Nothing /\ n \in SeenBy(d)' =>
            (VoteIn(d)'.block <=>
                \/ \E i \in OfClient(SeenBy(d), seen[Len(seen)].ip)' : Floods(i)' /\ seen'[n].at - seen'[i].at <= BlockTime
                \/ Cardinality(all) > GlobalFlood
                \/ /\ Cardinality({seen'[i].ip : i \in all}) > ManyClients
                   /\ 2 * Cardinality(all) > GlobalFlood))
    BY DEF FloodersStayOut, Nothing
  <2>11. OfClient(SeenBy(d), seen[Len(seen)].ip)' = Mine(d, ip)'
    BY <2>9 DEF Mine, OfClient
  <2>12. QED
    BY <2>8, <2>9, <2>10, <2>11
<1>4. QED
  BY <1>2, <1>3

-----------------------------------------------------------------------------
(* The last paths. *)

\* The path of each request.
PathAt == [i \in 1..Len(seen) |-> seen[i].path]

PathsInv ==
    /\ \A c \in IPs : visits[c] = Latest(At(PathAt, InOrder(Len(seen), Mine("behavior", c))), KeepLast)
    /\ baseline = Latest(At(PathAt, InOrder(Len(seen), SeenBy("zero_day"))), BaselineWindow)

LEMMA PathsKnown ==
    ASSUME HistoryInv, NEW P \in SUBSET (1..Len(seen))
    PROVE  /\ PathAt \in [1..Len(seen) -> Paths]
           /\ InOrder(Len(seen), P) \in Seq(1..Len(seen))
           /\ At(PathAt, InOrder(Len(seen), P)) \in Seq(Paths)
<1>1. Len(seen) \in Nat /\ PathAt \in [1..Len(seen) -> Paths]
  BY HistoryPlaces DEF PathAt
<1>2. InOrder(Len(seen), P) \in Seq(1..Len(seen))
  BY <1>1, InOrderList
<1>3. QED
  BY <1>1, <1>2, AtType

\* One request more, among the places or not.
LEMMA PathsNext ==
    ASSUME HistoryInv, SettingsInv, NEW ip \in IPs, NEW path \in Paths, Judge(ip, path),
           NEW P \in SUBSET (1..Len(seen)), NEW K \in Nat
    PROVE  LET old == At(PathAt, InOrder(Len(seen), P))
           IN  /\ At(PathAt', InOrder(Len(seen'), P)) = old
               /\ Latest(At(PathAt', InOrder(Len(seen'), P \cup {Len(seen) + 1})), K)
                    = Latest(Append(Latest(old, K), path), K)
<1> DEFINE n == Len(seen)
           Q == P \cup {n + 1}
           idx == InOrder(n, P)
           old == At(PathAt, idx)
           h == PathAt'
<1>1. /\ n \in Nat /\ Len(seen') = n + 1 /\ \A i \in 1..n : seen'[i] = seen[i]
      /\ seen'[n + 1] = [ip |-> ip, path |-> path, at |-> now, by |-> ToSet(running)]
  BY HistoryNext, HistoryPlaces
<1>2. PathAt \in [1..n -> Paths] /\ idx \in Seq(1..n) /\ old \in Seq(Paths)
  BY PathsKnown
<1>3. h \in [1..n + 1 -> Paths] /\ h[n + 1] = path /\ \A i \in 1..n : h[i] = PathAt[i]
  <2>1. \A i \in 1..n : seen'[i].path = seen[i].path /\ seen[i].path \in Paths
    BY <1>1, HistoryPlaces
  <2>2. seen'[n + 1].path = path
    BY <1>1
  <2>3. \A i \in 1..n + 1 : i = n + 1 \/ i \in 1..n
    BY <1>1
  <2>4. h = [i \in 1..n + 1 |-> seen'[i].path] /\ PathAt = [i \in 1..n |-> seen[i].path]
    BY <1>1 DEF PathAt
  <2>5. n + 1 \in 1..n + 1 /\ \A i \in 1..n : i \in 1..n + 1
    BY <1>1
  <2>6. QED
    BY <2>1, <2>2, <2>3, <2>4, <2>5
<1>4. InOrder(n + 1, P) = idx
  <2>1. n + 1 \notin P
    BY <1>1
  <2>2. QED
    BY <1>1, <2>1, InOrderNext
<1>5. InOrder(n + 1, Q) = Append(idx, n + 1)
  <2>1. Q \cap (1..n) = P \cap (1..n) /\ n + 1 \in Q
    BY <1>1
  <2>2. InOrder(n, Q) = idx
    BY <1>1, <2>1, InOrderSame
  <2>3. QED
    BY <1>1, <2>1, <2>2, InOrderNext
<1>6. \A k \in 1..Len(idx) : idx[k] \in 1..n
  <2> HIDE DEF idx
  <2> QED
    BY <1>2, Elements
<1>7. At(h, idx) = old
  <2> HIDE DEF h, idx
  <2> QED
    BY <1>3, <1>6 DEF At
<1>8. At(h, Append(idx, n + 1)) = Append(old, path)
  <2> DEFINE X == 1..n + 1
             y == n + 1
  <2>1. y \in X /\ \A i \in 1..n : i \in X
    BY <1>1
  <2>2. idx \in Seq(X)
    <3> HIDE DEF idx, X
    <3>1. \A k \in 1..Len(idx) : idx[k] \in X
      BY <1>6, <2>1
    <3>2. QED
      BY <1>2, <3>1
  <2>3. h \in [X -> Paths] /\ h[y] = path
    BY <1>3
  <2> HIDE DEF X, y, h, idx
  <2>4. At(h, Append(idx, y)) = Append(At(h, idx), h[y])
    <3>1. idx \in Seq(X) /\ h \in [X -> Paths] /\ y \in X
      BY <2>1, <2>2, <2>3
    <3>2. QED
      BY <3>1, AtAppend
  <2>5. At(h, Append(idx, y)) = Append(old, path)
    BY <1>7, <2>3, <2>4
  <2>6. QED
    BY <2>5 DEF y
<1>9. Latest(Append(Latest(old, K), path), K) = Latest(Append(old, path), K)
  <2> HIDE DEF old
  <2> QED
    BY <1>2, LatestAppend
<1>10. QED
  BY <1>1, <1>4, <1>5, <1>7, <1>8, <1>9

LEMMA PathsStep ==
    ASSUME PathsInv, TrackersInv, HistoryInv, SettingsInv,
           NEW ip \in IPs, NEW path \in Paths, Judge(ip, path)
    PROVE  PathsInv'
<1>1. KeepLast \in Nat /\ BaselineWindow \in Nat
  BY Windows
<1>2. ASSUME NEW P \in SUBSET (1..Len(seen)), NEW K \in Nat, NEW list,
             list = Latest(At(PathAt, InOrder(Len(seen), P)), K)
      PROVE  /\ list = Latest(At(PathAt', InOrder(Len(seen'), P)), K)
             /\ Latest(Append(list, path), K) = Latest(At(PathAt', InOrder(Len(seen'), P \cup {Len(seen) + 1})), K)
  BY <1>2, PathsNext
<1>3. ASSUME NEW c \in IPs
      PROVE  visits'[c] = Latest(At(PathAt', InOrder(Len(seen'), Mine("behavior", c)')), KeepLast)
  <2>1. Mine("behavior", c) \in SUBSET (1..Len(seen))
    BY HistoryPlaces
  <2>2. visits[c] = Latest(At(PathAt, InOrder(Len(seen), Mine("behavior", c))), KeepLast)
    BY DEF PathsInv
  <2>3. /\ visits[c] = Latest(At(PathAt', InOrder(Len(seen'), Mine("behavior", c))), KeepLast)
        /\ Latest(Append(visits[c], path), KeepLast)
             = Latest(At(PathAt', InOrder(Len(seen'), Mine("behavior", c) \cup {Len(seen) + 1})), KeepLast)
    BY <1>1, <1>2, <2>1, <2>2
  <2>4. Mine("behavior", c)' = IF Runs("behavior") /\ c = ip THEN Mine("behavior", c) \cup {Len(seen) + 1}
                               ELSE Mine("behavior", c)
    BY HistoryNext
  <2>5. visits'[c] = IF Runs("behavior") /\ c = ip THEN Latest(Append(visits[c], path), KeepLast) ELSE visits[c]
    <3>1. visits \in [IPs -> Seq(Paths)]
      BY TrackerTypes
    <3>2. visits' = IF Runs("behavior") THEN [visits EXCEPT ![ip] = Latest(Append(visits[ip], path), KeepLast)]
                    ELSE visits
      BY DEF Judge, Track, behaviorVars
    <3>3. QED
      BY <3>1, <3>2
  <2>6. QED
    BY <2>3, <2>4, <2>5
<1>4. baseline' = Latest(At(PathAt', InOrder(Len(seen'), SeenBy("zero_day")')), BaselineWindow)
  <2>1. SeenBy("zero_day") \in SUBSET (1..Len(seen))
    BY HistoryPlaces
  <2>2. baseline = Latest(At(PathAt, InOrder(Len(seen), SeenBy("zero_day"))), BaselineWindow)
    BY DEF PathsInv
  <2>3. /\ baseline = Latest(At(PathAt', InOrder(Len(seen'), SeenBy("zero_day"))), BaselineWindow)
        /\ Latest(Append(baseline, path), BaselineWindow)
             = Latest(At(PathAt', InOrder(Len(seen'), SeenBy("zero_day") \cup {Len(seen) + 1})), BaselineWindow)
    BY <1>1, <1>2, <2>1, <2>2
  <2>4. SeenBy("zero_day")' = IF Runs("zero_day") THEN SeenBy("zero_day") \cup {Len(seen) + 1} ELSE SeenBy("zero_day")
    BY HistoryNext
  <2>5. baseline' = IF Runs("zero_day") THEN Latest(Append(baseline, path), BaselineWindow) ELSE baseline
    BY DEF Judge, UpdateBaseline
  <2>6. QED
    BY <2>3, <2>4, <2>5
<1>5. QED
  BY <1>3, <1>4 DEF PathsInv

\* What is remembered at the places that count: the last ones.
LEMMA PathsLatest ==
    ASSUME HistoryInv, NEW P \in SUBSET (1..Len(seen)), NEW K \in Nat
    PROVE  LET last_ones == At(PathAt, InOrder(Len(seen), LastOf(P, K)))
           IN  /\ LastOf(P, K) \in SUBSET (1..Len(seen))
               /\ Latest(At(PathAt, InOrder(Len(seen), P)), K) = last_ones
               /\ ToSet(last_ones) = {seen[i].path : i \in LastOf(P, K)}
               /\ Len(last_ones) = Cardinality(LastOf(P, K))
<1> DEFINE n == Len(seen)
           idx == InOrder(n, P)
           L == LastOf(P, K)
           ldx == InOrder(n, L)
<1>1. n \in Nat /\ PathAt \in [1..n -> Paths] /\ idx \in Seq(1..n) /\ L \in SUBSET (1..n)
  BY HistoryPlaces, PathsKnown DEF LastOf
<1>2. ldx \in Seq(1..n) /\ ToSet(ldx) = L /\ Len(ldx) = Cardinality(L)
  <2> HIDE DEF L
  <2> QED
    BY <1>1, InOrderList
<1>3. ldx = Latest(idx, K)
  BY <1>1, LastOfInOrder
<1>4. Latest(At(PathAt, idx), K) = At(PathAt, Latest(idx, K))
  <2> DEFINE X == 1..n
  <2>1. idx \in Seq(X) /\ PathAt \in [X -> Paths]
    BY <1>1
  <2> HIDE DEF idx, X
  <2>2. QED
    BY <2>1, AtLatest
<1>5. /\ At(PathAt, ldx) \in Seq(Paths) /\ Len(At(PathAt, ldx)) = Len(ldx)
      /\ ToSet(At(PathAt, ldx)) = {PathAt[i] : i \in ToSet(ldx)}
  <2> DEFINE X == 1..n
  <2>1. ldx \in Seq(X) /\ PathAt \in [X -> Paths]
    BY <1>1, <1>2
  <2> HIDE DEF ldx, X
  <2>2. QED
    BY <2>1, AtType
<1>6. \A i \in L : PathAt[i] = seen[i].path
  BY <1>1 DEF PathAt
<1> HIDE DEF ldx, idx, L
<1>7. {PathAt[i] : i \in L} = {seen[i].path : i \in L}
  BY <1>6
<1>8. QED
  BY <1>1, <1>2, <1>3, <1>4, <1>5, <1>7 DEF ldx, idx, L

\* The alarms are those of the whole history.
LEMMA AlarmsStep ==
    ASSUME CountsInv', PathsInv', TrackersInv', HistoryInv, HistoryInv', SettingsInv,
           NEW ip \in IPs, NEW path \in Paths, Judge(ip, path)
    PROVE  AlarmsMatchHistory'
<1> DEFINE n == Len(seen')
           b == "behavior"
           from == now - RateWindow
           mine == Mine(b, ip)'
           latest == LastOf(mine, KeepLast)
           window == OfClient(InWindow(b, Len(seen), RateWindow), seen[Len(seen)].ip)'
<1>1. /\ n = Len(seen) + 1 /\ now' = now /\ now \in Nat /\ n \in Nat
      /\ seen'[n] = [ip |-> ip, path |-> path, at |-> now, by |-> ToSet(running)]
      /\ SeenBy(b)' = IF Runs(b) THEN SeenBy(b) \cup {n} ELSE SeenBy(b)
      /\ SeenBy(b) \in SUBSET (1..Len(seen))
  <2>1. Len(seen') = Len(seen) + 1 /\ now' = now
    BY HistoryNext
  <2>2. seen'[Len(seen) + 1] = [ip |-> ip, path |-> path, at |-> now, by |-> ToSet(running)]
    BY HistoryNext
  <2>3. Len(seen) \in Nat /\ now \in Nat
    BY HistoryPlaces
  <2>4. SeenBy(b)' = IF Runs(b) THEN SeenBy(b) \cup {Len(seen) + 1} ELSE SeenBy(b)
    BY HistoryNext
  <2>5. SeenBy(b) \in SUBSET (1..Len(seen))
    BY HistoryPlaces
  <2>6. QED
    BY <2>1, <2>2, <2>3, <2>4, <2>5
<1>2. mine \in SUBSET (1..n) /\ \A i \in 1..n : seen'[i].at \in Nat
  <2>1. \A i \in 1..n : seen'[i] \in Request
    BY DEF HistoryInv
  <2>2. \A i \in 1..n : seen'[i].at \in Nat
    BY <2>1, TrafficAssumption DEF Request
  <2>3. QED
    BY <2>2 DEF Mine, OfClient, SeenBy
<1>3. seen'[n].ip = ip /\ seen'[n].at = now
  BY <1>1
<1>4. CASE ~Runs(b)
  <2>1. n \notin SeenBy(b)'
    BY <1>1, <1>4
  <2>2. QED
    BY <2>1 DEF AlarmsMatchHistory
<1>5. CASE Runs(b)
  <2>1. PICK alarms \in SUBSET {"rate", "path", "scan", "trace", "bot"} :
            /\ alarms \ {"bot"} = FoundAlarms(ip, path, visits'[ip], rates'[ip])
            /\ last'.alarms = alarms
    BY <1>5, Judged
  <2>2. "rate" \in alarms <=> Len(Kept(rates'[ip], Fresh)) > RateLimit
    <3>1. "rate" \in alarms <=> "rate" \in FoundAlarms(ip, path, visits'[ip], rates'[ip])
      BY <2>1
    <3>2. QED
      BY <3>1 DEF FoundAlarms
  <2>3. "scan" \in alarms <=> Cardinality(ToSet(visits'[ip])) > ScanThreshold
    <3>1. "scan" \in alarms <=> "scan" \in FoundAlarms(ip, path, visits'[ip], rates'[ip])
      BY <2>1
    <3>2. QED
      BY <3>1 DEF FoundAlarms
  <2>4. Len(Kept(rates'[ip], Fresh)) = Cardinality(window)
    <3>1. from \in Int /\ RateWindow \in Nat /\ Fresh = After(from)
      BY <1>1, Windows, FreshTimes
    <3>2. window = LateIn(seen', mine, from)
      <4>1. window = {j \in SeenBy(b)' : (j <= n /\ seen'[n].at - seen'[j].at < RateWindow) /\ seen'[j].ip = ip}
        BY <1>3 DEF InWindow, OfClient
      <4>2. mine = {j \in SeenBy(b)' : seen'[j].ip = ip}
        BY DEF Mine, OfClient
      <4>3. \A j \in SeenBy(b)' : (j <= n /\ seen'[n].at - seen'[j].at < RateWindow) <=> seen'[j].at > from
        <5> SUFFICES ASSUME NEW j \in SeenBy(b)'
                     PROVE  (j <= n /\ seen'[n].at - seen'[j].at < RateWindow) <=> seen'[j].at > from
          OBVIOUS
        <5>1. j \in 1..n
          BY DEF SeenBy
        <5>2. seen'[j].at \in Nat
          BY <1>2, <5>1
        <5>3. QED
          BY <1>1, <1>3, <3>1, <5>1, <5>2
      <4> HIDE DEF window, mine, from, n
      <4>4. QED
        BY <4>1, <4>2, <4>3 DEF LateIn
    <3>3. CountIn(rates'[ip], After(from)) = Cardinality(LateIn(seen', mine, from))
      <4>1. Agrees(rates[ip], Mine(b, ip), now - RateWindow)'
        BY DEF CountsInv
      <4>2. \A t \in Int : t >= now' - RateWindow => CountIn(rates'[ip], After(t)) = Cardinality(LateIn(seen', mine, t))
        BY <4>1 DEF Agrees
      <4>3. from >= now' - RateWindow
        BY <1>1, <3>1
      <4>4. QED
        BY <3>1, <4>2, <4>3
    <3> DEFINE list == rates'[ip]
               S == After(from)
               kept == Kept(list, S)
    <3>4. list \in Seq(Nat)
      <4>1. TrackersInv'
        OBVIOUS
      <4>2. rates' \in [IPs -> Seq(0..MaxTime)]
        BY <4>1 DEF TrackersInv, BehaviorTypeOK
      <4>3. rates'[ip] \in Seq(0..MaxTime) /\ \A x \in 0..MaxTime : x \in Nat
        BY <4>2, TrafficAssumption
      <4> DEFINE Times == 0..MaxTime
      <4> HIDE DEF Times
      <4>4. list \in Seq(Times) /\ \A x \in Times : x \in Nat
        BY <4>3 DEF Times
      <4> HIDE DEF list
      <4>5. QED
        BY <4>4
    <3> HIDE DEF list, S
    <3>5. kept \in Seq(Nat) /\ ToSet(kept) \subseteq S
      BY <3>4, KeptElements
    <3>6. CountIn(kept, S) = CountIn(list, S)
      <4>1. CountIn(Kept(list, S), S) = CountIn(list, S \cap S)
        BY <3>4, CountKept
      <4>2. S \cap S = S
        OBVIOUS
      <4>3. QED
        BY <4>1, <4>2
    <3>7. CountIn(kept, S) = Len(kept)
      <4> HIDE DEF kept
      <4> QED
        BY <3>5, CountAll
    <3>8. QED
      BY <3>1, <3>2, <3>3, <3>6, <3>7 DEF list, S
  <2>5. ToSet(visits'[ip]) = {seen'[i].path : i \in latest}
    <3>1. visits'[ip] = Latest(At(PathAt', InOrder(Len(seen'), mine)), KeepLast)
      BY DEF PathsInv
    <3>2. PathAt' = [i \in 1..n |-> seen'[i].path] /\ \A i \in 1..n : seen'[i].path \in Paths
      <4>1. \A i \in 1..n : seen'[i] \in Request
        BY DEF HistoryInv
      <4>2. QED
        BY <4>1 DEF PathAt, Request
    <3> DEFINE idx == InOrder(n, mine)
               ldx == InOrder(n, latest)
               X == 1..n
    <3>3. latest \in SUBSET (1..n)
      BY <1>2 DEF LastOf
    <3>4. idx \in Seq(X) /\ ldx \in Seq(X) /\ ToSet(ldx) = latest
      <4> HIDE DEF mine, latest, n
      <4> QED
        BY <1>1, <1>2, <3>3, InOrderList
    <3>5. ldx = Latest(idx, KeepLast)
      <4>1. KeepLast \in Nat
        BY Windows
      <4> HIDE DEF mine, n
      <4>2. QED
        BY <1>1, <1>2, <4>1, LastOfInOrder
    <3> DEFINE h == PathAt'
    <3>6. h \in [X -> Paths] /\ KeepLast \in Nat /\ \A i \in latest : h[i] = seen'[i].path
      BY <3>2, <3>3, Windows
    <3> HIDE DEF idx, ldx, X, h, latest
    <3>7. Latest(At(h, idx), KeepLast) = At(h, ldx)
      BY <3>4, <3>5, <3>6, AtLatest
    <3>8. ToSet(At(h, ldx)) = {h[i] : i \in latest}
      <4>1. ToSet(At(h, ldx)) = {h[i] : i \in ToSet(ldx)}
        <5>1. ldx \in Seq(X) /\ h \in [X -> Paths]
          BY <3>4, <3>6
        <5>2. QED
          BY <5>1, AtType, SMTT(20)
      <4>2. QED
        BY <3>4, <4>1
    <3>9. {h[i] : i \in latest} = {seen'[i].path : i \in latest}
      BY <3>6
    <3>10. visits'[ip] = Latest(At(h, idx), KeepLast)
      BY <3>1 DEF h, idx
    <3>11. QED
      BY <3>7, <3>8, <3>9, <3>10
  <2>6. AlarmsMatchHistory' = (last' # Nothing /\ n \in SeenBy(b)' =>
            /\ "rate" \in last'.alarms <=> Cardinality(window) > RateLimit
            /\ "scan" \in last'.alarms <=> Cardinality({seen'[i].path : i \in latest}) > ScanThreshold)
    <3>1. OfClient(SeenBy(b), seen[Len(seen)].ip)' = mine
      BY <1>3 DEF Mine, OfClient
    <3>2. {i \in mine : Cardinality({j \in mine : j > i}) < KeepLast} = latest
      BY DEF LastOf
    <3> HIDE DEF mine
    <3>3. QED
      BY <3>1, <3>2 DEF AlarmsMatchHistory, Nothing
  <2>7. QED
    BY <2>1, <2>2, <2>3, <2>4, <2>5, <2>6
<1>6. QED
  BY <1>4, <1>5

-----------------------------------------------------------------------------
(* The anomalies. *)

\* The sum of a feature over some requests, h the path of each request ...
SumAt(h, n, W, f) == Total([i \in 1..n |-> IF i \in W THEN Features[h[i]][f] ELSE 0])

\* ... the squared distances from the mean, times the square of how many they are ...
SpreadAt(h, n, W, f) ==
    LET size == Cardinality(W)
        sum == SumAt(h, n, W, f)
    IN  Total([i \in 1..n |-> IF i \in W THEN (size * Features[h[i]][f] - sum) * (size * Features[h[i]][f] - sum)
                              ELSE 0])

\* ... and whether the value v is more than t/4 standard deviations away.
FarAt(h, n, W, f, v, t) ==
    LET size == Cardinality(W)
        sum == SumAt(h, n, W, f)
    IN  16 * size * (size * v - sum) * (size * v - sum) > t * t * SpreadAt(h, n, W, f)

LEMMA FeatureTypes ==
    ASSUME NEW p \in Paths, NEW f \in 1..3
    PROVE  Features[p][f] \in Nat
<1>1. Features \in [Paths -> Seq(Nat)] /\ Len(Features[p]) = 3
  BY ZeroDayAssumption
<1> DEFINE s == Features[p]
<1>2. s \in Seq(Nat) /\ Len(s) = 3
  BY <1>1
<1> HIDE DEF s
<1>3. \A i \in 1..Len(s) : s[i] \in Nat
  BY <1>2, Elements
<1>4. s[f] \in Nat
  BY <1>2, <1>3
<1>5. QED
  BY <1>4 DEF s

\* A factor in a comparison.
LEMMA Cancelled ==
    ASSUME NEW m \in Nat, m > 0, NEW a \in Int, NEW b \in Int
    PROVE  m * a > m * b <=> a > b
OBVIOUS

\* The sums the detector computes compare as the distances do.
LEMMA DeviatesAt ==
    ASSUME NEW n \in Nat, NEW h \in [1..n -> Paths], NEW W \in SUBSET (1..n), W # {},
           NEW f \in 1..3, NEW v \in Int, NEW t \in Int
    PROVE  Deviates(At(h, InOrder(n, W)), f, v, t) <=> FarAt(h, n, W, f, v, t)
<1> DEFINE idx == InOrder(n, W)
           list == At(h, idx)
           m == Cardinality(W)
           S == SumAt(h, n, W, f)
           values == [i \in 1..n |-> Features[h[i]][f]]
           spread == [i \in 1..n |-> (m * Features[h[i]][f] - S) * (m * Features[h[i]][f] - S)]
           u == [k \in 1..m |-> Features[list[k]][f]]
           sq == [k \in 1..Len(u) |-> u[k] * u[k]]
           dist == [k \in 1..Len(u) |-> (m * u[k] - S) * (m * u[k] - S)]
           Q == Total(sq)
           D == m * v - S
<1>1. idx \in Seq(1..n) /\ Len(idx) = m /\ m \in Nat /\ m > 0
  <2>1. idx \in Seq(1..n) /\ Len(idx) = m /\ Len(idx) \in Nat
    BY InOrderList
  <2>2. IsFiniteSet(W)
    <3>1. IsFiniteSet(1..n) /\ W \subseteq 1..n
      BY FS_Interval
    <3>2. QED
      BY <3>1, FS_Subset
  <2>3. m # 0
    BY <2>2, FS_EmptySet
  <2>4. QED
    BY <2>1, <2>3
<1> HIDE DEF idx, m
<1>2. \A k \in 1..m : idx[k] \in 1..n
  BY <1>1, Elements
<1>3. Len(list) = m /\ \A k \in 1..m : list[k] = h[idx[k]]
  BY <1>1 DEF At
<1> HIDE DEF list
<1>4. \A i \in 1..n : h[i] \in Paths /\ Features[h[i]][f] \in Nat
  BY FeatureTypes
<1>5. u \in Seq(Int) /\ Len(u) = m /\ \A k \in 1..m : u[k] = Features[h[idx[k]]][f] /\ u[k] \in Int
  BY <1>1, <1>2, <1>3, <1>4
<1>6. values \in Seq(Int) /\ Len(values) = n /\ \A i \in 1..n : values[i] = Features[h[i]][f] /\ values[i] \in Int
  BY <1>4
<1>7. Total(u) = S
  <2>1. u = [k \in 1..Len(idx) |-> values[idx[k]]]
    BY <1>1, <1>2, <1>3, <1>6
  <2>2. [i \in 1..n |-> IF i \in W THEN values[i] ELSE 0] = [i \in 1..n |-> IF i \in W THEN Features[h[i]][f] ELSE 0]
    BY <1>6
  <2> HIDE DEF u, values
  <2>3. Total([k \in 1..Len(InOrder(Len(values), W)) |-> values[InOrder(Len(values), W)[k]]])
          = Total([i \in 1..Len(values) |-> IF i \in W THEN values[i] ELSE 0])
    BY <1>6, SumInOrder
  <2>4. QED
    BY <1>6, <2>1, <2>2, <2>3 DEF SumAt, idx
<1>8. S \in Int
  <2> HIDE DEF u, S
  <2> QED
    BY <1>5, <1>7, TotalAppend
<1> HIDE DEF S
<1>9. spread \in Seq(Int) /\ Len(spread) = n /\ \A i \in 1..n : spread[i] = (m * values[i] - S) * (m * values[i] - S)
  <2>1. \A i \in 1..n : (m * Features[h[i]][f] - S) * (m * Features[h[i]][f] - S) \in Int
    BY <1>1, <1>4, <1>8
  <2>2. QED
    BY <1>6, <2>1
<1>10. Total(dist) = SpreadAt(h, n, W, f)
  <2>1. dist = [k \in 1..Len(idx) |-> spread[idx[k]]]
    <3>1. \A k \in 1..m : u[k] = values[idx[k]]
      BY <1>2, <1>5, <1>6
    <3> HIDE DEF u, values, spread
    <3>2. \A k \in 1..m : spread[idx[k]] = (m * u[k] - S) * (m * u[k] - S)
      BY <1>2, <1>9, <3>1
    <3>3. QED
      BY <1>1, <1>5, <3>2
  <2>2. [i \in 1..n |-> IF i \in W THEN spread[i] ELSE 0]
          = [i \in 1..n |-> IF i \in W THEN (m * Features[h[i]][f] - S) * (m * Features[h[i]][f] - S) ELSE 0]
    OBVIOUS
  <2> HIDE DEF dist, spread
  <2>3. Total([k \in 1..Len(InOrder(Len(spread), W)) |-> spread[InOrder(Len(spread), W)[k]]])
          = Total([i \in 1..Len(spread) |-> IF i \in W THEN spread[i] ELSE 0])
    BY <1>9, SumInOrder
  <2>4. QED
    BY <1>9, <2>1, <2>2, <2>3 DEF SpreadAt, idx, m, S
<1>11. Q \in Int /\ Total(dist) = m * (m * Q - S * S)
  <2> HIDE DEF u
  <2>1. Total(sq) \in Int /\ Total(dist) = m * m * Total(sq) - 2 * m * S * Total(u) + Len(u) * S * S
    <3>1. u \in Seq(Int) /\ m \in Int /\ S \in Int
      BY <1>1, <1>5, <1>8
    <3>2. QED
      BY <3>1, TotalSquares, Zenon
  <2> HIDE DEF sq, dist
  <2>2. QED
    BY <1>1, <1>5, <1>7, <1>8, <2>1
<1>12. Deviates(list, f, v, t) <=> 16 * D * D > t * t * (m * Q - S * S)
  <2>1. sq = [i \in 1..m |-> Features[list[i]][f] * Features[list[i]][f]]
    BY <1>5
  <2> HIDE DEF sq
  <2>2. QED
    BY <1>3, <1>7, <2>1 DEF Deviates
<1> HIDE DEF u, sq, dist, Q
<1>13. FarAt(h, n, W, f, v, t) <=> 16 * m * D * D > t * t * (m * (m * Q - S * S))
  BY <1>10, <1>11 DEF FarAt, m, S
<1>14. (16 * m * D * D > t * t * (m * (m * Q - S * S))) <=> 16 * D * D > t * t * (m * Q - S * S)
  <2>1. D \in Int
    BY <1>1, <1>8
  <2> DEFINE a == 16 * D * D
             b == t * t * (m * Q - S * S)
  <2> HIDE DEF D
  <2>2. a \in Int /\ b \in Int
    BY <1>1, <1>8, <1>11, <2>1
  <2>3. 16 * m * D * D = m * a /\ t * t * (m * (m * Q - S * S)) = m * b
    BY <1>1, <1>8, <1>11, <2>1
  <2> HIDE DEF a, b
  <2>4. m * a > m * b <=> a > b
    BY <1>1, <2>2, Cancelled
  <2>5. QED
    BY <2>3, <2>4 DEF a, b
<1>15. QED
  BY <1>12, <1>13, <1>14 DEF list, idx

\* The path just seen is judged by the requests that count.
LEMMA AnomalousAt ==
    ASSUME NEW n \in Nat, NEW h \in [1..n -> Paths], NEW W \in SUBSET (1..n), W # {}, NEW path \in Paths
    PROVE  IsAnomalous(At(h, InOrder(n, W)), path) <=>
             /\ Cardinality(W) >= MinSamples
             /\ \/ Cardinality({f \in 1..3 : FarAt(h, n, W, f, Features[path][f], Deviation)})
                       + (IF path \in HighEntropy THEN 1 ELSE 0) >= 2
                \/ \E f \in 1..3 : FarAt(h, n, W, f, Features[path][f], (3 * Deviation) \div 2)
<1> DEFINE list == At(h, InOrder(n, W))
           far == {f \in 1..3 : FarAt(h, n, W, f, Features[path][f], Deviation)}
           odd == {f \in {4} : path \in HighEntropy}
           t == (3 * Deviation) \div 2
<1>1. InOrder(n, W) \in Seq(1..n) /\ Len(InOrder(n, W)) = Cardinality(W) /\ Cardinality(W) \in Nat
  BY InOrderList
<1>2. Len(list) = Cardinality(W)
  BY <1>1 DEF At
<1>3. Deviation \in Int /\ t \in Int
  BY ZeroDayAssumption
<1>4. \A f \in 1..3 : Features[path][f] \in Int
  BY FeatureTypes
<1> HIDE DEF list, t
<1>5. \A f \in 1..3 : /\ Deviates(list, f, Features[path][f], Deviation)
                            <=> FarAt(h, n, W, f, Features[path][f], Deviation)
                      /\ Deviates(list, f, Features[path][f], t)
                            <=> FarAt(h, n, W, f, Features[path][f], t)
  BY <1>3, <1>4, DeviatesAt DEF list
<1>6. Exceeds(list, path, t) <=> \E f \in 1..3 : FarAt(h, n, W, f, Features[path][f], t)
  BY <1>5 DEF Exceeds
<1>7. Anomalies(list, path) = far \cup odd
  BY <1>5 DEF Anomalies
<1>8. Cardinality(far \cup odd) = Cardinality(far) + (IF path \in HighEntropy THEN 1 ELSE 0)
  <2>1. IsFiniteSet(far) /\ 4 \notin far
    <3>1. IsFiniteSet(1..3)
      <4> DEFINE one == 1
                 three == 3
      <4>1. one \in Int /\ three \in Int
        OBVIOUS
      <4> HIDE DEF one, three
      <4>2. IsFiniteSet(one..three)
        BY <4>1, FS_Interval
      <4>3. QED
        BY <4>2 DEF one, three
    <3>2. far \subseteq 1..3 /\ 4 \notin 1..3
      OBVIOUS
    <3> HIDE DEF far
    <3>3. QED
      BY <3>1, <3>2, FS_Subset
  <2>2. odd = IF path \in HighEntropy THEN {4} ELSE {}
    OBVIOUS
  <2> HIDE DEF far, odd
  <2>3. Cardinality(far \cup {4}) = Cardinality(far) + 1 /\ Cardinality(far) \in Nat
    BY <2>1, FS_AddElement, FS_CardinalityType
  <2>4. CASE path \in HighEntropy
    <3>1. odd = {4}
      BY <2>2, <2>4
    <3>2. QED
      BY <2>3, <2>4, <3>1
  <2>5. CASE path \notin HighEntropy
    <3>1. far \cup odd = far
      BY <2>2, <2>5
    <3>2. (IF path \in HighEntropy THEN 1 ELSE 0) = 0
      BY <2>5
    <3>3. Cardinality(far) + 0 = Cardinality(far)
      BY <2>3
    <3>4. QED
      BY <3>1, <3>2, <3>3
  <2>6. QED
    BY <2>4, <2>5
<1> HIDE DEF far, odd
<1>9. IsAnomalous(list, path) <=>
        /\ Len(list) >= MinSamples
        /\ Cardinality(far \cup odd) >= 2 \/ Exceeds(list, path, t)
  BY <1>7 DEF IsAnomalous, t
<1>10. IsAnomalous(list, path) <=>
        /\ Cardinality(W) >= MinSamples
        /\ \/ Cardinality(far) + (IF path \in HighEntropy THEN 1 ELSE 0) >= 2
           \/ \E f \in 1..3 : FarAt(h, n, W, f, Features[path][f], t)
  BY <1>2, <1>6, <1>8, <1>9, Zenon
<1>11. QED
  BY <1>10 DEF list, far, t

\* The sums over the history, as the property has them.
LEMMA FarInHistory ==
    ASSUME NEW hist, NEW W, NEW f, NEW v, NEW t
    PROVE  LET size == Cardinality(W)
               value(i) == Features[hist[i].path][f]
               sum == Total([i \in 1..Len(hist) |-> IF i \in W THEN value(i) ELSE 0])
           IN  FarAt([i \in 1..Len(hist) |-> hist[i].path], Len(hist), W, f, v, t) <=>
                 16 * size * (size * v - sum) * (size * v - sum)
                   > t * t * Total([i \in 1..Len(hist) |->
                                      IF i \in W THEN (size * value(i) - sum) * (size * value(i) - sum) ELSE 0])
<1> DEFINE n == Len(hist)
           h == [i \in 1..n |-> hist[i].path]
           size == Cardinality(W)
           sum == Total([i \in 1..n |-> IF i \in W THEN Features[hist[i].path][f] ELSE 0])
<1>1. \A i \in 1..n : h[i] = hist[i].path
  OBVIOUS
<1> HIDE DEF h
<1>2. SumAt(h, n, W, f) = sum
  <2>1. [i \in 1..n |-> IF i \in W THEN Features[h[i]][f] ELSE 0]
          = [i \in 1..n |-> IF i \in W THEN Features[hist[i].path][f] ELSE 0]
    BY <1>1
  <2>2. QED
    BY <2>1 DEF SumAt
<1> HIDE DEF sum
<1>3. SpreadAt(h, n, W, f)
        = Total([i \in 1..n |-> IF i \in W THEN (size * Features[hist[i].path][f] - sum)
                                                  * (size * Features[hist[i].path][f] - sum) ELSE 0])
  <2>1. [i \in 1..n |-> IF i \in W THEN (size * Features[h[i]][f] - sum) * (size * Features[h[i]][f] - sum) ELSE 0]
          = [i \in 1..n |-> IF i \in W THEN (size * Features[hist[i].path][f] - sum)
                                              * (size * Features[hist[i].path][f] - sum) ELSE 0]
    BY <1>1
  <2>2. QED
    BY <1>2, <2>1 DEF SpreadAt
<1>4. QED
  BY <1>2, <1>3 DEF FarAt, sum, h

\* The verdict of the detector is that of the history.
LEMMA ZeroDayStep ==
    ASSUME PathsInv', HistoryInv, HistoryInv', SettingsInv,
           NEW ip \in IPs, NEW path \in Paths, Judge(ip, path)
    PROVE  ZeroDayMatchesHistory'
<1> DEFINE n == Len(seen')
           z == "zero_day"
           mine == SeenBy(z)'
           W == LastOf(mine, BaselineWindow)
           h == PathAt'
<1>1. /\ n = Len(seen) + 1 /\ Len(seen) \in Nat /\ n \in Nat
      /\ seen'[n] = [ip |-> ip, path |-> path, at |-> now, by |-> ToSet(running)]
      /\ mine = IF Runs(z) THEN SeenBy(z) \cup {n} ELSE SeenBy(z)
      /\ SeenBy(z) \in SUBSET (1..Len(seen))
  <2>1. Len(seen') = Len(seen) + 1
    BY HistoryNext
  <2>2. seen'[Len(seen) + 1] = [ip |-> ip, path |-> path, at |-> now, by |-> ToSet(running)]
    BY HistoryNext
  <2>3. Len(seen) \in Nat
    BY HistoryPlaces
  <2>4. SeenBy(z)' = IF Runs(z) THEN SeenBy(z) \cup {Len(seen) + 1} ELSE SeenBy(z)
    BY HistoryNext
  <2>5. SeenBy(z) \in SUBSET (1..Len(seen))
    BY HistoryPlaces
  <2>6. QED
    BY <2>1, <2>2, <2>3, <2>4, <2>5
<1>2. mine \in SUBSET (1..n) /\ W \in SUBSET (1..n)
  BY DEF SeenBy, LastOf
<1>3. seen'[n].path = path
  BY <1>1
<1>4. h \in [1..n -> Paths]
  <2>1. \A i \in 1..n : seen'[i] \in Request
    BY DEF HistoryInv
  <2>2. QED
    BY <2>1 DEF PathAt, Request
<1>5. CASE ~Runs(z)
  <2>1. n \notin mine
    BY <1>1, <1>5
  <2>2. QED
    BY <2>1 DEF ZeroDayMatchesHistory
<1>6. CASE Runs(z)
  <2>1. n \in W
    <3>1. n \in mine /\ {j \in mine : j > n} = {}
      BY <1>1, <1>2, <1>6
    <3>2. BaselineWindow > 0
      BY ZeroDayAssumption
    <3>3. QED
      BY <3>1, <3>2, FS_EmptySet DEF LastOf
  <2>2. baseline' = At(h, InOrder(n, W))
    <3>1. baseline' = Latest(At(PathAt', InOrder(Len(seen'), mine)), BaselineWindow)
      BY DEF PathsInv
    <3> DEFINE idx == InOrder(n, mine)
               X == 1..n
    <3>2. BaselineWindow \in Nat
      BY ZeroDayAssumption
    <3>3. idx \in Seq(X)
      <4> HIDE DEF mine, n
      <4> QED
        BY <1>1, <1>2, InOrderList
    <3>4. InOrder(n, W) = Latest(idx, BaselineWindow)
      <4> HIDE DEF mine, n
      <4> QED
        BY <1>1, <1>2, <3>2, LastOfInOrder
    <3>5. h \in [X -> Paths]
      BY <1>4
    <3>6. baseline' = Latest(At(h, idx), BaselineWindow)
      BY <3>1
    <3> HIDE DEF idx, X, h, W
    <3>7. Latest(At(h, idx), BaselineWindow) = At(h, Latest(idx, BaselineWindow))
      BY <3>2, <3>3, <3>5, AtLatest
    <3>8. QED
      BY <3>4, <3>6, <3>7
  <2>3. VoteIn(z)'.block <=> IsAnomalous(baseline', path)
    <3>1. PICK alarms \in SUBSET {"rate", "path", "scan", "trace", "bot"} :
            last'.votes = [i \in 1..Len(running) |-> VoteOf(running[i], ip, path, alarms)]
      BY Judged
    <3>2. VoteIn(z)' = VoteOf(z, ip, path, alarms)
      BY <1>6, <3>1, VoteFound
    <3>3. VoteOf(z, ip, path, alarms) = ZeroDayVote(baseline', path)
      BY DEF VoteOf
    <3>4. ZeroDayVote(baseline', path).block <=> IsAnomalous(baseline', path)
      BY DEF ZeroDayVote
    <3>5. QED
      BY <3>2, <3>3, <3>4
  <2> DEFINE bad == /\ Cardinality(W) >= MinSamples
                    /\ \/ Cardinality({f \in 1..3 : FarAt(h, n, W, f, Features[path][f], Deviation)})
                              + (IF path \in HighEntropy THEN 1 ELSE 0) >= 2
                       \/ \E f \in 1..3 : FarAt(h, n, W, f, Features[path][f], (3 * Deviation) \div 2)
  <2>4. IsAnomalous(baseline', path) <=> bad
    <3>1. IsAnomalous(At(h, InOrder(n, W)), path) <=> bad
      <4> HIDE DEF h, n, W
      <4>1. W # {} /\ path \in Paths
        BY <2>1
      <4>2. QED
        BY <1>1, <1>2, <1>4, <4>1, AnomalousAt
    <3> HIDE DEF bad, h, n, W
    <3>2. QED
      BY <2>2, <3>1
  <2> DEFINE size == Cardinality(W)
             sum(f) == Total([i \in 1..n |-> IF i \in W THEN Features[seen'[i].path][f] ELSE 0])
             far(f, t) ==
                 16 * size * (size * Features[seen'[n].path][f] - sum(f)) * (size * Features[seen'[n].path][f] - sum(f))
                   > t * t * Total([i \in 1..n |->
                        IF i \in W THEN (size * Features[seen'[i].path][f] - sum(f))
                                          * (size * Features[seen'[i].path][f] - sum(f)) ELSE 0])
             strange == Cardinality({f \in 1..3 : far(f, Deviation)})
                          + (IF seen'[n].path \in HighEntropy THEN 1 ELSE 0)
             dev == (3 * Deviation) \div 2
  <2>5. ZeroDayMatchesHistory' = (last' # Nothing /\ n \in mine =>
            (VoteIn(z)'.block <=>
                /\ size >= MinSamples
                /\ strange >= 2 \/ \E f \in 1..3 : far(f, dev)))
    BY DEF ZeroDayMatchesHistory, Nothing, SumOver, LastOf
  <2>6. \A f, t : far(f, t) <=> FarAt(h, n, W, f, Features[path][f], t)
    <3>1. h = [i \in 1..n |-> seen'[i].path]
      BY DEF PathAt
    <3> DEFINE hist == seen'
    <3>2. h = [i \in 1..Len(hist) |-> hist[i].path] /\ n = Len(hist) /\ hist[n].path = path
      BY <1>3, <3>1
    <3> SUFFICES ASSUME NEW f, NEW t
                 PROVE  far(f, t) <=> FarAt(h, n, W, f, Features[path][f], t)
      OBVIOUS
    <3> DEFINE v == Features[path][f]
    <3> HIDE DEF hist, n, W, h
    <3>3. LET value(i) == Features[hist[i].path][f]
              total == Total([i \in 1..Len(hist) |-> IF i \in W THEN value(i) ELSE 0])
          IN  FarAt([i \in 1..Len(hist) |-> hist[i].path], Len(hist), W, f, v, t) <=>
                 16 * size * (size * v - total) * (size * v - total)
                   > t * t * Total([i \in 1..Len(hist) |->
                                      IF i \in W THEN (size * value(i) - total) * (size * value(i) - total) ELSE 0])
      BY FarInHistory, ZenonT(40)
    <3>4. QED
      BY <3>2, <3>3 DEF hist
  <2> HIDE DEF far, n, W, h, mine, sum, size, dev
  <2>7. {f \in 1..3 : far(f, Deviation)} = {f \in 1..3 : FarAt(h, n, W, f, Features[path][f], Deviation)}
    BY <2>6
  <2>8. (\E f \in 1..3 : far(f, dev)) <=> \E f \in 1..3 : FarAt(h, n, W, f, Features[path][f], dev)
    BY <2>6
  <2>9. bad <=> /\ size >= MinSamples
                /\ strange >= 2 \/ \E f \in 1..3 : far(f, dev)
    BY <1>3, <2>7, <2>8, Zenon DEF size, dev
  <2> HIDE DEF bad, strange
  <2>10. QED
    BY <2>3, <2>4, <2>5, <2>9, Zenon
<1>7. QED
  BY <1>5, <1>6

LEMMA PathsQuiet ==
    ASSUME PathsInv, seen' = seen, behaviorVars' = behaviorVars, baseline' = baseline
    PROVE  PathsInv'
<1>1. visits' = visits
  BY DEF behaviorVars
<1>2. PathAt' = PathAt /\ \A s, c : SeenBy(s)' = SeenBy(s) /\ Mine(s, c)' = Mine(s, c)
  BY DEF PathAt, Mine, OfClient, SeenBy
<1>3. QED
  BY <1>1, <1>2 DEF PathsInv

-----------------------------------------------------------------------------
(* The inductive invariant: what the lists of each tracker keep of the      *)
(* history, and what the last request was told.                             *)

DetectionInv ==
    /\ SettingsInv
    /\ VotesInv
    /\ HistoryInv
    /\ TrackersInv
    /\ CountsInv
    /\ LockoutsInv
    /\ PathsInv
    /\ FloodersStayOut
    /\ AlarmsMatchHistory
    /\ ZeroDayMatchesHistory

\* With no request there is no verdict, and none to be wrong.
LEMMA NothingSaid ==
    ASSUME last = Nothing
    PROVE  VotesInv /\ FloodersStayOut /\ AlarmsMatchHistory /\ ZeroDayMatchesHistory
<1>1. VotesInv
  <2>1. last.votes = <<>>
    BY DEF Nothing
  <2>2. QED
    BY <2>1 DEF VotesInv
<1>2. FloodersStayOut
  BY DEF FloodersStayOut
<1>3. AlarmsMatchHistory
  BY DEF AlarmsMatchHistory
<1>4. ZeroDayMatchesHistory
  BY DEF ZeroDayMatchesHistory
<1>5. QED
  BY <1>1, <1>2, <1>3, <1>4

LEMMA NothingSaidNext ==
    ASSUME last' = Nothing
    PROVE  VotesInv' /\ FloodersStayOut' /\ AlarmsMatchHistory' /\ ZeroDayMatchesHistory'
<1>1. VotesInv'
  <2>1. last'.votes = <<>>
    BY DEF Nothing
  <2>2. QED
    BY <2>1 DEF VotesInv
<1>2. FloodersStayOut'
  BY DEF FloodersStayOut, Nothing
<1>3. AlarmsMatchHistory'
  BY DEF AlarmsMatchHistory, Nothing
<1>4. ZeroDayMatchesHistory'
  BY DEF ZeroDayMatchesHistory, Nothing
<1>5. QED
  BY <1>1, <1>2, <1>3, <1>4

LEMMA DetectionStarts == DetectionInit => DetectionInv
<1> SUFFICES ASSUME DetectionInit PROVE DetectionInv
  OBVIOUS
<1> USE DEF DetectionInit
<1>1. seen = <<>> /\ Len(seen) = 0 /\ now = 0
  OBVIOUS
<1>2. SettingsInv
  BY SettingsInit
<1>3. HistoryInv
  BY <1>1, TrafficAssumption DEF HistoryInv
<1>4. TrackersInv
  <2>1. \A X : <<>> \in Seq(X) /\ Len(<<>>) = 0
    OBVIOUS
  <2>2. BehaviorTypeOK
    BY <2>1, Windows DEF BehaviorInit, BehaviorTypeOK
  <2>3. DDoSTypeOK
    BY <2>1 DEF DDoSInit, DDoSTypeOK, NotBlocked
  <2>4. ZeroDayTypeOK
    BY <2>1, Windows DEF ZeroDayInit, ZeroDayTypeOK
  <2>5. QED
    BY <2>2, <2>3, <2>4 DEF TrackersInv
<1>5. \A s, c : SeenBy(s) = {} /\ Mine(s, c) = {}
  BY <1>1 DEF SeenBy, Mine, OfClient
<1>6. CountsInv
  <2>1. \A t : LateIn(seen, {}, t) = {}
    BY DEF LateIn
  <2>2. ASSUME NEW t0 PROVE Agrees(<<>>, {}, t0)
    BY <2>1, CountEmpty, FS_EmptySet DEF Agrees
  <2>3. \A c \in IPs : rates[c] = <<>> /\ client_times[c] = <<>>
    BY DEF BehaviorInit, DDoSInit
  <2>4. times = <<>>
    BY DEF DDoSInit
  <2>5. QED
    BY <1>5, <2>2, <2>3, <2>4 DEF CountsInv
<1>7. LockoutsInv
  <2>1. \A c \in IPs : blocked_until[c] = -1
    BY DEF DDoSInit, NotBlocked
  <2>2. \A t \in Int : t >= now => ~(-1 >= t)
    BY <1>1
  <2>3. QED
    BY <1>5, <2>1, <2>2 DEF LockoutsInv
<1>8. PathsInv
  <2>1. At(PathAt, InOrder(Len(seen), {})) = <<>>
    <3>1. InOrder(Len(seen), {}) = <<>>
      BY <1>1, InOrderNone
    <3>2. QED
      BY <3>1 DEF At
  <2>2. \A K \in Nat : Latest(<<>>, K) = <<>>
    BY LatestEmpty
  <2>3. baseline = <<>> /\ \A c \in IPs : visits[c] = <<>>
    BY DEF ZeroDayInit, BehaviorInit
  <2>4. QED
    BY <1>5, <2>1, <2>2, <2>3, Windows DEF PathsInv
<1>9. QED
  BY <1>2, <1>3, <1>4, <1>6, <1>7, <1>8, NothingSaid DEF DetectionInv

\* Every analysis keeps it.
LEMMA JudgeStep ==
    ASSUME DetectionInv, NEW ip \in IPs, NEW path \in Paths, Judge(ip, path)
    PROVE  DetectionInv'
<1>1. /\ SettingsInv /\ HistoryInv /\ TrackersInv /\ CountsInv /\ LockoutsInv /\ PathsInv
  BY DEF DetectionInv
<1>2. SettingsInv'
  BY <1>1, SettingsStep DEF DetectionNext
<1>3. VotesInv'
  BY <1>1, VotesGood
<1>4. HistoryInv'
  BY <1>1, HistoryNext
<1>5. TrackersInv'
  BY <1>1, TrackersStep
<1>6. CountsInv'
  BY <1>1, CountsStep
<1>7. LockoutsInv'
  BY <1>1, <1>4, <1>5, <1>6, LockoutsStep
<1>8. PathsInv'
  BY <1>1, PathsStep
<1>9. FloodersStayOut'
  BY <1>1, <1>4, <1>5, <1>6, <1>7, FloodersStep
<1>10. AlarmsMatchHistory'
  BY <1>1, <1>4, <1>5, <1>6, <1>8, AlarmsStep
<1>11. ZeroDayMatchesHistory'
  BY <1>1, <1>4, <1>8, ZeroDayStep
<1>12. QED
  BY <1>2, <1>3, <1>4, <1>5, <1>6, <1>7, <1>8, <1>9, <1>10, <1>11 DEF DetectionInv

\* What else happens leaves the trackers alone.
LEMMA QuietStep ==
    ASSUME DetectionInv, TimePasses \/ Admin
    PROVE  DetectionInv'
<1>1. /\ SettingsInv /\ HistoryInv /\ TrackersInv /\ CountsInv /\ LockoutsInv /\ PathsInv
  BY DEF DetectionInv
<1>2. SettingsInv'
  BY <1>1, SettingsStep DEF DetectionNext
<1>3. Quiet /\ last' = Nothing /\ behaviorVars' = behaviorVars /\ ddosVars' = ddosVars /\ baseline' = baseline
  BY <1>1, QuietSteps
<1>4. HistoryInv'
  BY <1>1, <1>3, QuietSteps
<1>5. TrackersInv'
  BY <1>1, <1>3 DEF TrackersInv, BehaviorTypeOK, DDoSTypeOK, ZeroDayTypeOK, behaviorVars, ddosVars
<1>6. CountsInv'
  BY <1>1, <1>3, CountsQuiet
<1>7. LockoutsInv'
  BY <1>1, <1>3, LockoutsQuiet
<1>8. PathsInv'
  BY <1>1, <1>3, PathsQuiet DEF Quiet
<1>9. QED
  BY <1>2, <1>3, <1>4, <1>5, <1>6, <1>7, <1>8, NothingSaidNext DEF DetectionInv

LEMMA StutterStep ==
    ASSUME DetectionInv, UNCHANGED detectionVars
    PROVE  DetectionInv'
<1>1. /\ SettingsInv /\ VotesInv /\ HistoryInv /\ TrackersInv /\ CountsInv /\ LockoutsInv /\ PathsInv
      /\ FloodersStayOut /\ AlarmsMatchHistory /\ ZeroDayMatchesHistory
  BY DEF DetectionInv
<1>2. /\ configVars' = configVars /\ behaviorVars' = behaviorVars /\ ddosVars' = ddosVars /\ baseline' = baseline
      /\ now' = now /\ seen' = seen /\ last' = last
  BY DEF detectionVars
<1>3. SettingsInv'
  BY <1>1, <1>2 DEF SettingsInv, ConfigTypeOK, Runs, configVars
<1>4. VotesInv'
  BY <1>1, <1>2 DEF VotesInv
<1>5. Quiet
  BY <1>1, <1>2, QuietSteps
<1>6. HistoryInv'
  BY <1>1, <1>5, QuietSteps
<1>7. TrackersInv'
  BY <1>1, <1>2 DEF TrackersInv, BehaviorTypeOK, DDoSTypeOK, ZeroDayTypeOK, behaviorVars, ddosVars
<1>8. CountsInv'
  BY <1>1, <1>2, <1>5, CountsQuiet
<1>9. LockoutsInv'
  BY <1>1, <1>2, <1>5, LockoutsQuiet
<1>10. PathsInv'
  BY <1>1, <1>2, PathsQuiet
<1>11. FloodersStayOut'
  <2>1. \A s, i, w : InWindow(s, i, w)' = InWindow(s, i, w)
    BY <1>2 DEF InWindow, SeenBy
  <2>2. \A places, c : OfClient(places, c)' = OfClient(places, c)
    BY <1>2 DEF OfClient
  <2>3. \A s : SeenBy(s)' = SeenBy(s) /\ VoteIn(s)' = VoteIn(s)
    BY <1>2 DEF SeenBy, VoteIn
  <2>4. \A i : Floods(i)' <=> Floods(i)
    BY <1>2, <2>1, <2>2 DEF Floods
  <2>5. QED
    BY <1>1, <1>2, <2>1, <2>2, <2>3, <2>4 DEF FloodersStayOut
<1>12. AlarmsMatchHistory'
  BY <1>1, <1>2 DEF AlarmsMatchHistory, InWindow, OfClient, SeenBy
<1>13. ZeroDayMatchesHistory'
  <2>1. \A s : SeenBy(s)' = SeenBy(s) /\ VoteIn(s)' = VoteIn(s)
    BY <1>2 DEF SeenBy, VoteIn
  <2>2. seen' = seen /\ last' = last /\ ZeroDayMatchesHistory
    BY <1>1, <1>2
  <2>3. QED
    BY <2>1, <2>2, ZenonT(40) DEF ZeroDayMatchesHistory, SumOver
<1>14. QED
  BY <1>3, <1>4, <1>6, <1>7, <1>8, <1>9, <1>10, <1>11, <1>12, <1>13 DEF DetectionInv

LEMMA DetectionKeeps == DetectionInv /\ [DetectionNext]_detectionVars => DetectionInv'
<1> SUFFICES ASSUME DetectionInv, [DetectionNext]_detectionVars
             PROVE  DetectionInv'
  OBVIOUS
<1>1. ASSUME NEW ip \in IPs, NEW path \in Paths, Judge(ip, path)
      PROVE  DetectionInv'
  BY <1>1, JudgeStep
<1>2. CASE TimePasses \/ Admin
  BY <1>2, QuietStep
<1>3. CASE UNCHANGED detectionVars
  BY <1>3, StutterStep
<1>4. QED
  BY <1>1, <1>2, <1>3 DEF DetectionNext

\* In every reachable state the trackers agree with the history.
THEOREM TrackersAgree == DetectionSpec => []DetectionInv
<1>1. DetectionInit => DetectionInv
  BY DetectionStarts
<1>2. DetectionInv /\ [DetectionNext]_detectionVars => DetectionInv'
  BY DetectionKeeps
<1>3. QED
  BY <1>1, <1>2, PTL DEF DetectionSpec

-----------------------------------------------------------------------------
(* What follows for the code. *)

\* The variables keep their types: the settings, the trackers' lists, each
\* trimmed to its length, the votes and the verdict drawn from them.
THEOREM DetectionTypes == DetectionSpec => []DetectionTypeOK
<1>1. DetectionInv => DetectionTypeOK
  <2> SUFFICES ASSUME DetectionInv PROVE DetectionTypeOK
    OBVIOUS
  <2>1. ConfigTypeOK
    BY DEF DetectionInv, SettingsInv
  <2>2. BehaviorTypeOK /\ DDoSTypeOK /\ ZeroDayTypeOK
    BY DEF DetectionInv, TrackersInv
  <2>3. now \in 0..MaxTime /\ seen \in Seq(Request)
    BY DEF DetectionInv, HistoryInv
  <2>4. last.votes \in Seq(Vote)
    BY DEF DetectionInv, VotesInv
  <2>5. verdict \in [block : BOOLEAN, level : Levels]
    BY VerdictFollows DEF DetectionInv
  <2>6. QED
    BY <2>1, <2>2, <2>3, <2>4, <2>5 DEF DetectionTypeOK
<1>2. QED
  BY <1>1, TrackersAgree, PTL

\* A change of the settings takes effect (_setup_strategies): after a toggle or a
\* reset the proxy runs the strategies that are enabled, each once, however many
\* strategies there are and in whatever order the changes came.
THEOREM SettingsTake == DetectionSpec => []SettingsTakeEffect
<1>1. DetectionInv => SettingsTakeEffect
  BY RunningOnce DEF DetectionInv, SettingsInv, SettingsTakeEffect
<1>2. QED
  BY <1>1, TrackersAgree, PTL

\* A request is blocked exactly when a strategy votes to block it; its level is no
\* worse than the worst vote, and never none when it is blocked (_aggregate_results
\* and ThreatScorer). The weighted mean of the votes to block is over one half,
\* because every such vote is, and five votes are few enough for the percentile
\* to see the worst of them.
THEOREM VerdictIsDecided == DetectionSpec => []VerdictFollowsVotes
<1>1. DetectionInv => VerdictFollowsVotes
  BY VerdictFollows DEF DetectionInv
<1>2. QED
  BY <1>1, TrackersAgree, PTL

\* The flood detector blocks exactly the clients that flooded within BlockTime,
\* and everyone while all of them flood, whatever its window and its thresholds
\* are: its lists, cleaned with every request it looks at, hold the window.
THEOREM FloodersAreOut == DetectionSpec => []FloodersStayOut
<1>1. DetectionInv => FloodersStayOut
  BY DEF DetectionInv
<1>2. QED
  BY <1>1, TrackersAgree, PTL

\* The behavioural strategy sees what the whole history would show it
\* (track_request): trimming the times and the paths loses no alarm and makes none.
THEOREM AlarmsAreRight == DetectionSpec => []AlarmsMatchHistory
<1>1. DetectionInv => AlarmsMatchHistory
  BY DEF DetectionInv
<1>2. QED
  BY <1>1, TrackersAgree, PTL

\* The anomaly detector's sums, over its trimmed lists, judge a request as the
\* squared distances from the mean over the history would (_update_baseline).
THEOREM AnomaliesAreRight == DetectionSpec => []ZeroDayMatchesHistory
<1>1. DetectionInv => ZeroDayMatchesHistory
  BY DEF DetectionInv
<1>2. QED
  BY <1>1, TrackersAgree, PTL

=============================================================================
