------------------------- MODULE RateLimiter_proofs -------------------------
(***************************************************************************)
(* The rate limiter's guarantees, for every set of clients, every set of    *)
(* settings and a clock without bound. The lemmas are about RLStep, what    *)
(* any user of the limiter does, so that the pipeline can use them too.     *)
(***************************************************************************)
EXTENDS RateLimiter, FiniteSetTheorems, TLAPS

-----------------------------------------------------------------------------
(* The inductive invariant. *)

\* The history is finite, numbered without gaps, and in the past.
Numbered ==
    /\ IsFiniteSet(admitted)
    /\ allowed_count = Cardinality(admitted)
    /\ \A a \in admitted : a.id < allowed_count /\ a.at <= now

\* A client's log holds nothing but its own admissions.
LogIsSound == \A ip \in IPs : requests[ip] \subseteq {a \in admitted : a.ip = ip}

\* Its log still holds every admission younger than w.
LogIsComplete(w) == \A a \in admitted : now - a.at < w => a \in requests[a.ip]

\* No setting has a window shorter than w.
NoShorter(w) == \A l \in Limits : w <= l.window

\* WindowGuarantee for all instants, those to come included.
WindowBound == \A ip \in IPs, t \in Nat : Cardinality(InWindow(ip, t, MinWindow)) <= MaxLimit

-----------------------------------------------------------------------------
LEMMA InitType == ASSUME RLInit PROVE RLTypeOK
BY LimitsAssumption DEF RLInit, LimiterInit, RLTypeOK

LEMMA EntryType == ASSUME RLTypeOK, NEW ip \in IPs PROVE Entry(ip) \in Entries
BY DEF RLTypeOK, Entry, Entries

LEMMA StepType == ASSUME RLTypeOK, [RLStep]_rlVars PROVE RLTypeOK'
<1> USE DEF RLTypeOK
<1>1. CASE UNCHANGED rlVars
  BY <1>1 DEF rlVars, limiterVars
<1>2. ASSUME NEW ip \in IPs, NEW l \in Limits, Refuse(ip, l), UNCHANGED now
      PROVE  RLTypeOK'
  BY <1>2 DEF Refuse, Live
<1>3. ASSUME NEW ip \in IPs, NEW l \in Limits, Admit(ip, l), UNCHANGED now
      PROVE  RLTypeOK'
  BY <1>3, EntryType DEF Admit, Live
<1>4. ASSUME NEW ip \in IPs, QueryCount(ip), UNCHANGED now
      PROVE  RLTypeOK'
  BY <1>4 DEF QueryCount, Live
<1>5. CASE Tick /\ UNCHANGED limiterVars
  BY <1>5 DEF Tick, limiterVars
<1>6. QED
  BY <1>1, <1>2, <1>3, <1>4, <1>5 DEF RLStep

LEMMA NextIsStep == ASSUME [RLNext]_rlVars PROVE [RLStep]_rlVars
BY DEF RLNext

\* The limiter's variables keep their types, under any checks and settings.
THEOREM LimiterTypeCorrect == RLSpec => []RLTypeOK
<1>1. RLTypeOK /\ [RLNext]_rlVars => RLTypeOK'
  BY StepType, NextIsStep
<1>2. QED
  BY InitType, <1>1, PTL DEF RLSpec

-----------------------------------------------------------------------------
LEMMA NumberedInit == ASSUME RLInit PROVE Numbered
BY FS_EmptySet DEF RLInit, LimiterInit, Numbered

LEMMA NumberedStep ==
    ASSUME RLTypeOK, Numbered, [RLStep]_rlVars
    PROVE  Numbered'
<1> USE DEF Numbered
<1>1. ASSUME NEW ip \in IPs, NEW l \in Limits, Admit(ip, l), UNCHANGED now
      PROVE  Numbered'
  <2>1. Entry(ip) \notin admitted
    BY DEF Entry, RLTypeOK, Entries
  <2>2. /\ IsFiniteSet(admitted')
        /\ Cardinality(admitted') = Cardinality(admitted) + 1
    BY <1>1, <2>1, FS_AddElement DEF Admit
  <2>3. \A a \in admitted' : a.id < allowed_count' /\ a.at <= now'
    BY <1>1 DEF Admit, Entry, RLTypeOK, Entries
  <2>4. QED
    BY <1>1, <2>2, <2>3 DEF Admit
<1>2. CASE UNCHANGED <<now, admitted, allowed_count>>
  BY <1>2
<1>3. CASE Tick /\ UNCHANGED limiterVars
  BY <1>3 DEF Tick, limiterVars, RLTypeOK, Entries
<1>4. QED
  BY <1>1, <1>2, <1>3 DEF RLStep, Refuse, QueryCount, rlVars, limiterVars

LEMMA SoundInit == ASSUME RLInit PROVE LogIsSound
BY DEF RLInit, LimiterInit, LogIsSound

LEMMA SoundStep ==
    ASSUME RLTypeOK, LogIsSound, [RLStep]_rlVars
    PROVE  LogIsSound'
<1> USE DEF LogIsSound
<1>1. ASSUME NEW ip \in IPs, NEW l \in Limits, Admit(ip, l)
      PROVE  LogIsSound'
  BY <1>1 DEF Admit, Live, Entry, RLTypeOK
<1>2. ASSUME NEW ip \in IPs, NEW l \in Limits, Refuse(ip, l)
      PROVE  LogIsSound'
  BY <1>2 DEF Refuse, Live, RLTypeOK
<1>3. ASSUME NEW ip \in IPs, QueryCount(ip)
      PROVE  LogIsSound'
  BY <1>3 DEF QueryCount, Live, RLTypeOK
<1>4. CASE UNCHANGED limiterVars
  BY <1>4 DEF limiterVars
<1>5. QED
  BY <1>1, <1>2, <1>3, <1>4 DEF RLStep, rlVars

LEMMA CompleteInit == ASSUME RLInit, NEW w PROVE LogIsComplete(w)
BY DEF RLInit, LimiterInit, LogIsComplete

\* Cleaning up with a window of at least w drops nothing younger than w.
LEMMA CompleteStep ==
    ASSUME NEW w \in Nat, NoShorter(w), RLTypeOK, LogIsComplete(w), [RLStep]_rlVars
    PROVE  LogIsComplete(w)'
<1> USE DEF LogIsComplete, RLTypeOK, Entries
<1>1. \A l \in Limits : l.window \in Nat /\ w <= l.window
  BY LimitsAssumption DEF NoShorter
<1>2. ASSUME NEW ip \in IPs, NEW l \in Limits, Admit(ip, l), UNCHANGED now
      PROVE  LogIsComplete(w)'
  BY <1>1, <1>2 DEF Admit, Live, Entry
<1>3. ASSUME NEW ip \in IPs, NEW l \in Limits, Refuse(ip, l), UNCHANGED now
      PROVE  LogIsComplete(w)'
  BY <1>1, <1>3 DEF Refuse, Live
<1>4. ASSUME NEW ip \in IPs, QueryCount(ip), UNCHANGED now
      PROVE  LogIsComplete(w)'
  BY <1>1, <1>4 DEF QueryCount, Live
<1>5. CASE Tick /\ UNCHANGED limiterVars
  BY <1>5 DEF Tick, limiterVars
<1>6. CASE UNCHANGED rlVars
  BY <1>6 DEF rlVars, limiterVars
<1>7. QED
  BY <1>2, <1>3, <1>4, <1>5, <1>6 DEF RLStep

-----------------------------------------------------------------------------
LEMMA WindowInit == ASSUME RLInit PROVE WindowBound
<1>1. \A ip \in IPs, t \in Nat : InWindow(ip, t, MinWindow) = {}
  BY DEF RLInit, LimiterInit, InWindow
<1>2. QED
  BY <1>1, FS_EmptySet, LimitsAssumption DEF WindowBound

LEMMA WindowFinite ==
    ASSUME Numbered, NEW ip, NEW t, NEW w
    PROVE  IsFiniteSet(InWindow(ip, t, w))
BY FS_Subset DEF Numbered, InWindow

LEMMA AddOne ==
    ASSUME NEW S, IsFiniteSet(S), NEW x
    PROVE  /\ IsFiniteSet(S \cup {x})
           /\ Cardinality(S \cup {x}) \in Nat
           /\ Cardinality(S \cup {x}) <= Cardinality(S) + 1
<1>1. Cardinality(S) \in Nat /\ Cardinality(S \cup {x}) \in Nat /\ IsFiniteSet(S \cup {x})
  BY FS_AddElement, FS_CardinalityType
<1>2. Cardinality(S \cup {x}) = IF x \in S THEN Cardinality(S) ELSE Cardinality(S) + 1
  BY FS_AddElement
<1>3. QED
  BY <1>1, <1>2

\* An admission finds fewer than the limit in every window it joins: all of
\* the window's members are still in the log, and survive the cleanup.
LEMMA WindowAdmit ==
    ASSUME RLTypeOK, Numbered, LogIsSound, LogIsComplete(MinWindow), WindowBound,
           NEW ip \in IPs, NEW l \in Limits, Admit(ip, l), UNCHANGED now
    PROVE  WindowBound'
<1> DEFINE kept == Live(ip, l.window)
<1>1. /\ IsFiniteSet(kept)
      /\ Cardinality(kept) < l.max
  BY FS_Subset DEF Admit, Live, LogIsSound, Numbered
<1>2. /\ IsFiniteSet(kept \cup {Entry(ip)})
      /\ Cardinality(kept \cup {Entry(ip)}) <= MaxLimit
  <2>1. /\ Cardinality(kept) \in Nat
        /\ l.max \in Nat
        /\ l.max <= MaxLimit
    BY <1>1, FS_CardinalityType, LimitsAssumption
  <2>2. /\ IsFiniteSet(kept \cup {Entry(ip)})
        /\ Cardinality(kept \cup {Entry(ip)}) \in Nat
        /\ Cardinality(kept \cup {Entry(ip)}) <= Cardinality(kept) + 1
    BY <1>1, AddOne
  <2>3. QED
    BY <1>1, <2>1, <2>2, LimitsAssumption
<1>3. SUFFICES ASSUME NEW c \in IPs, NEW t \in Nat
               PROVE  Cardinality(InWindow(c, t, MinWindow)') <= MaxLimit
  BY DEF WindowBound
<1>4. CASE c = ip /\ now <= t
  <2>1. \A a \in admitted : a \in InWindow(c, t, MinWindow) => a \in kept
    BY <1>4, LimitsAssumption DEF InWindow, Live, LogIsComplete, RLTypeOK, Entries
  <2>2. InWindow(c, t, MinWindow)' \subseteq kept \cup {Entry(ip)}
    BY <2>1 DEF InWindow, Admit
  <2>3. Cardinality(InWindow(c, t, MinWindow)') <= Cardinality(kept \cup {Entry(ip)})
    BY <1>2, <2>2, FS_Subset
  <2>4. /\ Cardinality(InWindow(c, t, MinWindow)') \in Nat
        /\ Cardinality(kept \cup {Entry(ip)}) \in Nat
    BY <1>2, <2>2, FS_Subset, FS_CardinalityType
  <2>5. QED
    BY <1>2, <2>3, <2>4, LimitsAssumption
<1>5. CASE c # ip \/ t < now
  <2>1. InWindow(c, t, MinWindow)' = InWindow(c, t, MinWindow)
    BY <1>5 DEF InWindow, Admit, Entry, RLTypeOK, Entries
  <2>2. QED
    BY <2>1 DEF WindowBound
<1>6. QED
  BY <1>4, <1>5 DEF RLTypeOK

LEMMA WindowStep ==
    ASSUME RLTypeOK, Numbered, LogIsSound, LogIsComplete(MinWindow), WindowBound,
           [RLStep]_rlVars
    PROVE  WindowBound'
<1>1. CASE UNCHANGED admitted
  BY <1>1 DEF WindowBound, InWindow
<1>2. QED
  BY <1>1, WindowAdmit DEF RLStep, rlVars, limiterVars, Refuse, QueryCount, Tick

\* The strengthening of WindowGuarantee that every step preserves.
LimiterInv ==
    /\ RLTypeOK
    /\ Numbered
    /\ LogIsSound
    /\ LogIsComplete(MinWindow)
    /\ WindowBound

LEMMA LimiterInvInit == ASSUME RLInit PROVE LimiterInv
BY InitType, NumberedInit, SoundInit, CompleteInit, WindowInit DEF LimiterInv

LEMMA LimiterInvStep == ASSUME LimiterInv, [RLStep]_rlVars PROVE LimiterInv'
<1>1. MinWindow \in Nat /\ NoShorter(MinWindow)
  BY LimitsAssumption DEF NoShorter
<1>2. QED
  BY <1>1, StepType, NumberedStep, SoundStep, CompleteStep, WindowStep DEF LimiterInv

LEMMA InvGivesWindow == ASSUME LimiterInv PROVE WindowGuarantee
BY DEF LimiterInv, WindowBound, WindowGuarantee, RLTypeOK

\* No client gets more than the largest limit through in any span as short
\* as the shortest window, however settings change and pages are read.
THEOREM LimiterWindow == RLSpec => []WindowGuarantee
<1>1. LimiterInv /\ [RLNext]_rlVars => LimiterInv'
  BY LimiterInvStep, NextIsStep
<1>2. QED
  BY LimiterInvInit, InvGivesWindow, <1>1, PTL DEF RLSpec

-----------------------------------------------------------------------------
(* Refusals. *)

\* The step of RefusalDeserved, for one client.
Deserved(ip) ==
    refusals'[ip] > refusals[ip] =>
        Cardinality(InWindow(ip, now, limit'.window)) >= limit'.max

\* The refused client: all its log still held was admitted within the window.
LEMMA RefuseIsDeserved ==
    ASSUME LimiterInv, NEW ip \in IPs, NEW l \in Limits, Refuse(ip, l)
    PROVE  Deserved(ip)
<1>1. /\ l.max \in Nat
      /\ Cardinality(Live(ip, l.window)) >= l.max
      /\ limit' = l
  BY LimitsAssumption DEF Refuse
<1>2. Live(ip, l.window) \subseteq InWindow(ip, now, l.window)
  BY DEF LimiterInv, LogIsSound, Numbered, Live, InWindow
<1>3. IsFiniteSet(InWindow(ip, now, l.window))
  BY WindowFinite DEF LimiterInv
<1>4. Cardinality(Live(ip, l.window)) <= Cardinality(InWindow(ip, now, l.window))
  BY <1>2, <1>3, FS_Subset
<1>5. /\ Cardinality(InWindow(ip, now, l.window)) \in Nat
      /\ Cardinality(Live(ip, l.window)) \in Nat
  BY <1>2, <1>3, FS_Subset, FS_CardinalityType
<1>6. QED
  BY <1>1, <1>4, <1>5 DEF Deserved

\* Nobody else is refused by that step.
LEMMA OthersNotRefused ==
    ASSUME LimiterInv, NEW ip \in IPs, refusals'[ip] = refusals[ip]
    PROVE  Deserved(ip)
BY DEF LimiterInv, RLTypeOK, Deserved

LEMMA StepIsDeserved ==
    ASSUME LimiterInv, [RLStep]_rlVars
    PROVE  \A ip \in IPs : Deserved(ip)
<1> SUFFICES ASSUME NEW ip \in IPs
             PROVE  Deserved(ip)
  OBVIOUS
<1>1. ASSUME NEW client \in IPs, NEW l \in Limits, Refuse(client, l)
      PROVE  Deserved(ip)
  <2>1. CASE ip = client
    BY <1>1, <2>1, RefuseIsDeserved
  <2>2. CASE ip # client
    BY <1>1, <2>2, OthersNotRefused DEF Refuse, LimiterInv, RLTypeOK
  <2>3. QED
    BY <2>1, <2>2
<1>2. CASE UNCHANGED refusals
  BY <1>2, OthersNotRefused
<1>3. QED
  BY <1>1, <1>2 DEF RLStep, Admit, QueryCount, Tick, limiterVars, rlVars

\* Every refusal is deserved by the client refused: a full quota of its own
\* requests was admitted in the window just ended.
THEOREM LimiterRefusal == RLSpec => RefusalDeserved
<1>1. LimiterInv /\ [RLNext]_rlVars => [\A ip \in IPs : Deserved(ip)]_rlVars
  BY NextIsStep, StepIsDeserved
<1>2. LimiterInv /\ [RLNext]_rlVars => LimiterInv'
  BY LimiterInvStep, NextIsStep
<1>3. QED
  BY LimiterInvInit, <1>1, <1>2, PTL DEF RLSpec, RefusalDeserved, Deserved

-----------------------------------------------------------------------------
(* With a single setting: the abstract window rule. *)

\* What the log holds of the window is what the history says of it.
LEMMA LiveIsWindow ==
    ASSUME RLTypeOK, LogIsSound, NEW w \in Nat, LogIsComplete(w), NEW ip \in IPs
    PROVE  Live(ip, w) = {a \in admitted : a.ip = ip /\ now - a.at < w}
BY DEF RLTypeOK, LogIsSound, LogIsComplete, Live

\* The instance has its own name for the operator of FiniteSets.
LEMMA SameCardinality == ASSUME NEW S PROVE AsWindow!Cardinality(S) = Cardinality(S)
BY DEF AsWindow!Cardinality, Cardinality, AsWindow!IsFiniteSet, IsFiniteSet

ExactInv == RLTypeOK /\ Numbered /\ LogIsSound /\ LogIsComplete(DefaultLimit.window)

LEMMA ExactInit ==
    ASSUME RLInit
    PROVE  ExactInv /\ AsWindow!Init
<1>1. ExactInv
  BY InitType, NumberedInit, SoundInit, CompleteInit DEF ExactInv
<1>2. AsWindow!Init
  BY DEF RLInit, LimiterInit, AsWindow!Init
<1>3. QED
  BY <1>1, <1>2

LEMMA ExactStep ==
    ASSUME Limits = {DefaultLimit}, ExactInv, [RLStep]_rlVars
    PROVE  ExactInv' /\ [AsWindow!Next]_(AsWindow!vars)
<1> DEFINE w == DefaultLimit.window
<1> USE DEF ExactInv
<1>1. /\ w \in Nat
      /\ DefaultLimit.max \in Nat
      /\ NoShorter(w)
  BY LimitsAssumption DEF NoShorter
<1>2. ExactInv'
  BY <1>1, StepType, NumberedStep, SoundStep, CompleteStep
<1>3. [AsWindow!Next]_(AsWindow!vars)
  <2> USE DEF AsWindow!vars
  <2>1. \A ip \in IPs : Live(ip, w) = {a \in admitted : a.ip = ip /\ now - a.at < w}
    BY <1>1, LiveIsWindow
  <2>2. \A ip \in IPs : AsWindow!Used(ip) = Cardinality(Live(ip, w))
    BY <2>1, SameCardinality DEF AsWindow!Used
  <2>3. ASSUME NEW ip \in IPs, Admit(ip, DefaultLimit), UNCHANGED now
        PROVE  AsWindow!Admit(ip)
    BY <2>2, <2>3, SameCardinality DEF Admit, Entry, AsWindow!Admit, Numbered
  <2>4. ASSUME NEW ip \in IPs, Refuse(ip, DefaultLimit), UNCHANGED now
        PROVE  AsWindow!Refuse(ip)
    BY <2>2, <2>4 DEF Refuse, AsWindow!Refuse
  <2>5. CASE Tick /\ UNCHANGED limiterVars
    BY <2>5 DEF Tick, limiterVars, AsWindow!Tick, AsWindow!Next
  <2>6. CASE UNCHANGED <<now, admitted, blocked_count>>
    BY <2>6
  <2>7. QED
    BY <2>3, <2>4, <2>5, <2>6 DEF RLStep, rlVars, limiterVars, QueryCount, AsWindow!Next
<1>4. QED
  BY <1>2, <1>3

\* If the setting never changes, the limiter implements the rule that admits
\* a request exactly when its window has room: forgetting old entries, and
\* dropping empty logs, never changes a decision.
THEOREM LimiterIsExact ==
    ASSUME Limits = {DefaultLimit}
    PROVE  RLSpec => ExactWindow
<1>1. ExactInv /\ [RLNext]_rlVars => ExactInv' /\ [AsWindow!Next]_(AsWindow!vars)
  BY ExactStep, NextIsStep
<1>2. QED
  BY ExactInit, <1>1, PTL DEF RLSpec, ExactWindow, AsWindow!Spec

=============================================================================
