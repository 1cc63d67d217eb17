-------------------------- MODULE LiveView_proofs --------------------------
(***************************************************************************)
(* What the page that follows the log shows, for all numbers of rows,       *)
(* fetches, requests and failures, and all sizes of a page and of the log   *)
(* in memory.                                                               *)
(***************************************************************************)
EXTENDS LiveView, Lists_proofs

-----------------------------------------------------------------------------
\* Without it Made, a sum with a cardinality, could be anything.
Typed == TypeOK /\ IsFiniteSet(unsaved)

(* Between fetches, and while they are under way. *)

Busy(s) == fetches[s].phase # "idle"
Resets == \E s \in Slots : Busy(s) /\ fetches[s].reset

\* rows are a page of the n oldest rows.
IsPage(rows, n, offset) ==
    /\ rows # <<>> => offset + Len(rows) <= n
    /\ Len(rows) < Batch => offset + Len(rows) >= n
    /\ \A j \in 1..Len(rows) : rows[j] = table[n - offset - j + 1]

\* What was shown already when n rows were read is kept in view.
AnswerFits(s, n) ==
    LET f == fetches[s]
    IN  /\ IsPage(f.rows, n, f.offset)
        /\ f.reset => n = mark
        /\ ~f.reset => \A i \in 1..mark : i > n - f.offset => IsShown(i)

IdleIsIdle == \A s \in Slots : ~Busy(s) => fetches[s] = Idle

OneFetch ==
    "overlap" \notin disturbed =>
        \A s \in Slots : Busy(s) =>
            /\ \A t \in Slots : Busy(t) => t = s
            /\ fetches[s].offset = logOffset
            /\ fetches[s].reset => logOffset = 0
            /\ fetches[s].phase = "answered" => \E n \in mark..Len(table) : AnswerFits(s, n)

\* The properties, when a fetch is under way, too.
SkipsNothing ==
    "overlap" \notin disturbed =>
        \A i \in 1..mark : i > Len(table) - logOffset => IsShown(i)

Exact ==
    /\ IsPrefix(allLogs, Reverse(table))
    /\ logOffset = Len(allLogs)
    /\ allLogs # <<>> /\ ~more => Len(allLogs) = Len(table)

StaysExact ==
    "overlap" \notin disturbed /\ "live" \notin disturbed =>
        /\ Resets => allLogs = <<>>
        /\ Len(table) = mark => Exact

OnWire(i) == \E k \in 1..Len(wire) : wire[k] = table[i]

\* Once a reset is answered, what comes later is on the wire until it arrives.
MissesNothing ==
    "overlap" \notin disturbed /\ "loss" \notin disturbed =>
        /\ registered
        /\ \A i \in mark + 1..Len(table) : table[i].sample = 0 =>
            /\ ~Resets => IsShown(i) \/ OnWire(i)
            /\ \A s \in Slots : fetches[s].phase = "answered" /\ fetches[s].reset => OnWire(i)

LiveInv ==
    /\ Typed
    /\ IdleIsIdle
    /\ OneFetch
    /\ SkipsNothing
    /\ StaysExact
    /\ MissesNothing

-----------------------------------------------------------------------------
(* What the operators return. *)

LEMMA Sizes ==
    /\ Batch \in Nat \ {0} /\ MaxLogSize \in Nat \ {0} /\ SampleAttacks \in Nat \ {0}
    /\ MaxCalls \in Nat \ {0} /\ MaxFaults \in Nat \ {0}
BY LiveAssumption

LEMMA Concat ==
    ASSUME NEW S, NEW s \in Seq(S), NEW t \in Seq(S)
    PROVE  /\ s \o t \in Seq(S)
           /\ Len(s \o t) = Len(s) + Len(t)
           /\ \A i \in 1..Len(s) : (s \o t)[i] = s[i]
           /\ \A i \in 1..Len(t) : (s \o t)[Len(s) + i] = t[i]
OBVIOUS

LEMMA TrimType ==
    ASSUME NEW log \in Seq(Entries)
    PROVE  Trim(log) \in Seq(Entries) /\ Len(Trim(log)) <= MaxLogSize
<1>1. MaxLogSize \in Nat
  BY Sizes
<1>2. /\ Trim(log) \in Seq(Entries)
      /\ Len(Trim(log)) = Len(log) - Cut(log, MaxLogSize)
  BY <1>1, LatestOnes DEF Trim
<1>3. Len(log) - Cut(log, MaxLogSize) <= MaxLogSize
  BY <1>1 DEF Cut
<1>4. QED
  BY <1>2, <1>3

LEMMA MadeType ==
    ASSUME Typed
    PROVE  /\ Cardinality(unsaved) \in Nat
           /\ Len(table) \in Nat
           /\ Made \in Nat
           /\ \A i \in Nat : /\ IsFiniteSet(unsaved \cup {Made + i + 1})
                            /\ Cardinality(unsaved \cup {Made + i + 1}) = Cardinality(unsaved) + 1
<1>1. Len(table) \in Nat
  BY DEF Typed, TypeOK
<1>2. Cardinality(unsaved) \in Nat
  BY FS_CardinalityType DEF Typed
<1>3. Made \in Nat
  BY <1>1, <1>2 DEF Made
<1>4. ASSUME NEW i \in Nat
      PROVE  /\ IsFiniteSet(unsaved \cup {Made + i + 1})
             /\ Cardinality(unsaved \cup {Made + i + 1}) = Cardinality(unsaved) + 1
  <2>1. Made + i + 1 \notin unsaved
    BY <1>3 DEF Typed, TypeOK
  <2>2. QED
    BY <2>1, FS_AddElement DEF Typed
<1>5. QED
  BY <1>1, <1>2, <1>3, <1>4

\* A page holds the rows it should.
LEMMA PageIsPage ==
    ASSUME TypeOK, NEW offset \in Nat
    PROVE  Page(offset) \in Seq(Entries) /\ IsPage(Page(offset), Len(table), offset)
<1> DEFINE N == Len(table)
           back == Reverse(table)
           last == Min({offset + Batch, N})
<1>1. N \in Nat /\ Batch \in Nat \ {0}
  BY Sizes DEF TypeOK
<1>2. /\ back \in Seq(Entries) /\ Len(back) = N
      /\ \A i \in 1..N : back[i] = table[N - i + 1]
  BY <1>1 DEF Reverse, TypeOK
<1>3. last = IF offset + Batch <= N THEN offset + Batch ELSE N
  BY <1>1 DEF Min
<1> HIDE DEF last, back
<1>4. CASE offset + 1 <= last
  <2>1. offset + 1 \in 1..N /\ last \in 1..N
    BY <1>1, <1>3, <1>4
  <2>2. /\ SubSeq(back, offset + 1, last) \in Seq(Entries)
        /\ Len(SubSeq(back, offset + 1, last)) = last - offset
        /\ \A j \in 1..last - offset : SubSeq(back, offset + 1, last)[j] = back[offset + j]
    BY <1>2, <1>4, <2>1
  <2>3. \A j \in 1..last - offset : offset + j \in 1..N /\ N - (offset + j) + 1 = N - offset - j + 1
    BY <1>1, <2>1
  <2>4. Page(offset) = SubSeq(back, offset + 1, last)
    BY DEF Page, back, last
  <2> DEFINE rows == Page(offset)
  <2>5. rows \in Seq(Entries) /\ Len(rows) = last - offset
    BY <2>2, <2>4
  <2>6. \A j \in 1..Len(rows) : rows[j] = table[N - offset - j + 1]
    BY <1>2, <2>2, <2>3, <2>4, <2>5
  <2>7. offset + Len(rows) <= N
    BY <1>1, <2>1, <2>5
  <2>8. Len(rows) < Batch => offset + Len(rows) >= N
    BY <1>1, <1>3, <2>1, <2>5
  <2> HIDE DEF rows
  <2>9. IsPage(rows, Len(table), offset)
    BY <2>6, <2>7, <2>8 DEF IsPage
  <2>10. QED
    BY <2>5, <2>9 DEF rows
<1>5. CASE ~(offset + 1 <= last)
  <2>1. Page(offset) = <<>>
    BY <1>1, <1>2, <1>3, <1>5 DEF Page, back, last
  <2>2. offset >= N
    BY <1>1, <1>3, <1>5
  <2>3. QED
    BY <1>1, <2>1, <2>2 DEF IsPage
<1>6. QED
  BY <1>4, <1>5

LEMMA SampleRowsType ==
    ASSUME Typed, NEW k \in 0..SampleAttacks
    PROVE  /\ SampleRows(k) \in Seq(Entries) /\ Len(SampleRows(k)) = k
           /\ \A i \in 1..k : SampleRows(k)[i].sample = i
<1>1. Made \in Nat /\ SampleAttacks \in Nat
  BY MadeType, Sizes
<1>2. \A i \in 1..k : Entry(Made + i, i) \in Entries /\ Entry(Made + i, i).sample = i
  BY <1>1 DEF Entry, Entries
<1>3. k \in Nat /\ \A i \in 1..k : SampleRows(k)[i] = Entry(Made + i, i)
  BY <1>1 DEF SampleRows
<1>4. SampleRows(k) \in [1..k -> Entries]
  BY <1>2 DEF SampleRows
<1>5. QED
  BY <1>2, <1>3, <1>4

-----------------------------------------------------------------------------
(* The types, step by step. *)

FetchType == [phase : {"idle", "sent", "answered"}, reset : BOOLEAN, offset : Nat, rows : Seq(Entries)]

LEMMA NoteType ==
    ASSUME Typed, NEW causes \in SUBSET Causes
    PROVE  /\ Note(causes) \subseteq Causes
           /\ disturbed \subseteq Note(causes)
           /\ "overlap" \notin Note(causes) => causes \subseteq Note(causes)
BY DEF Note, Typed, TypeOK

\* A fetch is sent from one of the slots that were free.
LEMMA SendTakesASlot ==
    ASSUME Typed, NEW reset \in BOOLEAN, NEW offset \in Nat, Send(reset, offset)
    PROVE  \E s \in Free :
               fetches' = [fetches EXCEPT ![s] = [phase |-> "sent", reset |-> reset,
                                                  offset |-> offset, rows |-> <<>>]]
<1> DEFINE s == CHOOSE s \in Free : TRUE
<1>1. s \in Free
  BY DEF Send
<1>2. QED
  BY <1>1 DEF Send

LEMMA SentType ==
    ASSUME Typed, NEW reset \in BOOLEAN, NEW offset \in Nat, Send(reset, offset)
    PROVE  fetches' \in [Slots -> FetchType]
<1>1. PICK s \in Free : fetches' = [fetches EXCEPT ![s] = [phase |-> "sent", reset |-> reset,
                                                           offset |-> offset, rows |-> <<>>]]
  BY SendTakesASlot
<1>2. [phase |-> "sent", reset |-> reset, offset |-> offset, rows |-> <<>>] \in FetchType
  BY DEF FetchType
<1>3. fetches \in [Slots -> FetchType]
  BY DEF Typed, TypeOK, FetchType
<1>4. QED
  BY <1>1, <1>2, <1>3

LEMMA InitTyped == Init => Typed
<1> SUFFICES ASSUME Init
             PROVE  Typed
  OBVIOUS
<1>1. PICK n \in OldRows : table = [i \in 1..n |-> Entry(i, 0)] /\ mark = n
  BY DEF Init
<1>2. n \in Nat /\ SampleAttacks \in Nat
  BY LiveAssumption, Sizes
<1>3. table \in Seq(Entries) /\ Len(table) = n
  <2>1. \A i \in 1..n : Entry(i, 0) \in Entries
    BY <1>2 DEF Entry, Entries
  <2>2. table \in [1..n -> Entries]
    BY <1>1, <2>1
  <2>3. QED
    BY <1>1, <1>2, <2>2
<1>4. IsFiniteSet(unsaved) /\ unsaved \subseteq 1..Made
  BY FS_EmptySet DEF Init
<1>5. fetches \in [Slots -> [phase : {"idle", "sent", "answered"}, reset : BOOLEAN,
                             offset : Nat, rows : Seq(Entries)]]
  BY DEF Init, Idle
<1>6. data_loaded \in BOOLEAN /\ registered \in BOOLEAN /\ more \in BOOLEAN
  BY Zenon DEF Init
<1>7. /\ deque \in Seq(Entries) /\ Len(deque) <= MaxLogSize
      /\ wire \in Seq(Entries) /\ allLogs \in Seq(Entries) /\ logOffset \in Nat
      /\ calls \in 0..MaxCalls /\ faults \in 0..MaxFaults
  BY Sizes DEF Init
<1>8. mark \in 0..Len(table) /\ disturbed \subseteq Causes
  BY <1>1, <1>2, <1>3 DEF Init, Causes
<1>9. QED
  BY <1>3, <1>4, <1>5, <1>6, <1>7, <1>8 DEF Typed, TypeOK

LEMMA LogTyped ==
    ASSUME Typed, Log
    PROVE  Typed' /\ Made' = Made + 1
<1> DEFINE entry == Entry(Made + 1, 0)
<1>1. Made \in Nat /\ SampleAttacks \in Nat /\ Len(table) \in Nat /\ Cardinality(unsaved) \in Nat
  BY MadeType, Sizes
<1>2. entry \in Entries /\ entry.no = Made + 1
  BY <1>1 DEF Entry, Entries
<1> HIDE DEF entry
<1>3. deque' \in Seq(Entries) /\ Len(deque') <= MaxLogSize
  <2>1. Append(deque, entry) \in Seq(Entries)
    BY <1>2 DEF Typed, TypeOK
  <2>2. deque' = Trim(Append(deque, entry))
    BY DEF Log, entry
  <2>3. QED
    BY <2>1, <2>2, TrimType
<1>4. wire' \in Seq(Entries)
  <2>1. wire' = IF registered THEN Append(wire, entry) ELSE wire
    BY DEF Log, entry
  <2>2. QED
    BY <1>2, <2>1 DEF Typed, TypeOK
<1>5. table' \in Seq(Entries) /\ mark' \in 0..Len(table') /\ unsaved' \subseteq 1..Made' /\ IsFiniteSet(unsaved')
      /\ faults' \in 0..MaxFaults /\ Made' = Made + 1
  <2>1. CASE table' = Append(table, entry) /\ UNCHANGED <<unsaved, faults>>
    <3>1. table' \in Seq(Entries) /\ Len(table') = Len(table) + 1
      BY <1>2, <2>1 DEF Typed, TypeOK
    <3>2. Made' = Made + 1
      BY <1>1, <2>1, <3>1 DEF Made
    <3>3. QED
      BY <1>1, <2>1, <3>1, <3>2 DEF Log, Typed, TypeOK
  <2>2. CASE Fault /\ unsaved' = unsaved \cup {entry.no} /\ UNCHANGED table
    <3>1. /\ IsFiniteSet(unsaved') /\ Cardinality(unsaved') = Cardinality(unsaved) + 1
          /\ unsaved' = unsaved \cup {Made + 1}
      <4>1. unsaved' = unsaved \cup {Made + 1} /\ Made + 1 = Made + 0 + 1
        BY <1>1, <1>2, <2>2
      <4>2. 0 \in Nat
        OBVIOUS
      <4>3. /\ IsFiniteSet(unsaved \cup {Made + 0 + 1})
            /\ Cardinality(unsaved \cup {Made + 0 + 1}) = Cardinality(unsaved) + 1
        BY <4>2, MadeType
      <4>4. QED
        BY <4>1, <4>3
    <3>2. Made' = Made + 1
      BY <1>1, <2>2, <3>1 DEF Made
    <3>3. unsaved' \subseteq 1..Made'
      BY <1>1, <3>1, <3>2 DEF Typed, TypeOK
    <3>4. QED
      BY <2>2, <3>1, <3>2, <3>3, Sizes DEF Log, Typed, TypeOK, Fault
  <2>3. QED
    BY <2>1, <2>2 DEF Log, entry
<1>6. calls' \in 0..MaxCalls
  BY Sizes DEF Log, Typed, TypeOK
<1>7. QED
  BY <1>3, <1>4, <1>5, <1>6 DEF Log, Typed, TypeOK, pageVars

LEMMA SeedTyped ==
    ASSUME Typed, Seed
    PROVE  Typed' /\ Made' = Made + SampleAttacks
<1> DEFINE rows == SampleRows(SampleAttacks)
<1>1. Made \in Nat /\ SampleAttacks \in Nat /\ Len(table) \in Nat /\ Cardinality(unsaved) \in Nat
  BY MadeType, Sizes
<1>2. rows \in Seq(Entries) /\ Len(rows) = SampleAttacks
  BY <1>1, SampleRowsType
<1> HIDE DEF rows
<1>3. deque \o rows \in Seq(Entries) /\ deque' = Trim(deque \o rows)
  BY <1>2 DEF Seed, rows, Typed, TypeOK
<1>4. table' \in Seq(Entries) /\ Len(table') = Len(table) + SampleAttacks
  <2>1. table' = table \o rows
    BY DEF Seed, rows
  <2>2. table \in Seq(Entries)
    BY DEF Typed, TypeOK
  <2>3. QED
    BY <1>2, <2>1, <2>2, Concat
<1>5. Made' = Made + SampleAttacks
  BY <1>1, <1>4 DEF Seed, Made
<1>6. unsaved' \subseteq 1..Made' /\ IsFiniteSet(unsaved') /\ mark' \in 0..Len(table')
  BY <1>1, <1>4, <1>5 DEF Seed, SeedCall, Typed, TypeOK
<1>7. calls' \in 0..MaxCalls
  BY Sizes DEF Seed, SeedCall, Typed, TypeOK
<1>8. deque' \in Seq(Entries) /\ Len(deque') <= MaxLogSize
  BY <1>3, TrimType
<1>9. data_loaded' \in BOOLEAN
  BY DEF Seed
<1>10. UNCHANGED <<registered, wire, allLogs, logOffset, more, fetches, faults, disturbed>>
  BY DEF Seed, SeedCall, socketVars, pageVars
<1>11. QED
  BY <1>4, <1>5, <1>6, <1>7, <1>8, <1>9, <1>10 DEF Typed, TypeOK

LEMMA SeedRaisesTyped ==
    ASSUME Typed, NEW k \in 1..SampleAttacks, SeedRaises(k)
    PROVE  Typed' /\ Made' = Made + k
<1>1. /\ Made \in Nat /\ SampleAttacks \in Nat /\ Len(table) \in Nat /\ Cardinality(unsaved) \in Nat
      /\ k \in 0..SampleAttacks /\ k - 1 \in 0..SampleAttacks /\ k - 1 \in Nat
  BY MadeType, Sizes
<1>2. /\ SampleRows(k) \in Seq(Entries)
      /\ SampleRows(k - 1) \in Seq(Entries) /\ Len(SampleRows(k - 1)) = k - 1
  BY <1>1, SampleRowsType
<1>3. deque \o SampleRows(k) \in Seq(Entries) /\ deque' = Trim(deque \o SampleRows(k))
  BY <1>2 DEF SeedRaises, Typed, TypeOK
<1>4. table' \in Seq(Entries) /\ Len(table') = Len(table) + (k - 1)
  <2> DEFINE rows == SampleRows(k - 1)
  <2>1. table' = table \o rows /\ rows \in Seq(Entries) /\ Len(rows) = k - 1
    BY <1>2 DEF SeedRaises
  <2>2. table \in Seq(Entries)
    BY DEF Typed, TypeOK
  <2> HIDE DEF rows
  <2>3. QED
    BY <2>1, <2>2, Concat
<1>5. /\ unsaved' = unsaved \cup {Made + (k - 1) + 1}
      /\ IsFiniteSet(unsaved') /\ Cardinality(unsaved') = Cardinality(unsaved) + 1
  <2>1. unsaved' = unsaved \cup {Made + k} /\ Made + k = Made + (k - 1) + 1
    BY <1>1 DEF SeedRaises
  <2>2. QED
    BY <1>1, <2>1, MadeType
<1>6. Made' = Made + k
  BY <1>1, <1>4, <1>5 DEF Made
<1>7. unsaved' \subseteq 1..Made' /\ mark' \in 0..Len(table')
  BY <1>1, <1>4, <1>5, <1>6 DEF SeedRaises, SeedCall, Typed, TypeOK
<1>8. calls' \in 0..MaxCalls /\ faults' \in 0..MaxFaults
  BY Sizes DEF SeedRaises, SeedCall, Fault, Typed, TypeOK
<1>9. deque' \in Seq(Entries) /\ Len(deque') <= MaxLogSize
  BY <1>3, TrimType
<1>10. UNCHANGED <<data_loaded, registered, wire, allLogs, logOffset, more, fetches, disturbed>>
  BY DEF SeedRaises, SeedCall, socketVars, pageVars
<1>11. QED
  BY <1>4, <1>5, <1>6, <1>7, <1>8, <1>9, <1>10 DEF Typed, TypeOK


\* A step that leaves the tables and what the server holds alone.
LEMMA StoredTyped ==
    ASSUME Typed, UNCHANGED serverVars,
           registered' \in BOOLEAN, wire' \in Seq(Entries), allLogs' \in Seq(Entries),
           logOffset' \in Nat, more' \in BOOLEAN, fetches' \in [Slots -> FetchType],
           faults' \in 0..MaxFaults, mark' \in 0..Len(table), disturbed' \subseteq Causes
    PROVE  Typed'
<1>1. UNCHANGED <<table, deque, data_loaded, calls, unsaved>>
  BY DEF serverVars
<1>2. Made' = Made
  BY <1>1 DEF Made
<1>3. QED
  BY <1>1, <1>2 DEF Typed, TypeOK, FetchType

LEMMA FaultType ==
    ASSUME Typed, Fault
    PROVE  faults' \in 0..MaxFaults
BY Sizes DEF Fault, Typed, TypeOK

LEMMA ServeTyped ==
    ASSUME Typed, NEW s \in Slots, Serve(s)
    PROVE  Typed'
<1>1. fetches \in [Slots -> FetchType]
  BY DEF Typed, TypeOK, FetchType
<1>2. Page(fetches[s].offset) \in Seq(Entries)
  BY <1>1, PageIsPage DEF Typed, FetchType
<1> DEFINE rows == Page(fetches[s].offset)
<1>3. fetches' = [fetches EXCEPT ![s].phase = "answered", ![s].rows = rows]
  BY DEF Serve
<1> HIDE DEF rows
<1>4. fetches' \in [Slots -> FetchType]
  BY <1>1, <1>2, <1>3 DEF FetchType, rows
<1>5. mark' \in 0..Len(table)
  BY MadeType DEF Serve, Typed, TypeOK
<1>6. UNCHANGED <<serverVars, registered, wire, allLogs, logOffset, more, faults, disturbed>>
  BY DEF Serve, socketVars, pageVars
<1>7. QED
  BY <1>4, <1>5, <1>6, StoredTyped DEF Typed, TypeOK

LEMMA StartResetTyped ==
    ASSUME Typed, StartReset
    PROVE  Typed'
<1>1. fetches' \in [Slots -> FetchType]
  BY SentType DEF StartReset
<1>2. disturbed' \subseteq Causes
  BY DEF StartReset, Causes
<1>3. allLogs' \in Seq(Entries) /\ logOffset' \in Nat
  BY DEF StartReset
<1>4. UNCHANGED <<serverVars, registered, wire, more, faults, mark>>
  BY DEF StartReset, socketVars
<1>5. QED
  BY <1>1, <1>2, <1>3, <1>4, StoredTyped DEF Typed, TypeOK

LEMMA LoadMoreTyped ==
    ASSUME Typed, LoadMore
    PROVE  Typed'
<1>1. fetches' \in [Slots -> FetchType]
  BY SentType DEF LoadMore, Typed, TypeOK
<1>2. disturbed' \subseteq Causes
  BY DEF LoadMore, Causes, Typed, TypeOK
<1>3. UNCHANGED <<serverVars, registered, wire, allLogs, logOffset, more, faults, mark>>
  BY DEF LoadMore, socketVars, pageVars
<1>4. QED
  BY <1>1, <1>2, <1>3, StoredTyped DEF Typed, TypeOK

LEMMA ArriveTyped ==
    ASSUME Typed, NEW s \in Slots, Arrive(s)
    PROVE  Typed'
<1> DEFINE rows == fetches[s].rows
<1>1. fetches' \in [Slots -> FetchType] /\ rows \in Seq(Entries)
  <2>1. Idle \in FetchType
    BY DEF Idle, FetchType
  <2>2. fetches \in [Slots -> FetchType]
    BY DEF Typed, TypeOK, FetchType
  <2>3. QED
    BY <2>1, <2>2 DEF Arrive, FetchType
<1>2. allLogs' \in Seq(Entries) /\ logOffset' \in Nat
  <2>1. allLogs \in Seq(Entries) /\ logOffset \in Nat /\ Len(rows) \in Nat
    BY <1>1 DEF Typed, TypeOK
  <2>2. CASE rows = <<>>
    BY <2>1, <2>2 DEF Arrive
  <2>3. CASE rows # <<>>
    <3>1. allLogs' = (IF fetches[s].reset THEN rows ELSE allLogs \o rows) /\ logOffset' = logOffset + Len(rows)
      BY <2>3 DEF Arrive
    <3> HIDE DEF rows
    <3>2. allLogs \o rows \in Seq(Entries)
      BY <1>1, <2>1, Concat
    <3>3. QED
      BY <1>1, <2>1, <3>1, <3>2
  <2>4. QED
    BY <2>2, <2>3
<1>3. more' \in BOOLEAN
  <2>1. (Len(rows) >= Batch) \in BOOLEAN
    BY SMT
  <2>2. more' = FALSE \/ more' = (Len(rows) >= Batch)
    BY Zenon DEF Arrive
  <2>3. QED
    BY <2>1, <2>2, Zenon
<1>4. UNCHANGED <<serverVars, registered, wire, faults, mark, disturbed>>
  BY DEF Arrive, socketVars
<1>5. QED
  BY <1>1, <1>2, <1>3, <1>4, StoredTyped DEF Typed, TypeOK

LEMMA FetchFailsTyped ==
    ASSUME Typed, NEW s \in Slots, FetchFails(s)
    PROVE  Typed'
<1>1. fetches' \in [Slots -> FetchType]
  BY DEF FetchFails, Typed, TypeOK, FetchType, Idle
<1>2. disturbed' \subseteq Causes
  <2>1. {"loss"} \in SUBSET Causes
    BY DEF Causes
  <2>2. Note({"loss"}) \subseteq Causes
    BY <2>1, NoteType
  <2>3. QED
    BY <2>2 DEF FetchFails, Typed, TypeOK
<1>3. faults' \in 0..MaxFaults
  BY FaultType DEF FetchFails
<1>4. UNCHANGED <<serverVars, registered, wire, allLogs, logOffset, more, mark>>
  BY DEF FetchFails, socketVars, pageVars
<1>5. QED
  BY <1>1, <1>2, <1>3, <1>4, StoredTyped DEF Typed, TypeOK

LEMMA ReceiveTyped ==
    ASSUME Typed, Receive
    PROVE  Typed'
<1>1. wire \in Seq(Entries) /\ wire # <<>> /\ allLogs \in Seq(Entries)
  BY DEF Receive, Received, Typed, TypeOK
<1>2. Head(wire) \in Entries /\ Tail(wire) \in Seq(Entries)
  BY <1>1
<1>3. wire' \in Seq(Entries)
  BY <1>2 DEF Receive, Received
<1>4. allLogs' \in Seq(Entries)
  <2>1. <<Head(wire)>> \in Seq(Entries)
    BY <1>2
  <2>2. <<Head(wire)>> \o allLogs \in Seq(Entries)
    BY <1>1, <2>1, Concat
  <2>3. QED
    BY <2>2 DEF Receive
<1>5. disturbed' \subseteq Causes
  <2> DEFINE causes == {"live"} \cup (IF \E s \in Slots : fetches[s].reset THEN {"loss"} ELSE {})
  <2>1. causes \in SUBSET Causes
    BY DEF Causes
  <2>2. disturbed' = Note(causes)
    BY DEF Receive, Received
  <2> HIDE DEF causes
  <2>3. QED
    BY <2>1, <2>2, NoteType
<1>6. UNCHANGED <<serverVars, registered, logOffset, more, fetches, faults, mark>>
  BY DEF Receive, Received
<1>7. QED
  BY <1>3, <1>4, <1>5, <1>6, StoredTyped DEF Typed, TypeOK, FetchType

LEMMA ClearTyped ==
    ASSUME Typed, Clear
    PROVE  Typed'
<1>1. disturbed' \subseteq Causes
  <2>1. {"loss"} \in SUBSET Causes
    BY DEF Causes
  <2>2. Note({"loss"}) \subseteq Causes
    BY <2>1, NoteType
  <2>3. QED
    BY <2>2 DEF Clear, Causes
<1>2. allLogs' \in Seq(Entries) /\ logOffset' \in Nat /\ more' \in BOOLEAN
  <2>1. more' \in BOOLEAN
    BY Zenon DEF Clear
  <2>2. QED
    BY <2>1 DEF Clear
<1>3. UNCHANGED <<serverVars, registered, wire, fetches, faults, mark>>
  BY DEF Clear, socketVars
<1>4. QED
  BY <1>1, <1>2, <1>3, StoredTyped DEF Typed, TypeOK, FetchType

LEMMA ConnectTyped ==
    ASSUME Typed, Connect
    PROVE  Typed'
<1>1. UNCHANGED <<serverVars, wire, allLogs, logOffset, more, fetches, faults, mark, disturbed>>
  BY DEF Connect, pageVars
<1>2. registered' \in BOOLEAN
  BY DEF Connect
<1>3. QED
  BY <1>1, <1>2, StoredTyped DEF Typed, TypeOK, FetchType

LEMMA DisconnectTyped ==
    ASSUME Typed, Disconnect
    PROVE  Typed'
<1>1. disturbed' \subseteq Causes
  <2>1. {"loss"} \in SUBSET Causes
    BY DEF Causes
  <2>2. QED
    BY <2>1, NoteType DEF Disconnect
<1>2. wire' \in Seq(Entries) /\ registered' \in BOOLEAN
  <2>1. registered' \in BOOLEAN
    BY Zenon DEF Disconnect
  <2>2. QED
    BY <2>1 DEF Disconnect
<1>3. faults' \in 0..MaxFaults
  BY FaultType DEF Disconnect
<1>4. UNCHANGED <<serverVars, allLogs, logOffset, more, fetches, mark>>
  BY DEF Disconnect, pageVars
<1>5. QED
  BY <1>1, <1>2, <1>3, <1>4, StoredTyped DEF Typed, TypeOK, FetchType

LEMMA RestartTyped ==
    ASSUME Typed, Restart
    PROVE  Typed'
<1>1. disturbed' \subseteq Causes
  <2>1. {"loss"} \in SUBSET Causes
    BY DEF Causes
  <2>2. QED
    BY <2>1, NoteType DEF Restart
<1>2. wire' \in Seq(Entries) /\ registered' \in BOOLEAN /\ data_loaded' \in BOOLEAN
      /\ deque' \in Seq(Entries) /\ Len(deque') <= MaxLogSize
  <2>1. registered' \in BOOLEAN /\ data_loaded' \in BOOLEAN
    BY Zenon DEF Restart
  <2>2. wire' \in Seq(Entries) /\ deque' \in Seq(Entries) /\ Len(deque') <= MaxLogSize
    BY Sizes DEF Restart
  <2>3. QED
    BY <2>1, <2>2
<1>3. faults' \in 0..MaxFaults
  BY FaultType DEF Restart
<1>4. fetches' \in [Slots -> FetchType]
  BY DEF Restart, Typed, TypeOK, FetchType, Idle
<1>5. UNCHANGED <<table, calls, unsaved, allLogs, logOffset, more, mark>>
  BY DEF Restart, pageVars
<1>6. Made' = Made
  BY <1>5 DEF Made
<1>7. QED
  BY <1>1, <1>2, <1>3, <1>4, <1>5, <1>6 DEF Typed, TypeOK, FetchType

LEMMA StepTyped ==
    ASSUME Typed, [Next]_vars
    PROVE  Typed'
<1>1. CASE UNCHANGED vars
  BY <1>1 DEF vars, serverVars, socketVars, pageVars, Typed, TypeOK, Made
<1>2. CASE Next
  BY <1>2, LogTyped, SeedTyped, SeedRaisesTyped, StartResetTyped, LoadMoreTyped, ReceiveTyped, ClearTyped,
     ConnectTyped, DisconnectTyped, RestartTyped, ServeTyped, ArriveTyped, FetchFailsTyped
     DEF Next
<1>3. QED
  BY <1>1, <1>2

-----------------------------------------------------------------------------
(* What the page shows, step by step. Rows are added to the table and never *)
(* change, and most steps leave the fetches alone or end one.               *)

Longer ==
    /\ Len(table) <= Len(table')
    /\ \A i \in 1..Len(table) : table'[i] = table[i]

ShownStays == \A no : no \in Shown => no \in Shown'
FetchesEnd == \A s \in Slots : fetches'[s] = fetches[s] \/ fetches'[s] = Idle

LEMMA TableGrows ==
    ASSUME Typed, [Next]_vars
    PROVE  Longer
<1>1. table \in Seq(Entries)
  BY DEF Typed, TypeOK
<1>2. CASE UNCHANGED table
  BY <1>1, <1>2 DEF Longer
<1>3. CASE Log
  <2>1. CASE table' = Append(table, Entry(Made + 1, 0))
    <3> DEFINE entry == Entry(Made + 1, 0)
    <3>1. entry \in Entries
      BY MadeType, Sizes DEF Entry, Entries
    <3>2. table' = Append(table, entry)
      BY <2>1
    <3> HIDE DEF entry
    <3>3. QED
      BY <1>1, <3>1, <3>2 DEF Longer
  <2>2. QED
    BY <1>2, <1>3, <2>1 DEF Log
<1>4. ASSUME NEW k \in 0..SampleAttacks, table' = table \o SampleRows(k)
      PROVE  Longer
  <2> DEFINE rows == SampleRows(k)
  <2>1. rows \in Seq(Entries) /\ table' = table \o rows
    BY <1>4, SampleRowsType
  <2> HIDE DEF rows
  <2>2. Len(table') = Len(table) + Len(rows) /\ \A i \in 1..Len(table) : table'[i] = table[i]
    BY <1>1, <2>1, Concat
  <2>3. Len(table) \in Nat /\ Len(rows) \in Nat
    BY <1>1, <2>1
  <2>4. QED
    BY <2>2, <2>3 DEF Longer
<1>5. CASE Seed
  <2>1. SampleAttacks \in 0..SampleAttacks
    BY Sizes
  <2>2. QED
    BY <1>4, <1>5, <2>1 DEF Seed
<1>6. ASSUME NEW k \in 1..SampleAttacks, SeedRaises(k)
      PROVE  Longer
  <2>1. k - 1 \in 0..SampleAttacks
    BY Sizes
  <2>2. QED
    BY <1>4, <1>6, <2>1 DEF SeedRaises
<1>7. CASE Next /\ ~Log /\ ~Seed /\ ~\E k \in 1..SampleAttacks : SeedRaises(k)
  BY <1>2, <1>7 DEF Next, StartReset, LoadMore, Receive, Received, Clear, Connect, Disconnect, Restart,
     Serve, Arrive, FetchFails, serverVars
<1>8. QED
  BY <1>2, <1>3, <1>5, <1>6, <1>7 DEF vars, serverVars

\* A table as long as before is the one before.
LEMMA SameTable ==
    ASSUME Typed, Typed', Longer, Len(table) = Len(table')
    PROVE  table' = table
<1>1. table \in [1..Len(table) -> Entries]
  BY DEF Typed, TypeOK
<1>2. table' \in [1..Len(table) -> Entries]
  <2>1. table' \in [1..Len(table') -> Entries]
    BY DEF Typed, TypeOK
  <2>2. QED
    BY <2>1
<1>3. \A i \in 1..Len(table) : table'[i] = table[i]
  BY DEF Longer
<1>4. QED
  BY <1>1, <1>2, <1>3

LEMMA FetchFields ==
    ASSUME Typed, NEW s \in Slots
    PROVE  /\ fetches[s].phase \in {"idle", "sent", "answered"} /\ fetches[s].reset \in BOOLEAN
           /\ fetches[s].offset \in Nat /\ fetches[s].rows \in Seq(Entries)
BY DEF Typed, TypeOK

LEMMA PageStays ==
    ASSUME Typed, Longer, NEW rows \in Seq(Entries), NEW n \in 0..Len(table), NEW offset \in Nat,
           IsPage(rows, n, offset)
    PROVE  IsPage(rows, n, offset)'
<1>1. Len(table) \in Nat /\ Len(rows) \in Nat
  BY DEF Typed, TypeOK
<1>2. ASSUME NEW j \in 1..Len(rows)
      PROVE  rows[j] = table'[n - offset - j + 1]
  <2>1. offset + Len(rows) <= n
    BY <1>1 DEF IsPage
  <2>2. n - offset - j + 1 \in 1..Len(table)
    BY <1>1, <2>1
  <2>3. QED
    BY <2>2 DEF IsPage, Longer
<1>3. QED
  BY <1>2 DEF IsPage

LEMMA AnswerStays ==
    ASSUME Typed, Longer, ShownStays, UNCHANGED mark, NEW s \in Slots, fetches'[s] = fetches[s],
           NEW n \in mark..Len(table), AnswerFits(s, n)
    PROVE  AnswerFits(s, n)'
<1>1. Len(table) \in Nat /\ mark \in 0..Len(table) /\ n \in 0..Len(table)
  BY DEF Typed, TypeOK
<1>2. PICK rows, offset : rows = fetches[s].rows /\ offset = fetches[s].offset
  OBVIOUS
<1>3. IsPage(rows, n, offset)'
  <2>1. IsPage(rows, n, offset)
    BY <1>2 DEF AnswerFits
  <2>2. rows \in Seq(Entries) /\ offset \in Nat
    BY <1>2, FetchFields
  <2>3. QED
    BY <1>1, <2>1, <2>2, PageStays
<1>4. IsPage(fetches[s].rows, n, fetches[s].offset)'
  BY <1>2, <1>3 DEF IsPage
<1>5. ASSUME ~fetches[s].reset, NEW i \in 1..mark, i > n - fetches[s].offset
      PROVE  IsShown(i)'
  <2>1. IsShown(i)
    BY <1>5 DEF AnswerFits
  <2>2. i \in 1..Len(table)
    BY <1>1
  <2>3. QED
    BY <2>1, <2>2 DEF IsShown, ShownStays, Longer
<1>6. QED
  BY <1>4, <1>5 DEF AnswerFits

LEMMA ShownGoesOn ==
    ASSUME Typed, Longer, ShownStays, NEW i \in 1..Len(table), IsShown(i)
    PROVE  IsShown(i)'
BY DEF IsShown, ShownStays, Longer

\* What is neither a new fetch nor an answer.
LEMMA FetchesStay ==
    ASSUME LiveInv, Typed', Longer, ShownStays, FetchesEnd, UNCHANGED <<mark, logOffset>>,
           "overlap" \notin disturbed' => "overlap" \notin disturbed
    PROVE  IdleIsIdle' /\ OneFetch' /\ SkipsNothing'
<1>1. /\ Len(table) \in Nat /\ Len(table') \in Nat /\ Len(table) <= Len(table')
      /\ mark \in 0..Len(table) /\ logOffset \in Nat
  BY DEF LiveInv, Typed, TypeOK, Longer
<1>2. IdleIsIdle'
  BY DEF LiveInv, IdleIsIdle, Busy, FetchesEnd, Idle
<1>3. OneFetch'
  <2> SUFFICES ASSUME "overlap" \notin disturbed', NEW s \in Slots, Busy(s)'
               PROVE  /\ \A t \in Slots : Busy(t)' => t = s
                      /\ fetches'[s].offset = logOffset'
                      /\ fetches'[s].reset => logOffset' = 0
                      /\ fetches'[s].phase = "answered" =>
                             \E n \in mark'..Len(table') : AnswerFits(s, n)'
    BY DEF OneFetch
  <2>1. fetches'[s] = fetches[s] /\ Busy(s)
    BY DEF Busy, FetchesEnd, Idle
  <2>2. /\ \A t \in Slots : Busy(t) => t = s
        /\ fetches[s].offset = logOffset
        /\ fetches[s].reset => logOffset = 0
        /\ fetches[s].phase = "answered" => \E n \in mark..Len(table) : AnswerFits(s, n)
    BY <2>1 DEF LiveInv, OneFetch
  <2>3. \A t \in Slots : Busy(t)' => Busy(t)
    BY DEF Busy, FetchesEnd, Idle
  <2>4. ASSUME fetches'[s].phase = "answered"
        PROVE  \E n \in mark'..Len(table') : AnswerFits(s, n)'
    <3>1. PICK n \in mark..Len(table) : AnswerFits(s, n)
      BY <2>1, <2>2, <2>4
    <3>2. AnswerFits(s, n)'
      BY <2>1, <3>1, AnswerStays DEF LiveInv
    <3>3. n \in mark'..Len(table')
      BY <1>1
    <3>4. QED
      BY <3>2, <3>3
  <2>5. QED
    BY <2>1, <2>2, <2>3, <2>4
<1>4. SkipsNothing'
  <2> SUFFICES ASSUME "overlap" \notin disturbed', NEW i \in 1..mark', i > Len(table') - logOffset'
               PROVE  IsShown(i)'
    BY DEF SkipsNothing
  <2>1. i \in 1..mark /\ i \in 1..Len(table) /\ i > Len(table) - logOffset
    BY <1>1
  <2>2. IsShown(i)
    BY <2>1 DEF LiveInv, SkipsNothing
  <2>3. QED
    BY <2>1, <2>2, ShownGoesOn DEF LiveInv
<1>5. QED
  BY <1>2, <1>3, <1>4

\* What leaves the page alone.
LEMMA PageGoesOn ==
    ASSUME LiveInv, Typed', Longer, FetchesEnd, UNCHANGED <<mark, allLogs, logOffset, more>>,
           "overlap" \notin disturbed' => "overlap" \notin disturbed,
           "live" \notin disturbed' => "live" \notin disturbed \/ "overlap" \in disturbed
    PROVE  StaysExact'
<1> SUFFICES ASSUME "overlap" \notin disturbed', "live" \notin disturbed'
             PROVE  /\ Resets' => allLogs' = <<>>
                    /\ Len(table') = mark' => Exact'
  BY DEF StaysExact
<1>1. /\ Resets => allLogs = <<>>
      /\ Len(table) = mark => Exact
  BY DEF LiveInv, StaysExact
<1>2. Resets' => Resets
  BY DEF Resets, Busy, FetchesEnd, Idle
<1>3. ASSUME Len(table') = mark'
      PROVE  Exact'
  <2>1. Len(table) = Len(table') /\ Len(table) = mark
    <3>1. /\ Len(table) \in Nat /\ Len(table') \in Nat /\ Len(table) <= Len(table')
          /\ mark \in 0..Len(table)
      BY DEF LiveInv, Typed, TypeOK, Longer
    <3>2. QED
      BY <1>3, <3>1
  <2>2. table' = table
    BY <2>1, SameTable DEF LiveInv
  <2>3. QED
    BY <1>1, <2>1, <2>2 DEF Exact
<1>4. QED
  BY <1>1, <1>2, <1>3

LEMMA StepMissesNothing ==
    ASSUME LiveInv, Longer, ShownStays, FetchesEnd, UNCHANGED <<table, mark, wire>>,
           "overlap" \notin disturbed' => "overlap" \notin disturbed,
           "overlap" \notin disturbed' /\ "loss" \notin disturbed' =>
               "loss" \notin disturbed /\ registered' /\ (Resets => Resets')
    PROVE  MissesNothing'
<1> SUFFICES ASSUME "overlap" \notin disturbed', "loss" \notin disturbed',
                    NEW i \in mark' + 1..Len(table'), table'[i].sample = 0
             PROVE  /\ ~Resets' => IsShown(i)' \/ OnWire(i)'
                    /\ \A s \in Slots : fetches'[s].phase = "answered" /\ fetches'[s].reset => OnWire(i)'
  BY DEF MissesNothing
<1>1. i \in 1..Len(table) /\ i \in mark + 1..Len(table)
  BY DEF LiveInv, Typed, TypeOK
<1>2. /\ ~Resets => IsShown(i) \/ OnWire(i)
      /\ \A s \in Slots : fetches[s].phase = "answered" /\ fetches[s].reset => OnWire(i)
  BY <1>1 DEF LiveInv, MissesNothing
<1>3. OnWire(i) => OnWire(i)'
  BY DEF OnWire
<1>4. IsShown(i) => IsShown(i)'
  BY <1>1, ShownGoesOn DEF LiveInv
<1>5. ASSUME NEW s \in Slots, fetches'[s].phase = "answered", fetches'[s].reset
      PROVE  OnWire(i)'
  <2>1. fetches'[s] = fetches[s]
    BY <1>5 DEF FetchesEnd, Idle
  <2>2. QED
    BY <1>2, <1>3, <1>5, <2>1
<1>6. QED
  BY <1>2, <1>3, <1>4, <1>5

-----------------------------------------------------------------------------
(* Each step keeps the invariant. *)

LEMMA Noted ==
    ASSUME Typed, NEW causes \in SUBSET Causes, disturbed' = Note(causes)
    PROVE  /\ "overlap" \notin disturbed' => /\ "overlap" \notin disturbed
                                             /\ \A c \in causes : c \in disturbed'
           /\ "live" \notin disturbed' => "live" \notin disturbed
           /\ "loss" \notin disturbed' => "loss" \notin disturbed
<1>1. /\ Note(causes) \subseteq Causes /\ disturbed \subseteq Note(causes)
      /\ "overlap" \notin Note(causes) => causes \subseteq Note(causes)
  BY NoteType
<1>2. QED
  BY <1>1

\* Steps of the server that add rows, at most one of which must reach the page.
LEMMA RowsAdded ==
    ASSUME LiveInv, Typed', Longer,
           UNCHANGED <<registered, allLogs, logOffset, more, fetches, mark, disturbed>>,
           \A i \in 1..Len(wire) : i \in 1..Len(wire') /\ wire'[i] = wire[i],
           registered => \A i \in Len(table) + 1..Len(table') : table'[i].sample = 0 =>
                             \E k \in 1..Len(wire') : wire'[k] = table'[i]
    PROVE  LiveInv'
<1>1. ShownStays /\ FetchesEnd
  BY DEF ShownStays, FetchesEnd, Shown
<1>2. IdleIsIdle' /\ OneFetch' /\ SkipsNothing' /\ StaysExact'
  BY <1>1, FetchesStay, PageGoesOn
<1>3. MissesNothing'
  <2> SUFFICES ASSUME "overlap" \notin disturbed', "loss" \notin disturbed'
               PROVE  /\ registered'
                      /\ \A i \in mark' + 1..Len(table') : table'[i].sample = 0 =>
                          /\ ~Resets' => IsShown(i)' \/ OnWire(i)'
                          /\ \A s \in Slots : fetches'[s].phase = "answered" /\ fetches'[s].reset => OnWire(i)'
    BY DEF MissesNothing
  <2>1. registered /\ registered'
    BY DEF LiveInv, MissesNothing
  <2>2. ASSUME NEW i \in mark' + 1..Len(table'), table'[i].sample = 0
        PROVE  /\ ~Resets' => IsShown(i)' \/ OnWire(i)'
               /\ \A s \in Slots : fetches'[s].phase = "answered" /\ fetches'[s].reset => OnWire(i)'
    <3>1. Len(table) \in Nat /\ Len(table') \in Nat /\ mark \in Nat /\ mark' = mark
      BY DEF LiveInv, Typed, TypeOK
    <3>2. CASE i > Len(table)
      <4>1. OnWire(i)'
        BY <2>1, <2>2, <3>1, <3>2 DEF OnWire
      <4>2. QED
        BY <4>1
    <3>3. CASE i <= Len(table)
      <4>1. i \in mark + 1..Len(table) /\ i \in 1..Len(table) /\ table'[i] = table[i]
        BY <3>1, <3>3 DEF Longer
      <4>2. /\ ~Resets => IsShown(i) \/ OnWire(i)
            /\ \A s \in Slots : fetches[s].phase = "answered" /\ fetches[s].reset => OnWire(i)
        BY <2>2, <4>1 DEF LiveInv, MissesNothing
      <4>3. OnWire(i) => OnWire(i)'
        BY <4>1 DEF OnWire
      <4>4. IsShown(i) => IsShown(i)'
        BY <1>1, <4>1, ShownGoesOn DEF LiveInv
      <4>5. Resets' <=> Resets
        BY DEF Resets, Busy
      <4>6. QED
        BY <4>2, <4>3, <4>4, <4>5
    <3>4. QED
      BY <3>1, <3>2, <3>3
  <2>3. QED
    BY <2>1, <2>2
<1>4. QED
  BY <1>2, <1>3 DEF LiveInv

LEMMA LogStep ==
    ASSUME LiveInv, Log
    PROVE  LiveInv'
<1> DEFINE entry == Entry(Made + 1, 0)
<1>1. Typed' /\ Longer
  BY LogTyped, TableGrows DEF LiveInv, Next
<1>2. entry \in Entries
  BY MadeType, Sizes DEF Entry, Entries, LiveInv
<1>3. wire' = (IF registered THEN Append(wire, entry) ELSE wire) /\ wire \in Seq(Entries)
  BY DEF Log, LiveInv, Typed, TypeOK
<1>4. table' = table \/ table' = Append(table, entry)
  BY DEF Log
<1> HIDE DEF entry
<1>5. \A i \in 1..Len(wire) : i \in 1..Len(wire') /\ wire'[i] = wire[i]
  BY <1>2, <1>3
<1>6. registered => \A i \in Len(table) + 1..Len(table') : \E k \in 1..Len(wire') : wire'[k] = table'[i]
  <2> SUFFICES ASSUME registered, NEW i \in Len(table) + 1..Len(table')
               PROVE  \E k \in 1..Len(wire') : wire'[k] = table'[i]
    OBVIOUS
  <2>1. table \in Seq(Entries)
    BY DEF LiveInv, Typed, TypeOK
  <2>2. table'[i] = entry
    BY <1>2, <1>4, <2>1
  <2>3. Len(wire) + 1 \in 1..Len(wire') /\ wire'[Len(wire) + 1] = entry
    BY <1>2, <1>3
  <2>4. QED
    BY <2>2, <2>3
<1>7. UNCHANGED <<registered, allLogs, logOffset, more, fetches, mark, disturbed>>
  BY DEF Log, pageVars
<1>8. QED
  BY <1>1, <1>5, <1>6, <1>7, RowsAdded

LEMMA SamplesAdded ==
    ASSUME LiveInv, Typed', Longer, UNCHANGED <<socketVars, pageVars, fetches, mark, disturbed>>,
           NEW k \in 0..SampleAttacks, table' = table \o SampleRows(k)
    PROVE  LiveInv'
<1> DEFINE rows == SampleRows(k)
<1>1. /\ rows \in Seq(Entries) /\ Len(rows) = k /\ k \in Nat
      /\ \A i \in 1..k : rows[i].sample = i
  BY SampleRowsType, Sizes DEF LiveInv
<1>2. table' = table \o rows /\ table \in Seq(Entries) /\ Len(table) \in Nat
  BY DEF LiveInv, Typed, TypeOK
<1> HIDE DEF rows
<1>3. \A i \in Len(table) + 1..Len(table') : table'[i].sample # 0
  <2> SUFFICES ASSUME NEW i \in Len(table) + 1..Len(table')
               PROVE  table'[i].sample # 0
    OBVIOUS
  <2>1. Len(table') = Len(table) + k
    BY <1>1, <1>2, Concat
  <2>2. PICK j \in 1..k : i = Len(table) + j
    <3>1. i - Len(table) \in 1..k /\ i = Len(table) + (i - Len(table))
      BY <1>1, <1>2, <2>1
    <3>2. QED
      BY <3>1
  <2>3. table'[i] = rows[j]
    BY <1>1, <1>2, <2>2, Concat
  <2>4. QED
    BY <1>1, <2>3
<1>4. UNCHANGED <<registered, wire, allLogs, logOffset, more, fetches, mark, disturbed>>
  BY DEF socketVars, pageVars
<1>5. QED
  BY <1>3, <1>4, RowsAdded

LEMMA SeedStep ==
    ASSUME LiveInv, Seed
    PROVE  LiveInv'
<1>1. Typed' /\ Longer
  BY SeedTyped, TableGrows DEF LiveInv, Next
<1>2. SampleAttacks \in 0..SampleAttacks /\ table' = table \o SampleRows(SampleAttacks)
  BY Sizes DEF Seed
<1>3. UNCHANGED <<socketVars, pageVars, fetches, mark, disturbed>>
  BY DEF Seed, SeedCall
<1>4. QED
  BY <1>1, <1>2, <1>3, SamplesAdded

LEMMA SeedRaisesStep ==
    ASSUME LiveInv, NEW k \in 1..SampleAttacks, SeedRaises(k)
    PROVE  LiveInv'
<1>1. Typed' /\ Longer
  BY SeedRaisesTyped, TableGrows DEF LiveInv, Next
<1>2. k - 1 \in 0..SampleAttacks /\ table' = table \o SampleRows(k - 1)
  BY Sizes DEF SeedRaises
<1>3. UNCHANGED <<socketVars, pageVars, fetches, mark, disturbed>>
  BY DEF SeedRaises, SeedCall
<1>4. QED
  BY <1>1, <1>2, <1>3, SamplesAdded

LEMMA FetchFailsStep ==
    ASSUME LiveInv, NEW s \in Slots, FetchFails(s)
    PROVE  LiveInv'
<1>1. Typed' /\ Longer
  BY FetchFailsTyped, TableGrows DEF LiveInv, Next
<1>2. /\ UNCHANGED <<table, registered, wire, allLogs, logOffset, more, mark>>
      /\ FetchesEnd /\ ShownStays
  BY DEF FetchFails, serverVars, socketVars, pageVars, FetchesEnd, ShownStays, Shown, LiveInv, Typed, TypeOK
<1>3. /\ "overlap" \notin disturbed' => "overlap" \notin disturbed
      /\ "live" \notin disturbed' => "live" \notin disturbed
      /\ "loss" \notin disturbed' => "loss" \notin disturbed
      /\ fetches[s].reset => "overlap" \in disturbed' \/ "loss" \in disturbed'
  <2>1. {"loss"} \in SUBSET Causes
    BY DEF Causes
  <2>2. CASE fetches[s].reset
    <3>1. disturbed' = Note({"loss"})
      BY <2>2 DEF FetchFails
    <3>2. QED
      BY <2>1, <3>1, Noted DEF LiveInv
  <2>3. CASE ~fetches[s].reset
    BY <2>3 DEF FetchFails
  <2>4. QED
    BY <2>2, <2>3
<1>4. "overlap" \notin disturbed' /\ "loss" \notin disturbed' => registered' /\ ~Resets
  <2> SUFFICES ASSUME "overlap" \notin disturbed', "loss" \notin disturbed'
               PROVE  registered' /\ ~Resets
    OBVIOUS
  <2>1. registered
    BY <1>3 DEF LiveInv, MissesNothing
  <2>2. Busy(s) /\ ~fetches[s].reset
    BY <1>3 DEF FetchFails, Busy
  <2>3. \A t \in Slots : Busy(t) => t = s
    BY <1>3, <2>2 DEF LiveInv, OneFetch
  <2>4. QED
    BY <1>2, <2>1, <2>2, <2>3 DEF Resets
<1>5. IdleIsIdle' /\ OneFetch' /\ SkipsNothing' /\ StaysExact'
  BY <1>1, <1>2, <1>3, FetchesStay, PageGoesOn
<1>6. MissesNothing'
  BY <1>1, <1>2, <1>3, <1>4, StepMissesNothing
<1>7. QED
  BY <1>1, <1>5, <1>6 DEF LiveInv

LEMMA ConnectStep ==
    ASSUME LiveInv, Connect
    PROVE  LiveInv'
<1>1. Typed' /\ Longer
  BY ConnectTyped, TableGrows DEF LiveInv, Next
<1>2. /\ UNCHANGED <<table, wire, allLogs, logOffset, more, fetches, mark, disturbed>> /\ registered'
      /\ FetchesEnd /\ ShownStays
  BY DEF Connect, serverVars, pageVars, FetchesEnd, ShownStays, Shown
<1>3. Resets => Resets'
  BY <1>2 DEF Resets, Busy
<1>4. QED
  BY <1>1, <1>2, <1>3, FetchesStay, PageGoesOn, StepMissesNothing DEF LiveInv

LEMMA DisconnectStep ==
    ASSUME LiveInv, Disconnect
    PROVE  LiveInv'
<1>1. Typed' /\ Longer
  BY DisconnectTyped, TableGrows DEF LiveInv, Next
<1>2. /\ UNCHANGED <<allLogs, logOffset, more, fetches, mark>>
      /\ FetchesEnd /\ ShownStays
  BY DEF Disconnect, pageVars, FetchesEnd, ShownStays, Shown
<1>3. /\ "overlap" \notin disturbed' => "overlap" \notin disturbed /\ "loss" \in disturbed'
      /\ "live" \notin disturbed' => "live" \notin disturbed
  <2>1. {"loss"} \in SUBSET Causes /\ disturbed' = Note({"loss"})
    BY DEF Causes, Disconnect
  <2>2. QED
    BY <2>1, Noted DEF LiveInv
<1>4. MissesNothing'
  BY <1>3 DEF MissesNothing
<1>5. QED
  BY <1>1, <1>2, <1>3, <1>4, FetchesStay, PageGoesOn DEF LiveInv

LEMMA RestartStep ==
    ASSUME LiveInv, Restart
    PROVE  LiveInv'
<1>1. Typed' /\ Longer
  BY RestartTyped, TableGrows DEF LiveInv, Next
<1>2. /\ UNCHANGED <<allLogs, logOffset, more, mark>>
      /\ FetchesEnd /\ ShownStays
  BY DEF Restart, pageVars, FetchesEnd, ShownStays, Shown
<1>3. /\ "overlap" \notin disturbed' => "overlap" \notin disturbed /\ "loss" \in disturbed'
      /\ "live" \notin disturbed' => "live" \notin disturbed
  <2>1. {"loss"} \in SUBSET Causes /\ disturbed' = Note({"loss"})
    BY DEF Causes, Restart
  <2>2. QED
    BY <2>1, Noted DEF LiveInv
<1>4. MissesNothing'
  BY <1>3 DEF MissesNothing
<1>5. QED
  BY <1>1, <1>2, <1>3, <1>4, FetchesStay, PageGoesOn DEF LiveInv

\* An entry that arrives goes to the top of the page.
LEMMA ReceiveStep ==
    ASSUME LiveInv, Receive
    PROVE  LiveInv'
<1>1. Typed' /\ Longer
  BY ReceiveTyped, TableGrows DEF LiveInv, Next
<1>2. /\ wire \in Seq(Entries) /\ wire # <<>> /\ allLogs \in Seq(Entries)
      /\ Head(wire) = wire[1] /\ wire[1] \in Entries
      /\ wire' = Tail(wire) /\ allLogs' = <<Head(wire)>> \o allLogs
      /\ table \in Seq(Entries) /\ mark \in Nat
  BY DEF Receive, Received, LiveInv, Typed, TypeOK
<1>3. /\ Len(allLogs') = Len(allLogs) + 1 /\ allLogs'[1] = wire[1]
      /\ \A i \in 1..Len(allLogs) : allLogs'[i + 1] = allLogs[i]
  <2>1. <<Head(wire)>> \in Seq(Entries) /\ Len(<<Head(wire)>>) = 1 /\ <<Head(wire)>>[1] = wire[1]
    BY <1>2
  <2>2. QED
    BY <1>2, <2>1, Concat
<1>4. wire[1].no \in Shown' /\ ShownStays
  <2>1. Len(allLogs) \in Nat
    BY <1>2
  <2>2. \A i \in 1..Len(allLogs) : i + 1 \in 1..Len(allLogs')
    BY <1>3, <2>1
  <2>3. 1 \in 1..Len(allLogs')
    BY <1>3, <2>1
  <2>4. QED
    BY <1>3, <2>2, <2>3 DEF Shown, ShownStays
<1>5. UNCHANGED <<table, registered, logOffset, more, fetches, mark>> /\ FetchesEnd
  BY DEF Receive, Received, serverVars, FetchesEnd
<1>6. /\ "overlap" \notin disturbed' => "overlap" \notin disturbed /\ "live" \in disturbed'
      /\ "loss" \notin disturbed' => "loss" \notin disturbed
      /\ (\E s \in Slots : fetches[s].reset) => "overlap" \in disturbed' \/ "loss" \in disturbed'
  <2> DEFINE causes == {"live"} \cup (IF \E s \in Slots : fetches[s].reset THEN {"loss"} ELSE {})
  <2>1. /\ causes \in SUBSET Causes /\ "live" \in causes
        /\ (\E s \in Slots : fetches[s].reset) => "loss" \in causes
    BY DEF Causes
  <2>2. disturbed' = Note(causes)
    BY DEF Receive, Received
  <2> HIDE DEF causes
  <2>3. QED
    BY <2>1, <2>2, Noted DEF LiveInv
<1>7. IdleIsIdle' /\ OneFetch' /\ SkipsNothing'
  BY <1>1, <1>4, <1>5, <1>6, FetchesStay
<1>8. StaysExact'
  BY <1>6 DEF StaysExact
<1>9. MissesNothing'
  <2> SUFFICES ASSUME "overlap" \notin disturbed', "loss" \notin disturbed'
               PROVE  /\ registered'
                      /\ \A i \in mark' + 1..Len(table') : table'[i].sample = 0 =>
                          /\ ~Resets' => IsShown(i)' \/ OnWire(i)'
                          /\ \A s \in Slots : fetches'[s].phase = "answered" /\ fetches'[s].reset => OnWire(i)'
    BY DEF MissesNothing
  <2>1. registered /\ \A s \in Slots : ~fetches[s].reset
    BY <1>6 DEF LiveInv, MissesNothing
  <2>2. ASSUME NEW i \in mark' + 1..Len(table'), table'[i].sample = 0
        PROVE  IsShown(i)' \/ OnWire(i)'
    <3>1. i \in mark + 1..Len(table) /\ i \in 1..Len(table) /\ table[i].sample = 0
      BY <1>2, <1>5, <2>2
    <3>2. ~Resets
      BY <2>1 DEF Resets
    <3>3. CASE IsShown(i)
      BY <1>1, <1>4, <3>1, <3>3, ShownGoesOn DEF LiveInv
    <3>4. CASE OnWire(i)
      <4>1. PICK k \in 1..Len(wire) : wire[k] = table[i]
        BY <3>4 DEF OnWire
      <4>2. CASE k = 1
        BY <1>4, <1>5, <4>1, <4>2 DEF IsShown
      <4>3. CASE k # 1
        <5>1. k - 1 \in 1..Len(wire') /\ wire'[k - 1] = wire[k]
          BY <1>2, <4>1, <4>3
        <5>2. QED
          BY <1>5, <4>1, <5>1 DEF OnWire
      <4>4. QED
        BY <4>2, <4>3
    <3>5. QED
      BY <1>6, <3>1, <3>2, <3>3, <3>4 DEF LiveInv, MissesNothing
  <2>3. \A s \in Slots : ~fetches'[s].reset
    BY <1>5, <2>1
  <2>4. QED
    BY <1>5, <2>1, <2>2, <2>3
<1>10. QED
  BY <1>1, <1>7, <1>8, <1>9 DEF LiveInv

LEMMA ClearStep ==
    ASSUME LiveInv, Clear
    PROVE  LiveInv'
<1>1. Typed' /\ Longer
  BY ClearTyped, TableGrows DEF LiveInv, Next
<1>2. /\ UNCHANGED <<table, registered, wire, fetches, mark>>
      /\ allLogs' = <<>> /\ logOffset' = 0 /\ more' = FALSE
      /\ mark \in 0..Len(table) /\ Len(table) \in Nat
  BY DEF Clear, serverVars, socketVars, LiveInv, Typed, TypeOK
<1>3. "overlap" \notin disturbed' => /\ Free = Slots
                                     /\ "loss" \in disturbed'
  <2>1. {"loss"} \in SUBSET Causes
    BY DEF Causes
  <2>2. CASE Free = Slots
    <3>1. disturbed' = Note({"loss"})
      BY <2>2 DEF Clear
    <3>2. QED
      BY <2>1, <2>2, <3>1, Noted DEF LiveInv
  <2>3. CASE Free # Slots
    BY <2>3 DEF Clear
  <2>4. QED
    BY <2>2, <2>3
<1>4. IdleIsIdle'
  BY <1>2 DEF LiveInv, IdleIsIdle, Busy
<1>5. "overlap" \notin disturbed' => \A s \in Slots : ~Busy(s)'
  BY <1>2, <1>3 DEF Free, Busy
<1>6. OneFetch'
  BY <1>5 DEF OneFetch
<1>7. SkipsNothing'
  BY <1>2 DEF SkipsNothing
<1>8. StaysExact'
  <2>1. Exact'
    <3>1. IsPrefix(allLogs', Reverse(table'))
      <4>1. Len(Reverse(table)) = Len(table)
        BY <1>2 DEF Reverse
      <4>2. QED
        BY <1>2, <4>1 DEF IsPrefix
    <3>2. QED
      BY <1>2, <3>1 DEF Exact
  <2>2. QED
    BY <1>5, <2>1 DEF StaysExact, Resets
<1>9. MissesNothing'
  BY <1>3 DEF MissesNothing
<1>10. QED
  BY <1>1, <1>4, <1>6, <1>7, <1>8, <1>9 DEF LiveInv

\* A page that shows nothing is exact.
LEMMA EmptyIsExact ==
    ASSUME Typed
    PROVE  IsPrefix(<<>>, Reverse(table))
<1>1. Len(Reverse(table)) = Len(table) /\ Len(table) \in Nat
  BY DEF Reverse, Typed, TypeOK
<1>2. QED
  BY <1>1 DEF IsPrefix

LEMMA StartResetStep ==
    ASSUME LiveInv, StartReset
    PROVE  LiveInv'
<1>1. Typed' /\ Longer
  BY StartResetTyped, TableGrows DEF LiveInv, Next
<1>2. PICK s \in Free : fetches' = [fetches EXCEPT ![s] = [phase |-> "sent", reset |-> TRUE,
                                                           offset |-> 0, rows |-> <<>>]]
  BY SendTakesASlot DEF StartReset, LiveInv
<1>3. /\ UNCHANGED <<table, registered, wire, more, mark>>
      /\ allLogs' = <<>> /\ logOffset' = 0
      /\ mark \in 0..Len(table) /\ Len(table) \in Nat
      /\ s \in Slots /\ fetches'[s] = [phase |-> "sent", reset |-> TRUE, offset |-> 0, rows |-> <<>>]
      /\ \A t \in Slots : t # s => fetches'[t] = fetches[t]
  BY <1>2 DEF StartReset, serverVars, socketVars, LiveInv, Typed, TypeOK, Free
<1>4. /\ "overlap" \notin disturbed' => Free = Slots
      /\ "overlap" \notin disturbed' /\ "loss" \notin disturbed' => registered
  BY Zenon DEF StartReset
<1>5. IdleIsIdle'
  BY <1>3 DEF LiveInv, IdleIsIdle, Busy
<1>6. "overlap" \notin disturbed' => \A t \in Slots : Busy(t)' => t = s
  BY <1>3, <1>4 DEF Free, Busy
<1>7. OneFetch'
  BY <1>3, <1>6 DEF OneFetch
<1>8. SkipsNothing'
  BY <1>3 DEF SkipsNothing
<1>9. StaysExact'
  <2>1. Exact'
    BY <1>3, EmptyIsExact DEF Exact, LiveInv
  <2>2. QED
    BY <1>3, <2>1 DEF StaysExact
<1>10. MissesNothing'
  <2> SUFFICES ASSUME "overlap" \notin disturbed', "loss" \notin disturbed'
               PROVE  /\ registered'
                      /\ Resets'
                      /\ \A t \in Slots : fetches'[t].phase # "answered"
    BY DEF MissesNothing
  <2>1. registered'
    BY <1>3, <1>4
  <2>2. Resets'
    BY <1>3 DEF Resets, Busy
  <2>3. ASSUME NEW t \in Slots
        PROVE  fetches'[t].phase # "answered"
    BY <1>3, <1>6 DEF Busy
  <2>4. QED
    BY <2>1, <2>2, <2>3
<1>11. QED
  BY <1>1, <1>5, <1>7, <1>8, <1>9, <1>10 DEF LiveInv

LEMMA LoadMoreStep ==
    ASSUME LiveInv, LoadMore
    PROVE  LiveInv'
<1>1. Typed' /\ Longer
  BY LoadMoreTyped, TableGrows DEF LiveInv, Next
<1>2. PICK s \in Free : fetches' = [fetches EXCEPT ![s] = [phase |-> "sent", reset |-> FALSE,
                                                           offset |-> logOffset, rows |-> <<>>]]
  BY SendTakesASlot DEF LoadMore, LiveInv, Typed, TypeOK
<1>3. /\ UNCHANGED <<table, registered, wire, allLogs, logOffset, more, mark>>
      /\ s \in Slots
      /\ fetches'[s] = [phase |-> "sent", reset |-> FALSE, offset |-> logOffset, rows |-> <<>>]
      /\ \A t \in Slots : t # s => fetches'[t] = fetches[t]
  BY <1>2 DEF LoadMore, serverVars, socketVars, pageVars, LiveInv, Typed, TypeOK, Free
<1>4. "overlap" \notin disturbed' => Free = Slots /\ disturbed' = disturbed
  BY Zenon DEF LoadMore
<1>5. IdleIsIdle'
  BY <1>3 DEF LiveInv, IdleIsIdle, Busy
<1>6. "overlap" \notin disturbed' => /\ \A t \in Slots : Busy(t)' => t = s
                                     /\ ~Resets /\ ~Resets'
  BY <1>3, <1>4 DEF Free, Busy, Resets
<1>7. OneFetch'
  BY <1>3, <1>6 DEF OneFetch
<1>8. SkipsNothing'
  BY <1>3, <1>4 DEF SkipsNothing, LiveInv, IsShown, Shown
<1>9. StaysExact'
  BY <1>3, <1>4, <1>6 DEF StaysExact, Exact, LiveInv
<1>10. MissesNothing'
  <2> SUFFICES ASSUME "overlap" \notin disturbed', "loss" \notin disturbed'
               PROVE  /\ registered'
                      /\ \A i \in mark' + 1..Len(table') : table'[i].sample = 0 => IsShown(i)' \/ OnWire(i)'
                      /\ \A t \in Slots : fetches'[t].phase # "answered"
    BY DEF MissesNothing
  <2>1. registered /\ \A i \in mark + 1..Len(table) : table[i].sample = 0 => IsShown(i) \/ OnWire(i)
    BY <1>4, <1>6 DEF LiveInv, MissesNothing
  <2>2. \A t \in Slots : fetches'[t].phase # "answered"
    BY <1>3, <1>6 DEF Busy
  <2>3. QED
    BY <1>3, <2>1, <2>2 DEF IsShown, Shown, OnWire
<1>11. QED
  BY <1>1, <1>5, <1>7, <1>8, <1>9, <1>10 DEF LiveInv

LEMMA ServeStep ==
    ASSUME LiveInv, NEW s \in Slots, Serve(s)
    PROVE  LiveInv'
<1>1. Typed' /\ Longer
  BY ServeTyped, TableGrows DEF LiveInv, Next
<1>2. PICK offset, reset : offset = fetches[s].offset /\ reset = fetches[s].reset
  OBVIOUS
<1>3. /\ UNCHANGED <<table, registered, wire, allLogs, logOffset, more, disturbed>>
      /\ mark \in 0..Len(table) /\ Len(table) \in Nat /\ logOffset \in Nat
      /\ fetches'[s].phase = "answered" /\ fetches'[s].rows = Page(offset)
      /\ fetches'[s].offset = offset /\ fetches'[s].reset = reset
      /\ \A t \in Slots : t # s => fetches'[t] = fetches[t]
      /\ fetches[s].phase = "sent"
  BY <1>2 DEF Serve, serverVars, socketVars, pageVars, LiveInv, Typed, TypeOK
<1>4. "overlap" \notin disturbed =>
          /\ \A t \in Slots : Busy(t) => t = s
          /\ offset = logOffset
          /\ reset => logOffset = 0
  BY <1>2, <1>3 DEF LiveInv, OneFetch, Busy
<1>5. /\ "overlap" \notin disturbed /\ reset => mark' = Len(table)
      /\ "overlap" \in disturbed \/ ~reset => mark' = mark
  BY <1>2 DEF Serve
<1>6. /\ \A t \in Slots : Busy(t)' <=> Busy(t)
      /\ Resets' <=> Resets
  BY <1>2, <1>3 DEF Busy, Resets
<1>7. IdleIsIdle'
  BY <1>3 DEF LiveInv, IdleIsIdle, Busy
<1>8. SkipsNothing'
  <2> SUFFICES ASSUME "overlap" \notin disturbed, NEW i \in 1..mark', i > Len(table) - logOffset
               PROVE  IsShown(i)'
    BY <1>3 DEF SkipsNothing
  <2>1. ~reset
    BY <1>3, <1>4, <1>5
  <2>2. IsShown(i)
    BY <1>5, <2>1 DEF LiveInv, SkipsNothing
  <2>3. QED
    BY <1>3, <2>2 DEF IsShown, Shown
<1>9. OneFetch'
  <2> SUFFICES ASSUME "overlap" \notin disturbed
               PROVE  \E n \in mark'..Len(table') : AnswerFits(s, n)'
    BY <1>3, <1>4, <1>6 DEF OneFetch
  <2>1. PICK rows, n : rows = Page(offset) /\ n = Len(table)
    OBVIOUS
  <2>2. IsPage(rows, n, offset)
    BY <1>3, <1>4, <2>1, PageIsPage DEF LiveInv, Typed
  <2>3. IsPage(rows, n, offset)'
    BY <1>3, <2>2 DEF IsPage
  <2>4. ASSUME ~reset, NEW i \in 1..mark', i > Len(table) - offset
        PROVE  IsShown(i)'
    BY <1>3, <1>4, <1>8, <2>4 DEF SkipsNothing
  <2>5. AnswerFits(s, n)'
    BY <1>3, <1>5, <2>1, <2>3, <2>4 DEF AnswerFits
  <2>6. n \in mark'..Len(table')
    BY <1>3, <1>5, <2>1
  <2>7. QED
    BY <1>3, <2>5, <2>6
<1>10. StaysExact'
  <2> SUFFICES ASSUME "overlap" \notin disturbed, "live" \notin disturbed
               PROVE  /\ Resets' => allLogs' = <<>>
                      /\ Len(table') = mark' => Exact'
    BY <1>3 DEF StaysExact
  <2>1. Resets => allLogs = <<>>
    BY DEF LiveInv, StaysExact
  <2>2. CASE reset
    <3>1. allLogs = <<>> /\ logOffset = 0
      BY <1>2, <1>3, <1>4, <2>1, <2>2 DEF Resets, Busy
    <3>2. Exact'
      BY <1>3, <3>1, EmptyIsExact DEF Exact, LiveInv
    <3>3. QED
      BY <1>3, <3>1, <3>2
  <2>3. CASE ~reset
    BY <1>3, <1>5, <1>6, <2>3 DEF LiveInv, StaysExact, Exact
  <2>4. QED
    BY <2>2, <2>3
<1>11. MissesNothing'
  <2> SUFFICES ASSUME "overlap" \notin disturbed, "loss" \notin disturbed
               PROVE  /\ registered'
                      /\ \A i \in mark' + 1..Len(table') : table'[i].sample = 0 =>
                          /\ ~Resets' => IsShown(i)' \/ OnWire(i)'
                          /\ \A t \in Slots : fetches'[t].phase = "answered" /\ fetches'[t].reset => OnWire(i)'
    BY <1>3 DEF MissesNothing
  <2>1. registered
    BY DEF LiveInv, MissesNothing
  <2>2. CASE reset
    BY <1>3, <1>5, <2>1, <2>2
  <2>3. CASE ~reset
    <3>1. \A t \in Slots : fetches'[t].phase = "answered" /\ fetches'[t].reset => FALSE
      BY <1>3, <1>4, <2>3 DEF Busy
    <3>2. ASSUME NEW i \in mark + 1..Len(table), table[i].sample = 0
          PROVE  ~Resets' => IsShown(i)' \/ OnWire(i)'
      <4>1. ~Resets => IsShown(i) \/ OnWire(i)
        BY <3>2 DEF LiveInv, MissesNothing
      <4>2. QED
        BY <1>3, <1>6, <4>1 DEF IsShown, Shown, OnWire
    <3>3. QED
      BY <1>3, <1>5, <2>1, <2>3, <3>1, <3>2
  <2>4. QED
    BY <2>2, <2>3
<1>12. QED
  BY <1>1, <1>7, <1>8, <1>9, <1>10, <1>11 DEF LiveInv

LEMMA FirstOf ==
    ASSUME NEW s \in Seq(Entries), NEW n \in 0..Len(s)
    PROVE  /\ SubSeq(s, 1, n) \in [1..n -> Entries]
           /\ \A i \in 1..n : SubSeq(s, 1, n)[i] = s[i]
<1>1. Len(s) \in Nat /\ n \in Nat
  OBVIOUS
<1> DEFINE start == SubSeq(s, 1, n)
<1>2. start \in Seq(Entries) /\ Len(start) = n /\ \A i \in 1..n : start[i] = s[i]
  BY <1>1
<1> HIDE DEF start
<1>3. start \in [1..Len(start) -> Entries]
  BY <1>2
<1>4. QED
  BY <1>2, <1>3 DEF start

\* An answer's rows, after those shown already, or instead of them.
LEMMA PrefixGrows ==
    ASSUME NEW back \in Seq(Entries), NEW shown \in Seq(Entries), IsPrefix(shown, back),
           NEW rows \in Seq(Entries), Len(shown) + Len(rows) <= Len(back),
           \A j \in 1..Len(rows) : rows[j] = back[Len(shown) + j]
    PROVE  IsPrefix(shown \o rows, back)
<1> DEFINE both == shown \o rows
           start == SubSeq(back, 1, Len(both))
<1>1. /\ Len(shown) \in Nat /\ Len(rows) \in Nat /\ Len(back) \in Nat
      /\ both \in Seq(Entries) /\ Len(both) = Len(shown) + Len(rows)
      /\ \A i \in 1..Len(shown) : both[i] = shown[i]
      /\ \A i \in 1..Len(rows) : both[Len(shown) + i] = rows[i]
  BY Concat
<1>2. \A i \in 1..Len(shown) : shown[i] = back[i]
  <2>1. SubSeq(shown, 1, Len(shown)) = SubSeq(back, 1, Len(shown)) /\ Len(shown) <= Len(back)
    BY DEF IsPrefix
  <2>2. \A i \in 1..Len(shown) : SubSeq(shown, 1, Len(shown))[i] = shown[i]
    BY <1>1
  <2>3. \A i \in 1..Len(shown) : SubSeq(back, 1, Len(shown))[i] = back[i]
    BY <1>1, <2>1
  <2>4. QED
    BY <2>1, <2>2, <2>3
<1> HIDE DEF both
<1>3. ASSUME NEW i \in 1..Len(both)
      PROVE  both[i] = back[i]
  <2>1. CASE i <= Len(shown)
    BY <1>1, <1>2, <2>1
  <2>2. CASE i > Len(shown)
    <3>1. i - Len(shown) \in 1..Len(rows) /\ Len(shown) + (i - Len(shown)) = i
      BY <1>1, <2>2
    <3>2. both[Len(shown) + (i - Len(shown))] = rows[i - Len(shown)]
      BY <1>1, <3>1
    <3>3. rows[i - Len(shown)] = back[Len(shown) + (i - Len(shown))]
      BY <3>1
    <3>4. QED
      BY <3>1, <3>2, <3>3
  <2>3. QED
    BY <1>1, <2>1, <2>2
<1>4. start = SubSeq(both, 1, Len(both))
  <2>1. Len(both) \in 0..Len(both) /\ Len(both) \in 0..Len(back)
    BY <1>1
  <2>2. start \in [1..Len(both) -> Entries] /\ \A i \in 1..Len(both) : start[i] = back[i]
    BY <2>1, FirstOf
  <2>3. /\ SubSeq(both, 1, Len(both)) \in [1..Len(both) -> Entries]
        /\ \A i \in 1..Len(both) : SubSeq(both, 1, Len(both))[i] = both[i]
    BY <1>1, <2>1, FirstOf
  <2> HIDE DEF start
  <2>4. QED
    BY <1>3, <2>2, <2>3
<1>5. QED
  BY <1>1, <1>4 DEF IsPrefix, both

LEMMA ArriveStep ==
    ASSUME LiveInv, NEW s \in Slots, Arrive(s)
    PROVE  LiveInv'
<1>1. Typed' /\ Longer
  BY ArriveTyped, TableGrows DEF LiveInv, Next
<1>2. PICK rows, reset : rows = fetches[s].rows /\ reset = fetches[s].reset
  OBVIOUS
<1>3. /\ UNCHANGED <<table, registered, wire, mark, disturbed>>
      /\ mark \in 0..Len(table) /\ Len(table) \in Nat /\ logOffset \in Nat
      /\ table \in Seq(Entries) /\ allLogs \in Seq(Entries) /\ rows \in Seq(Entries)
      /\ Batch \in Nat \ {0} /\ Len(rows) \in Nat
      /\ fetches[s].phase = "answered" /\ fetches'[s] = Idle
      /\ \A t \in Slots : t # s => fetches'[t] = fetches[t]
  <2>1. rows \in Seq(Entries)
    BY <1>2, FetchFields DEF LiveInv
  <2>2. QED
    BY <2>1, Sizes DEF Arrive, serverVars, socketVars, LiveInv, Typed, TypeOK
<1>4. CASE "overlap" \in disturbed
  <2>1. IdleIsIdle'
    BY <1>3 DEF LiveInv, IdleIsIdle, Busy
  <2>2. OneFetch' /\ SkipsNothing' /\ StaysExact' /\ MissesNothing'
    BY <1>3, <1>4 DEF OneFetch, SkipsNothing, StaysExact, MissesNothing
  <2>3. QED
    BY <1>1, <2>1, <2>2 DEF LiveInv
<1>5. CASE "overlap" \notin disturbed
  <2>1. /\ \A t \in Slots : Busy(t) => t = s
        /\ fetches[s].offset = logOffset
        /\ reset => logOffset = 0
    BY <1>2, <1>3, <1>5 DEF LiveInv, OneFetch, Busy
  <2>2. PICK n \in mark..Len(table) : AnswerFits(s, n)
    BY <1>3, <1>5 DEF LiveInv, OneFetch, Busy
  <2>3. /\ IsPage(rows, n, logOffset)
        /\ reset => n = mark
        /\ ~reset => \A i \in 1..mark : i > n - logOffset => IsShown(i)
    BY <1>2, <2>1, <2>2 DEF AnswerFits
  <2>4. \A t \in Slots : fetches'[t] = Idle /\ ~Busy(t)'
    BY <1>3, <2>1 DEF LiveInv, IdleIsIdle, Busy, Idle
  <2>5. IdleIsIdle' /\ OneFetch' /\ ~Resets'
    BY <2>4 DEF IdleIsIdle, OneFetch, Resets
  <2>6. "loss" \notin disturbed => registered /\ \A i \in mark + 1..Len(table) :
            table[i].sample = 0 => OnWire(i) \/ (~reset /\ IsShown(i))
    <3> SUFFICES ASSUME "loss" \notin disturbed
                 PROVE  registered /\ \A i \in mark + 1..Len(table) :
                            table[i].sample = 0 => OnWire(i) \/ (~reset /\ IsShown(i))
      OBVIOUS
    <3>1. registered
      BY <1>5 DEF LiveInv, MissesNothing
    <3>2. ASSUME NEW i \in mark + 1..Len(table), table[i].sample = 0
          PROVE  OnWire(i) \/ (~reset /\ IsShown(i))
      <4>1. /\ ~Resets => IsShown(i) \/ OnWire(i)
            /\ reset => OnWire(i)
        BY <1>2, <1>3, <1>5, <3>2 DEF LiveInv, MissesNothing
      <4>2. ~reset => ~Resets
        BY <1>2, <2>1 DEF Resets
      <4>3. QED
        BY <4>1, <4>2
    <3>3. QED
      BY <3>1, <3>2
  <2>7. "live" \notin disturbed => /\ reset => allLogs = <<>>
                                   /\ Len(table) = mark => Exact
    <3>1. reset => Resets
      BY <1>2, <1>3 DEF Resets, Busy
    <3>2. QED
      BY <1>5, <3>1 DEF LiveInv, StaysExact
  <2>8. CASE rows = <<>>
    <3>1. UNCHANGED <<allLogs, logOffset>> /\ more' = FALSE
      BY <1>2, <2>8 DEF Arrive
    <3>2. SkipsNothing'
      BY <1>3, <3>1 DEF LiveInv, SkipsNothing, IsShown, Shown
    <3>3. StaysExact'
      <4> SUFFICES ASSUME "live" \notin disturbed, Len(table) = mark
                   PROVE  Exact'
        BY <1>3, <2>5 DEF StaysExact
      <4>1. IsPrefix(allLogs, Reverse(table)) /\ logOffset = Len(allLogs)
        BY <2>7 DEF Exact
      <4>2. Len(allLogs) <= Len(table)
        <5>1. Len(Reverse(table)) = Len(table)
          BY <1>3 DEF Reverse
        <5>2. QED
          BY <4>1, <5>1 DEF IsPrefix
      <4>3. Len(allLogs) >= Len(table)
        BY <1>3, <2>3, <2>8, <4>1 DEF IsPage
      <4>4. Len(allLogs) = Len(table)
        BY <1>3, <4>1, <4>2, <4>3
      <4>5. QED
        BY <1>3, <3>1, <4>1, <4>4 DEF Exact
    <3>4. MissesNothing'
      <4> SUFFICES ASSUME "loss" \notin disturbed
                   PROVE  registered /\ \A i \in mark + 1..Len(table) :
                              table[i].sample = 0 => IsShown(i)' \/ OnWire(i)'
        BY <1>3, <2>4 DEF MissesNothing, Idle
      <4>1. QED
        BY <1>3, <2>6, <3>1 DEF IsShown, Shown, OnWire
    <3>5. QED
      BY <1>1, <2>5, <3>2, <3>3, <3>4 DEF LiveInv
  <2>9. CASE rows # <<>>
    <3>1. /\ allLogs' = (IF reset THEN rows ELSE allLogs \o rows)
          /\ logOffset' = logOffset + Len(rows)
          /\ more' = (Len(rows) >= Batch)
      BY <1>2, <2>9 DEF Arrive
    <3>2. /\ logOffset + Len(rows) <= n
          /\ Len(rows) < Batch => logOffset + Len(rows) >= n
          /\ \A j \in 1..Len(rows) : rows[j] = table[n - logOffset - j + 1]
      BY <2>3, <2>9 DEF IsPage
    <3>3. /\ \A j \in 1..Len(rows) : rows[j].no \in Shown'
          /\ ~reset => ShownStays
      <4>1. CASE reset
        BY <3>1, <4>1 DEF Shown
      <4>2. CASE ~reset
        <5>1. /\ allLogs' = allLogs \o rows /\ Len(allLogs) \in Nat
              /\ Len(allLogs') = Len(allLogs) + Len(rows)
              /\ \A i \in 1..Len(allLogs) : allLogs'[i] = allLogs[i]
              /\ \A i \in 1..Len(rows) : allLogs'[Len(allLogs) + i] = rows[i]
          BY <1>3, <3>1, <4>2, Concat
        <5>2. /\ \A i \in 1..Len(allLogs) : i \in 1..Len(allLogs')
              /\ \A i \in 1..Len(rows) : Len(allLogs) + i \in 1..Len(allLogs')
          BY <1>3, <5>1
        <5>3. QED
          BY <5>1, <5>2 DEF Shown, ShownStays
      <4>3. QED
        BY <4>1, <4>2
    <3>4. SkipsNothing'
      <4> SUFFICES ASSUME NEW i \in 1..mark, i > Len(table) - (logOffset + Len(rows))
                   PROVE  IsShown(i)'
        BY <1>3, <3>1 DEF SkipsNothing
      <4>1. CASE i > n - logOffset
        <5>1. ~reset
          BY <1>3, <2>1, <2>3, <4>1
        <5>2. IsShown(i)
          BY <2>3, <4>1, <5>1
        <5>3. QED
          BY <1>3, <3>3, <5>1, <5>2 DEF IsShown, ShownStays
      <4>2. CASE i <= n - logOffset
        <5>1. n - logOffset - i + 1 \in 1..Len(rows)
          BY <1>3, <3>2, <4>2
        <5>2. rows[n - logOffset - i + 1] = table[n - logOffset - (n - logOffset - i + 1) + 1]
          BY <3>2, <5>1
        <5>3. n - logOffset - (n - logOffset - i + 1) + 1 = i
          BY <1>3
        <5>4. table[i].no \in Shown'
          BY <3>3, <5>1, <5>2, <5>3
        <5>5. QED
          BY <1>3, <5>4 DEF IsShown
      <4>3. QED
        BY <1>3, <4>1, <4>2
    <3>5. StaysExact'
      <4> SUFFICES ASSUME "live" \notin disturbed, Len(table) = mark
                   PROVE  Exact'
        BY <1>3, <2>5 DEF StaysExact
      <4>1. n = Len(table)
        BY <1>3
      <4>2. /\ IsPrefix(allLogs, Reverse(table)) /\ logOffset = Len(allLogs)
            /\ allLogs' = allLogs \o rows
        <5>1. IsPrefix(allLogs, Reverse(table)) /\ logOffset = Len(allLogs)
          BY <2>7 DEF Exact
        <5>2. CASE reset
          <6>1. allLogs = <<>>
            BY <2>7, <5>2
          <6>2. <<>> \o rows = rows
            BY <1>3
          <6>3. QED
            BY <3>1, <5>1, <5>2, <6>1, <6>2
        <5>3. CASE ~reset
          BY <3>1, <5>1, <5>3
        <5>4. QED
          BY <5>2, <5>3
      <4> DEFINE back == Reverse(table)
      <4>3. /\ back \in Seq(Entries) /\ Len(back) = Len(table)
            /\ \A i \in 1..Len(table) : back[i] = table[Len(table) - i + 1]
        BY <1>3 DEF Reverse
      <4> HIDE DEF back
      <4>4. /\ Len(allLogs) + Len(rows) <= Len(back)
            /\ \A j \in 1..Len(rows) : rows[j] = back[Len(allLogs) + j]
        <5>1. ASSUME NEW j \in 1..Len(rows)
              PROVE  rows[j] = back[Len(allLogs) + j]
          <6>1. Len(allLogs) + j \in 1..Len(table)
            BY <1>3, <3>2, <4>1, <4>2
          <6>2. back[Len(allLogs) + j] = table[Len(table) - (Len(allLogs) + j) + 1]
            BY <4>3, <6>1
          <6>3. Len(table) - (Len(allLogs) + j) + 1 = n - logOffset - j + 1
            BY <1>3, <4>1, <4>2
          <6>4. QED
            BY <3>2, <6>2, <6>3
        <5>2. QED
          BY <3>2, <4>1, <4>2, <4>3, <5>1
      <4>5. IsPrefix(allLogs \o rows, back)
        BY <1>3, <4>2, <4>3, <4>4, PrefixGrows DEF back
      <4>6. Len(allLogs') = Len(allLogs) + Len(rows) /\ logOffset' = Len(allLogs')
        BY <1>3, <3>1, <4>2, Concat
      <4>7. ~more' => Len(allLogs') = Len(table)
        <5> SUFFICES ASSUME ~more'
                     PROVE  Len(allLogs') = Len(table)
          OBVIOUS
        <5>1. ~(Len(rows) >= Batch)
          BY <3>1, Zenon
        <5>2. Len(rows) < Batch
          BY <1>3, <5>1
        <5>3. logOffset + Len(rows) <= n /\ logOffset + Len(rows) >= n
          BY <3>2, <5>2
        <5>4. Len(allLogs') = logOffset + Len(rows)
          BY <4>2, <4>6
        <5>5. logOffset \in Nat /\ Len(rows) \in Nat /\ Len(table) \in Nat
          BY <1>3
        <5>6. QED
          BY <4>1, <5>3, <5>4, <5>5
      <4>8. QED
        BY <1>3, <4>2, <4>5, <4>6, <4>7 DEF Exact, back
    <3>6. MissesNothing'
      <4> SUFFICES ASSUME "loss" \notin disturbed
                   PROVE  registered /\ \A i \in mark + 1..Len(table) :
                              table[i].sample = 0 => IsShown(i)' \/ OnWire(i)'
        BY <1>3, <2>4 DEF MissesNothing, Idle
      <4>1. QED
        BY <1>3, <2>6, <3>3 DEF IsShown, ShownStays, OnWire
    <3>7. QED
      BY <1>1, <2>5, <3>4, <3>5, <3>6 DEF LiveInv
  <2>10. QED
    BY <2>8, <2>9
<1>6. QED
  BY <1>4, <1>5

LEMMA InitLive == Init => LiveInv
<1> SUFFICES ASSUME Init
             PROVE  LiveInv
  OBVIOUS
<1>1. Typed
  BY InitTyped
<1>2. \A s \in Slots : ~Busy(s)
  BY DEF Init, Busy, Idle
<1>3. IdleIsIdle
  BY DEF Init, IdleIsIdle
<1>4. OneFetch
  BY <1>2 DEF OneFetch
<1>5. SkipsNothing
  BY <1>1 DEF Init, SkipsNothing, Typed, TypeOK
<1>6. StaysExact
  <2>1. Exact
    BY <1>1, EmptyIsExact DEF Init, Exact
  <2>2. QED
    BY <1>2, <2>1 DEF StaysExact, Resets
<1>7. MissesNothing
  BY DEF Init, MissesNothing
<1>8. QED
  BY <1>1, <1>3, <1>4, <1>5, <1>6, <1>7 DEF LiveInv

LEMMA StutterStep ==
    ASSUME LiveInv, UNCHANGED vars
    PROVE  LiveInv'
<1>1. Typed' /\ Longer
  BY StepTyped, TableGrows DEF LiveInv
<1>2. UNCHANGED <<table, registered, wire, allLogs, logOffset, more, fetches, mark, disturbed>>
  BY DEF vars, serverVars, socketVars, pageVars
<1>3. FetchesEnd /\ ShownStays
  BY <1>2 DEF FetchesEnd, ShownStays, Shown
<1>4. MissesNothing'
  BY <1>2 DEF LiveInv, MissesNothing, Resets, Busy, IsShown, Shown, OnWire
<1>5. QED
  BY <1>1, <1>2, <1>3, <1>4, FetchesStay, PageGoesOn DEF LiveInv

LEMMA LiveStep ==
    ASSUME LiveInv, [Next]_vars
    PROVE  LiveInv'
<1>1. CASE UNCHANGED vars
  BY <1>1, StutterStep
<1>2. CASE Next
  BY <1>2, LogStep, SeedStep, SeedRaisesStep, StartResetStep, LoadMoreStep, ReceiveStep, ClearStep,
     ConnectStep, DisconnectStep, RestartStep, ServeStep, ArriveStep, FetchFailsStep
     DEF Next
<1>3. QED
  BY <1>1, <1>2

THEOREM LiveInvariant == Spec => []LiveInv
<1>1. Init => LiveInv
  BY InitLive
<1>2. LiveInv /\ [Next]_vars => LiveInv'
  BY LiveStep
<1>3. QED
  BY <1>1, <1>2, PTL DEF Spec

-----------------------------------------------------------------------------
\* The server's lists and the page's are what the code takes them for, whatever
\* fails: RequestLogger.log, seed_sample_data and the page's handlers.
THEOREM LiveTypeCorrect == Spec => []TypeOK
<1>1. LiveInv => TypeOK
  BY DEF LiveInv, Typed
<1>2. QED
  BY <1>1, LiveInvariant, PTL

\* "Load More" asks by offset for the next rows while new ones are logged
\* (loadMoreLogs, SELECT ... OFFSET ?): it never skips one, for any number of
\* rows, size of a batch and order in which fetches and requests come.
THEOREM PagingSkipsNothing == Spec => []NothingSkipped
<1>1. LiveInv => NothingSkipped
  BY DEF LiveInv, SkipsNothing, NothingSkipped, Quiet
<1>2. QED
  BY <1>1, LiveInvariant, PTL

\* As long as nothing is added, the list that loadLogs and loadMoreLogs put
\* together is the table's newest rows, each of them once.
THEOREM PageStaysExact == Spec => []PageIsExact
<1>1. LiveInv => PageIsExact
  BY DEF LiveInv, StaysExact, PageIsExact, Quiet, Exact
<1>2. QED
  BY <1>1, LiveInvariant, PTL

\* What RequestLogger.log broadcasts and what a reset reads fit together: each row
\* logged since the reset was answered is on the page or on its way. Not covered is
\* a page whose socket was down or broke since the reset began, or on which fetches
\* overlapped, a reset failed, the list was cleared, or an entry arrived while the
\* reset was under way: there rows are missed.
THEOREM PageMissesNothing == Spec => []NothingMissed
<1>1. LiveInv => NothingMissed
  <2>1. ASSUME LiveInv, Quiet({"overlap", "loss"}), NEW i \in mark + 1..Len(table), table[i].sample = 0
        PROVE  IsShown(i) \/ OnWire(i)
    <3>1. ~Resets
      BY <2>1 DEF Quiet, Free, Resets, Busy
    <3>2. QED
      BY <2>1, <3>1 DEF LiveInv, MissesNothing, Quiet
  <2>2. QED
    BY <2>1 DEF NothingMissed, OnWire
<1>2. QED
  BY <1>1, LiveInvariant, PTL

-----------------------------------------------------------------------------
(* The deque and the table. *)

DequeIsNumbered == \A e \in ToSet(deque) : e.no \in 1..Made

MemoryInv ==
    /\ DequeIsNumbered
    /\ Ends(Kept(deque, Saved), table)

\* New entries end both, those whose INSERT failed only the deque.
LEMMA EntriesAdded ==
    ASSUME Typed, Typed', MemoryInv, NEW rows \in Seq(Entries),
           deque' = Trim(deque \o rows),
           table' = table \o Kept(rows, Saved'),
           unsaved \subseteq unsaved', \A no \in unsaved' \ unsaved : no > Made,
           Made' >= Made, \A e \in ToSet(rows) : e.no \in 1..Made'
    PROVE  MemoryInv'
<1> DEFINE all == deque \o rows
<1>1. /\ deque \in Seq(Entries) /\ table \in Seq(Entries) /\ MaxLogSize \in Nat
      /\ all \in Seq(Entries) /\ Made \in Nat /\ Made' \in Nat
  <2>1. Made \in Nat
    BY MadeType
  <2>2. Made' \in Nat
    <3>1. Len(table') \in Nat
      BY DEF Typed, TypeOK
    <3>2. Cardinality(unsaved') \in Nat
      BY FS_CardinalityType DEF Typed
    <3>3. QED
      BY <3>1, <3>2 DEF Made
  <2>3. QED
    BY <2>1, <2>2, Sizes DEF Typed, TypeOK
<1>2. ToSet(all) = ToSet(deque) \cup ToSet(rows)
  BY <1>1, ToSetConcat
<1> HIDE DEF all
<1>3. deque' = Latest(all, MaxLogSize)
  BY DEF Trim, all
<1>4. DequeIsNumbered'
  <2>1. ToSet(deque') \subseteq ToSet(all)
    BY <1>1, <1>3, LatestAmong
  <2>2. \A e \in ToSet(all) : e.no \in 1..Made'
    BY <1>1, <1>2 DEF MemoryInv, DequeIsNumbered
  <2>3. QED
    BY <2>1, <2>2 DEF DequeIsNumbered
<1>5. Kept(deque, Saved') = Kept(deque, Saved)
  <2>1. \A e \in ToSet(deque) : e \in Entries /\ (e.no \in unsaved' <=> e.no \in unsaved)
    BY <1>1, Elements DEF MemoryInv, DequeIsNumbered
  <2>2. ToSet(deque) \cap Saved' = ToSet(deque) \cap Saved
    BY <2>1 DEF Saved
  <2>3. QED
    BY <1>1, <2>2, KeptSame
<1>6. Kept(all, Saved') = Kept(deque, Saved) \o Kept(rows, Saved')
  <2>1. Kept(deque \o rows, Saved') = Kept(deque, Saved') \o Kept(rows, Saved')
    BY <1>1, KeptConcat
  <2>2. QED
    BY <1>5, <2>1 DEF all
<1>7. /\ Kept(deque, Saved) \in Seq(Entries) /\ Kept(rows, Saved') \in Seq(Entries)
      /\ Kept(all, Saved') \in Seq(Entries) /\ Kept(deque', Saved') \in Seq(Entries)
  <2>1. deque' \in Seq(Entries)
    BY DEF Typed, TypeOK
  <2>2. QED
    BY <1>1, <2>1, KeptElements
<1>8. Ends(Kept(all, Saved'), table')
  <2>1. Ends(Kept(deque, Saved), table)
    BY DEF MemoryInv
  <2>2. Ends(Kept(deque, Saved) \o Kept(rows, Saved'), table \o Kept(rows, Saved'))
    BY <1>1, <1>7, <2>1, EndsConcat
  <2>3. QED
    BY <1>6, <2>2
<1>9. Ends(Kept(deque', Saved'), Kept(all, Saved'))
  BY <1>1, <1>3, KeptLatest
<1>10. Ends(Kept(deque', Saved'), table')
  <2>1. table' \in Seq(Entries)
    BY DEF Typed, TypeOK
  <2>2. QED
    BY <1>7, <1>8, <1>9, <2>1, EndsOfEnds
<1>11. QED
  BY <1>4, <1>10 DEF MemoryInv

LEMMA LogKeepsMemory ==
    ASSUME Typed, MemoryInv, Log
    PROVE  MemoryInv'
<1> DEFINE entry == Entry(Made + 1, 0)
<1>1. Typed' /\ Made' = Made + 1 /\ Made \in Nat
  BY LogTyped, MadeType
<1>2. entry \in Entries /\ entry.no = Made + 1
  BY <1>1, Sizes DEF Entry, Entries
<1>3. /\ deque' = Trim(Append(deque, entry))
      /\ \/ table' = Append(table, entry) /\ unsaved' = unsaved
         \/ table' = table /\ unsaved' = unsaved \cup {entry.no}
  BY DEF Log
<1> HIDE DEF entry
<1> DEFINE rows == <<entry>>
<1>4. rows \in Seq(Entries) /\ ToSet(rows) = {entry}
  BY <1>2 DEF ToSet
<1>5. /\ deque \in Seq(Entries) /\ table \in Seq(Entries) /\ unsaved \subseteq 1..Made
      /\ rows = Append(<<>>, entry) /\ <<>> \in Seq(Entries)
  BY DEF Typed, TypeOK
<1>6. Append(deque, entry) = deque \o rows /\ Append(table, entry) = table \o rows /\ table \o <<>> = table
  BY <1>2, <1>5
<1>7. Kept(rows, Saved') = IF entry \in Saved' THEN rows ELSE <<>>
  <2>1. Kept(Append(<<>>, entry), Saved') =
          IF entry \in Saved' THEN Append(Kept(<<>>, Saved'), entry) ELSE Kept(<<>>, Saved')
    BY <1>2, <1>5, KeptAppend
  <2>2. QED
    BY <1>5, <2>1, KeptEmpty
<1>8. \A e \in ToSet(rows) : e.no \in 1..Made'
  BY <1>1, <1>2, <1>4
<1> HIDE DEF rows
<1>9. table' = table \o Kept(rows, Saved')
  <2>1. CASE table' = Append(table, entry) /\ unsaved' = unsaved
    <3>1. entry \in Saved'
      BY <1>1, <1>2, <1>5, <2>1 DEF Saved
    <3>2. QED
      BY <1>6, <1>7, <2>1, <3>1
  <2>2. CASE table' = table /\ unsaved' = unsaved \cup {entry.no}
    <3>1. entry \notin Saved'
      BY <2>2 DEF Saved
    <3>2. QED
      BY <1>6, <1>7, <2>2, <3>1
  <2>3. QED
    BY <1>3, <2>1, <2>2
<1>10. unsaved \subseteq unsaved' /\ \A no \in unsaved' \ unsaved : no > Made
  BY <1>1, <1>2, <1>3
<1>11. deque' = Trim(deque \o rows) /\ Made' >= Made
  BY <1>1, <1>3, <1>6
<1>12. QED
  BY <1>1, <1>4, <1>8, <1>9, <1>10, <1>11, EntriesAdded

LEMMA SampleNumbers ==
    ASSUME Typed, NEW k \in 0..SampleAttacks
    PROVE  \A e \in ToSet(SampleRows(k)) : e.no \in Made + 1..Made + k
<1>1. Made \in Nat /\ k \in Nat /\ Len(SampleRows(k)) = k
  BY MadeType, SampleRowsType, Sizes
<1>2. \A i \in 1..k : SampleRows(k)[i].no = Made + i
  BY DEF SampleRows, Entry
<1>3. QED
  BY <1>1, <1>2 DEF ToSet

LEMMA SeedKeepsMemory ==
    ASSUME Typed, MemoryInv, Seed
    PROVE  MemoryInv'
<1> DEFINE rows == SampleRows(SampleAttacks)
<1>1. /\ Typed' /\ Made' = Made + SampleAttacks /\ Made \in Nat
      /\ SampleAttacks \in Nat /\ SampleAttacks \in 0..SampleAttacks
  BY SeedTyped, MadeType, Sizes
<1>2. rows \in Seq(Entries) /\ \A e \in ToSet(rows) : e.no \in Made + 1..Made + SampleAttacks
  BY <1>1, SampleRowsType, SampleNumbers
<1>3. deque' = Trim(deque \o rows) /\ table' = table \o rows /\ unsaved' = unsaved
  BY DEF Seed
<1> HIDE DEF rows
<1>4. Kept(rows, Saved') = rows
  <2>1. unsaved' \subseteq 1..Made
    BY <1>3 DEF Typed, TypeOK
  <2>2. ToSet(rows) \subseteq Saved'
    BY <1>1, <1>2, <2>1, Elements DEF Saved
  <2>3. QED
    BY <1>2, <2>2, KeptAll
<1>5. \A e \in ToSet(rows) : e.no \in 1..Made'
  BY <1>1, <1>2
<1>6. Made' >= Made
  BY <1>1
<1>7. QED
  BY <1>1, <1>2, <1>3, <1>4, <1>5, <1>6, EntriesAdded

LEMMA SeedRaisesKeepsMemory ==
    ASSUME Typed, MemoryInv, NEW k \in 1..SampleAttacks, SeedRaises(k)
    PROVE  MemoryInv'
<1> DEFINE rows == SampleRows(k)
           front == SampleRows(k - 1)
           lost == Entry(Made + k, k)
<1>1. /\ Typed' /\ Made' = Made + k /\ Made \in Nat /\ SampleAttacks \in Nat
      /\ k \in 0..SampleAttacks /\ k - 1 \in 0..SampleAttacks /\ k \in Nat /\ k - 1 \in Nat
  BY SeedRaisesTyped, MadeType, Sizes
<1>2. rows \in Seq(Entries) /\ \A e \in ToSet(rows) : e.no \in Made + 1..Made + k
  BY <1>1, SampleRowsType, SampleNumbers
<1>3. /\ front \in Seq(Entries) /\ Len(front) = k - 1
      /\ \A e \in ToSet(front) : e.no \in Made + 1..Made + (k - 1)
  BY <1>1, SampleRowsType, SampleNumbers
<1>4. deque' = Trim(deque \o rows) /\ table' = table \o front /\ unsaved' = unsaved \cup {Made + k}
  BY DEF SeedRaises
<1>5. lost \in Entries /\ lost.no = Made + k
  BY <1>1 DEF Entry, Entries
<1>6. rows = Append(front, lost)
  <2>1. Len(rows) = k /\ \A i \in 1..k : rows[i] = Entry(Made + i, i)
    BY <1>1, SampleRowsType DEF SampleRows
  <2>2. \A i \in 1..k - 1 : front[i] = Entry(Made + i, i)
    BY DEF SampleRows
  <2> HIDE DEF rows, front
  <2>3. /\ Append(front, lost) \in Seq(Entries) /\ Len(Append(front, lost)) = k
        /\ \A i \in 1..k - 1 : Append(front, lost)[i] = front[i]
        /\ Append(front, lost)[k] = lost
    <3> HIDE DEF lost
    <3>1. /\ Append(front, lost) \in Seq(Entries) /\ Len(Append(front, lost)) = (k - 1) + 1
          /\ \A i \in 1..k - 1 : Append(front, lost)[i] = front[i]
          /\ Append(front, lost)[(k - 1) + 1] = lost
      BY <1>3, <1>5, Appended
    <3>2. (k - 1) + 1 = k
      BY <1>1
    <3>3. QED
      BY <3>1, <3>2
  <2>4. ASSUME NEW i \in 1..k
        PROVE  rows[i] = Append(front, lost)[i]
    <3>1. CASE i = k
      BY <2>1, <2>3, <3>1
    <3>2. CASE i # k
      <4>1. i \in 1..k - 1
        BY <1>1, <3>2
      <4>2. QED
        BY <2>1, <2>2, <2>3, <4>1
    <3>3. QED
      BY <3>1, <3>2
  <2> HIDE DEF lost
  <2>5. QED
    BY <1>2, <2>1, <2>3, <2>4
<1> HIDE DEF rows, front, lost
<1>7. Kept(rows, Saved') = front
  <2>1. unsaved' \subseteq (1..Made) \cup {Made + k}
    BY <1>4 DEF Typed, TypeOK
  <2>2. ToSet(front) \subseteq Saved'
    BY <1>1, <1>3, <2>1, Elements DEF Saved
  <2>3. lost \notin Saved'
    BY <1>4, <1>5 DEF Saved
  <2>4. Kept(Append(front, lost), Saved') =
          IF lost \in Saved' THEN Append(Kept(front, Saved'), lost) ELSE Kept(front, Saved')
    BY <1>3, <1>5, KeptAppend
  <2>5. Kept(front, Saved') = front
    BY <1>3, <2>2, KeptAll
  <2>6. QED
    BY <1>6, <2>3, <2>4, <2>5
<1>8. \A e \in ToSet(rows) : e.no \in 1..Made'
  BY <1>1, <1>2
<1>9. unsaved \subseteq unsaved' /\ \A no \in unsaved' \ unsaved : no > Made
  BY <1>1, <1>4
<1>10. Made' >= Made
  BY <1>1
<1>11. QED
  BY <1>1, <1>2, <1>4, <1>7, <1>8, <1>9, <1>10, EntriesAdded

LEMMA NoDequeNoQuestion ==
    ASSUME Typed, deque = <<>>
    PROVE  MemoryInv
<1>1. ToSet(deque) = {} /\ Kept(deque, Saved) = <<>>
  BY KeptEmpty DEF ToSet
<1>2. Len(table) \in Nat
  BY DEF Typed, TypeOK
<1>3. QED
  BY <1>1, <1>2 DEF MemoryInv, DequeIsNumbered, Ends

LEMMA MemoryStep ==
    ASSUME Typed, MemoryInv, [Next]_vars
    PROVE  MemoryInv'
<1>1. CASE Log
  BY <1>1, LogKeepsMemory
<1>2. CASE Seed
  BY <1>2, SeedKeepsMemory
<1>3. CASE \E k \in 1..SampleAttacks : SeedRaises(k)
  BY <1>3, SeedRaisesKeepsMemory
<1>4. CASE Restart
  <2>1. Typed' /\ deque' = <<>>
    BY <1>4, RestartTyped DEF Restart
  <2>2. ToSet(deque') = {} /\ Kept(deque', Saved') = <<>>
    BY <2>1, KeptEmpty DEF ToSet
  <2>3. Len(table') \in Nat
    BY <2>1 DEF Typed, TypeOK
  <2>4. QED
    BY <2>2, <2>3 DEF MemoryInv, DequeIsNumbered, Ends
<1>5. CASE UNCHANGED serverVars
  BY <1>5 DEF serverVars, MemoryInv, DequeIsNumbered, Saved, Made
<1>6. QED
  <2>1. CASE UNCHANGED vars
    BY <1>5, <2>1 DEF vars
  <2>2. CASE Next
    BY <1>1, <1>2, <1>3, <1>4, <1>5, <2>2
       DEF Next, StartReset, LoadMore, Receive, Received, Clear, Connect, Disconnect, Serve,
           Arrive, FetchFails
  <2>3. QED
    BY <2>1, <2>2

\* RequestLogger._logs (the deque) and request_logs (the table) tell the same
\* story, for every size of the deque: what RequestLogger.log and
\* seed_sample_data put into memory is, in its order and without gaps, the end of
\* the table, except for the entries whose INSERT raised.
THEOREM MemoryIsTheTail == Spec => []DequeIsTheTail
<1>1. Init => MemoryInv
  BY InitTyped, NoDequeNoQuestion DEF Init
<1>2. Typed /\ MemoryInv /\ [Next]_vars => MemoryInv'
  BY MemoryStep
<1>3. Typed /\ MemoryInv => DequeIsTheTail
  BY KeptElements, EndsIsSuffix DEF Typed, TypeOK, MemoryInv, DequeIsTheTail
<1>4. LiveInv => Typed
  BY DEF LiveInv
<1>5. QED
  BY <1>1, <1>2, <1>3, <1>4, LiveInvariant, PTL DEF Spec

=============================================================================
