------------------------ MODULE RedisMirror_proofs ------------------------
(***************************************************************************)
(* What the two copies of the blacklist guarantee, for any number of calls, *)
(* clients, failures, restarts, and any durations and thresholds.           *)
(***************************************************************************)
EXTENDS RedisMirror, TLAPS

-----------------------------------------------------------------------------
(* The inductive invariant. *)

Open(c) == calls[c].phase \notin {"idle", "done"}
At(c, ip) == Open(c) /\ calls[c].ip = ip

Crossed(ip) == "crossed" \in apart[ip]
Overstated(ip) == apart[ip] \cap Overstates # {}
Understated(ip) == apart[ip] \cap Understates # {}

\* A call awaits only commands of its kind, and only of a Redis it has.
PhaseFitsKind ==
    \A c \in Calls :
        /\ calls[c].phase = "hset" => calls[c].kind # "unban"
        /\ calls[c].phase = "expire" => calls[c].kind = "ban"
        /\ calls[c].phase = "del" => calls[c].kind = "unban"
        /\ calls[c].phase \in {"hset", "expire", "del"} => connected

\* A call that is alone is the only one under way for its client.
AloneIsAlone(ip) ==
    \A c, d \in Calls : At(c, ip) /\ At(d, ip) /\ calls[c].alone => c = d

\* Unless they are known to have crossed, calls under way are of one kind.
OneKind(ip) ==
    \A c, d \in Calls : At(c, ip) /\ At(d, ip) /\ ~Crossed(ip) => calls[c].kind = calls[d].kind

\* No TTL is longer than a ban.
TTLIsBounded(ip) == hash[ip].ttl <= now + BanDuration

\* A call is about to set the TTL.
Awaited(ip) == \E c \in Calls : calls[c].ip = ip /\ calls[c].phase = "expire"

\* What a call has done to the hash is still there when it comes to the table,
\* unless it ran into calls of another kind or a ban that failed.
Undisturbed(c, ip) == connected /\ (calls[c].alone \/ ~Overstated(ip))

HashFits(c, ip) ==
    LET h == hash[ip]
    IN  /\ calls[c].phase = "expire" => ~h.permanent
        /\ calls[c].phase = "table" /\ calls[c].kind = "ban" =>
            /\ ~h.permanent
            /\ Visible(h, now) => h.ttl # NoTTL \/ Awaited(ip)
        /\ calls[c].phase = "table" /\ calls[c].kind = "permanent" /\ Visible(h, now)
            => h.permanent
        /\ calls[c].phase = "table" /\ calls[c].kind = "unban" => ~h.present

HashIsTheirs(ip) == \A c \in Calls : At(c, ip) /\ Undisturbed(c, ip) => HashFits(c, ip)

\* A ban that has told Redis has an entry there, shown or run out, unless an unban
\* crossed it.
Told(c) == connected /\ calls[c].kind # "unban" /\ calls[c].phase \in {"expire", "table"}

HashIsThere(ip) ==
    \A c \in Calls : At(c, ip) /\ Told(c) /\ (calls[c].alone \/ ~Crossed(ip)) => hash[ip].present

Fades(ip) ==
    Visible(hash[ip], now) /\ ~hash[ip].permanent =>
        hash[ip].ttl # NoTTL \/ Awaited(ip) \/ "ban failed" \in apart[ip]

\* The row refuses the client for as long as the hash shows it.
Covered(h, row) ==
    /\ row.present
    /\ \/ row.permanent
       \/ ~h.permanent /\ h.ttl # NoTTL /\ h.ttl <= row.expires

\* A call has changed the hash and will write the row.
Coming(ip) == connected /\ \E c \in Calls : calls[c].ip = ip /\ calls[c].phase \in {"expire", "table"}

ShownIsCovered(ip) ==
    ~Overstated(ip) /\ Visible(hash[ip], now) => Covered(hash[ip], rows[ip]) \/ Coming(ip)

\* An unban has deleted the hash and will delete the row.
Erasing(ip) == \E c \in Calls : calls[c].ip = ip /\ calls[c].phase = "table" /\ calls[c].kind = "unban"

BannedIsThere(ip) ==
    ~Understated(ip) /\ IsBlocked(rows[ip], now) => hash[ip].present \/ Erasing(ip)

\* A row that is gone records nothing.
GoneIsGone(ip) == ~rows[ip].present => rows[ip] = NoRow

ClientInv(ip) ==
    /\ GoneIsGone(ip)
    /\ AloneIsAlone(ip)
    /\ OneKind(ip)
    /\ TTLIsBounded(ip)
    /\ HashIsTheirs(ip)
    /\ HashIsThere(ip)
    /\ Fades(ip)
    /\ ShownIsCovered(ip)
    /\ BannedIsThere(ip)

MirrorInv ==
    /\ TypeOK
    /\ PhaseFitsKind
    /\ \A ip \in IPs : ClientInv(ip)

AllCauses == Overstates \cup Understates

LEMMA TheCauses ==
    /\ AllCauses = {"ban failed", "unban failed", "crossed", "unseen", "penalty", "shortened"}
    /\ Overstates = {"ban failed", "crossed", "unseen", "shortened"}
    /\ Understates = {"unban failed", "crossed", "unseen", "penalty"}
    /\ \A c \in Calls : Failure(calls[c]) \in AllCauses
    /\ \A ip : Crossed(ip) => Overstated(ip) /\ Understated(ip)
BY DEF AllCauses, Overstates, Understates, Overstated, Understated, Crossed, Failure

\* A cause that is remembered still counts.
LEMMA CausesGrow ==
    ASSUME NEW ip, apart[ip] \subseteq apart'[ip]
    PROVE  /\ Overstated(ip) => Overstated(ip)'
           /\ Understated(ip) => Understated(ip)'
           /\ Crossed(ip) => Crossed(ip)'
           /\ "ban failed" \in apart[ip] => "ban failed" \in apart'[ip]
BY DEF Overstated, Understated, Crossed

-----------------------------------------------------------------------------
(* Types. *)

LEMMA RowOperators ==
    ASSUME NEW row \in Row, NEW t \in Nat
    PROVE  /\ NoRow \in Row
           /\ Violated(row) \in Row
           /\ \A permanent \in BOOLEAN : Banned(row, permanent, t) \in Row
           /\ AfterLookup(row, t) \subseteq Row
<1>1. NoRow \in Row
  BY DEF Row, NoRow, NULL
<1>2. Violated(row) \in Row
  <2>1. row.count + 1 \in Nat
    BY DEF Row
  <2>2. QED
    BY <2>1 DEF Row, Violated
<1>3. \A permanent \in BOOLEAN : Banned(row, permanent, t) \in Row
  BY DEF Row, Banned, NULL
<1>4. AfterLookup(row, t) \subseteq Row
  BY <1>1 DEF AfterLookup
<1>5. QED
  BY <1>1, <1>2, <1>3, <1>4

Hash == [present : BOOLEAN, permanent : BOOLEAN, ttl : Nat \cup {NoTTL}]
HashOK(h) == h \in Hash /\ (~h.present => h = NoHash)

LEMMA HashOperators ==
    ASSUME NEW h, HashOK(h), NEW t \in Nat
    PROVE  /\ HashOK(NoHash)
           /\ \A permanent \in BOOLEAN : HashOK(HSet(h, permanent, t))
           /\ HashOK(Expire(h, t))
           /\ HashOK(Del(h))
<1> USE MirrorAssumption DEF HashOK, Hash, NoHash, NoTTL
<1>1. \A permanent \in BOOLEAN : HashOK(HSet(h, permanent, t))
  BY DEF HSet, Visible
<1>2. HashOK(Expire(h, t))
  <2>1. t + BanDuration \in Nat
    OBVIOUS
  <2>2. CASE Visible(h, t)
    BY <2>1, <2>2 DEF Expire, Visible
  <2>3. CASE ~Visible(h, t)
    BY <2>3 DEF Expire
  <2>4. QED
    BY <2>2, <2>3
<1>3. QED
  BY <1>1, <1>2 DEF Del

LEMMA InitType == ASSUME Init PROVE TypeOK
<1>1. Idle \in Call
  BY MirrorAssumption DEF Idle, Call, Kinds
<1>2. NoRow \in Row
  BY DEF NoRow, Row, NULL
<1>3. NoHash \in Hash
  BY DEF NoHash, Hash, NoTTL
<1>4. hash \in [IPs -> Hash] /\ \A ip \in IPs : hash[ip] = NoHash
  BY <1>3 DEF Init
<1>5. rows \in [IPs -> Row] /\ calls \in [Calls -> Call] /\ apart \in [IPs -> SUBSET AllCauses]
  BY <1>1, <1>2 DEF Init
<1>6. now \in 0..MaxTime /\ failures \in 0..MaxFailures /\ restarts \in 0..MaxRestarts
  <2>1. now = 0 /\ failures = 0 /\ restarts = 0
    BY DEF Init
  <2>2. QED
    BY <2>1, MirrorAssumption
<1>7. connected \in BOOLEAN /\ locked \in BOOLEAN
  BY Zenon DEF Init
<1>8. QED
  BY <1>4, <1>5, <1>6, <1>7 DEF TypeOK, Hash, AllCauses

\* What a command leaves.
LEMMA ExecutedType ==
    ASSUME TypeOK, NEW c \in Calls, calls[c].phase \in {"hset", "expire", "del"}
    PROVE  /\ Executed(c) \in [IPs -> Hash]
           /\ \A ip \in IPs : HashOK(Executed(c)[ip])
<1> DEFINE ip == calls[c].ip
<1>1. ip \in IPs /\ now \in Nat /\ (calls[c].kind = "permanent") \in BOOLEAN
  BY MirrorAssumption DEF TypeOK, Call
<1>2. hash \in [IPs -> Hash] /\ \A i \in IPs : HashOK(hash[i])
  BY DEF TypeOK, Hash, HashOK
<1>3. HashOK(hash[ip])
  BY <1>1, <1>2
<1>4. \A h : HashOK(h) => h \in Hash
  BY DEF HashOK
<1>5. CASE calls[c].phase = "hset"
  <2>1. HashOK(HSet(hash[ip], calls[c].kind = "permanent", now))
    BY <1>1, <1>3, HashOperators
  <2>2. QED
    BY <1>1, <1>2, <1>4, <1>5, <2>1 DEF Executed
<1>6. CASE calls[c].phase = "expire"
  <2>1. HashOK(Expire(hash[ip], now))
    BY <1>1, <1>3, HashOperators
  <2>2. QED
    BY <1>1, <1>2, <1>4, <1>6, <2>1 DEF Executed
<1>7. CASE calls[c].phase = "del"
  <2>1. HashOK(Del(hash[ip]))
    BY <1>1, <1>3, HashOperators
  <2>2. QED
    BY <1>1, <1>2, <1>4, <1>7, <2>1 DEF Executed
<1>8. QED
  BY <1>5, <1>6, <1>7

\* A step that changes nothing keeps the types.
LEMMA StutterType == ASSUME TypeOK, UNCHANGED vars PROVE TypeOK'
<1>1. UNCHANGED <<now, connected, hash, rows, locked, calls, failures, restarts, apart>>
  BY DEF vars
<1>2. QED
  BY <1>1, Zenon DEF TypeOK

LEMMA StepType == ASSUME TypeOK, [Next]_vars PROVE TypeOK'
<1> USE MirrorAssumption DEF TypeOK, AllCauses
<1>1. CASE UNCHANGED vars
  BY <1>1, StutterType
<1>2. ASSUME NEW c \in Calls, NEW kind \in Kinds, NEW ip \in IPs, Begin(c, kind, ip)
      PROVE  TypeOK'
  <2>1. calls' \in [Calls -> Call]
    <3>1. (UnderWay(ip) = {}) \in BOOLEAN
      OBVIOUS
    <3>2. \A d \in Calls : calls[d] \in Call /\ [calls[d] EXCEPT !.alone = FALSE] \in Call
      BY DEF Call
    <3>3. [phase |-> IF ~connected THEN "table" ELSE IF kind = "unban" THEN "del" ELSE "hset",
           kind |-> kind, ip |-> ip, alone |-> UnderWay(ip) = {}] \in Call
      BY <3>1 DEF Call
    <3>4. QED
      BY <1>2, <3>2, <3>3 DEF Begin
  <2>2. apart' \in [IPs -> SUBSET AllCauses]
    BY <1>2, TheCauses DEF Begin
  <2>3. UNCHANGED <<now, connected, hash, rows, locked, failures, restarts>>
    BY <1>2 DEF Begin
  <2>4. QED
    BY <2>1, <2>2, <2>3
<1>3. ASSUME NEW c \in Calls, RedisAnswers(c)
      PROVE  TypeOK'
  <2>1. hash' \in [IPs -> Hash] /\ \A ip \in IPs : HashOK(hash'[ip])
    BY <1>3, ExecutedType DEF RedisAnswers
  <2>2. calls' \in [Calls -> Call]
    BY <1>3 DEF RedisAnswers, NextPhase, Call
  <2>3. QED
    BY <1>3, <2>1, <2>2 DEF RedisAnswers, Hash, HashOK
<1>4. ASSUME NEW c \in Calls, RedisRaises(c)
      PROVE  TypeOK'
  <2>1. Executed(c) \in [IPs -> Hash] /\ \A ip \in IPs : HashOK(Executed(c)[ip])
    BY <1>4, ExecutedType DEF RedisRaises
  <2>2. hash' \in [IPs -> Hash] /\ \A ip \in IPs : HashOK(hash'[ip])
    BY <1>4, <2>1 DEF RedisRaises, Hash, HashOK
  <2>3. calls' \in [Calls -> Call]
    BY <1>4 DEF RedisRaises, Call
  <2>4. apart' \in [IPs -> SUBSET AllCauses]
    BY <1>4, TheCauses DEF RedisRaises
  <2>5. QED
    BY <1>4, <2>2, <2>3, <2>4 DEF RedisRaises, Hash, HashOK
<1>5. ASSUME NEW c \in Calls, TableWritten(c)
      PROVE  TypeOK'
  <2>1. calls[c].ip \in IPs /\ rows[calls[c].ip] \in Row /\ now + BanDuration \in Nat
    BY DEF Call
  <2>2. rows' \in [IPs -> Row]
    <3>1. (calls[c].kind = "permanent") \in BOOLEAN
      OBVIOUS
    <3>2. /\ Banned(rows[calls[c].ip], calls[c].kind = "permanent", now + BanDuration) \in Row
          /\ NoRow \in Row
      BY <2>1, <3>1, RowOperators
    <3>3. QED
      BY <1>5, <2>1, <3>2 DEF TableWritten
  <2>3. calls' \in [Calls -> Call]
    BY <1>5 DEF TableWritten, Call
  <2>4. apart' \in [IPs -> SUBSET AllCauses]
    BY <1>5, <2>1, TheCauses DEF TableWritten, Settled
  <2>5. QED
    BY <1>5, <2>2, <2>3, <2>4 DEF TableWritten
<1>6. ASSUME NEW c \in Calls, TableRaises(c)
      PROVE  TypeOK'
  <2>1. calls' \in [Calls -> Call]
    BY <1>6 DEF TableRaises, Call
  <2>2. apart' \in [IPs -> SUBSET AllCauses]
    BY <1>6, TheCauses DEF TableRaises
  <2>3. QED
    BY <1>6, <2>1, <2>2 DEF TableRaises
<1>7. ASSUME NEW ip \in IPs, Penalise(ip)
      PROVE  TypeOK'
  <2>1. rows' \in [IPs -> Row]
    <3>1. Violated(rows[ip]) \in Row /\ now + AutoDuration \in Nat
      BY RowOperators
    <3>2. Banned(Violated(rows[ip]), FALSE, now + AutoDuration) \in Row
      BY <3>1, RowOperators
    <3>3. QED
      BY <1>7, <3>1, <3>2 DEF Penalise
  <2>2. apart' \in [IPs -> SUBSET AllCauses]
    BY <1>7, TheCauses DEF Penalise
  <2>3. QED
    BY <1>7, <2>1, <2>2 DEF Penalise
<1>8. ASSUME NEW ip \in IPs, LookUp(ip)
      PROVE  TypeOK'
  <2>1. AfterLookup(rows[ip], now) \subseteq Row
    <3>1. rows[ip] \in Row /\ now \in Nat
      OBVIOUS
    <3>2. QED
      BY <3>1, RowOperators
  <2>2. rows' \in [IPs -> Row]
    BY <1>8, <2>1 DEF LookUp
  <2>3. QED
    BY <1>8, <2>2 DEF LookUp, callVars
<1>9. CASE CollectGarbage
  BY <1>9 DEF CollectGarbage, callVars
<1>10. CASE Restart
  <2>1. calls' \in [Calls -> Call]
    BY <1>10 DEF Restart, Call
  <2>2. apart' \in [IPs -> SUBSET AllCauses]
    <3>1. \A ip \in IPs : {Failure(calls[c]) : c \in UnderWay(ip)} \subseteq AllCauses
      BY TheCauses DEF UnderWay
    <3>2. QED
      BY <1>10, <3>1 DEF Restart
  <2>3. hash' = hash /\ rows' = rows /\ now' = now /\ failures' = failures
    BY <1>10 DEF Restart
  <2>4. /\ now' \in 0..MaxTime /\ hash' \in [IPs -> Hash] /\ rows' \in [IPs -> Row]
        /\ failures' \in 0..MaxFailures
        /\ \A ip \in IPs : ~hash'[ip].present => hash'[ip] = NoHash
    BY <2>3 DEF Hash
  <2>5. restarts' \in 0..MaxRestarts
    <3>1. restarts < MaxRestarts /\ restarts' = restarts + 1
      BY <1>10 DEF Restart
    <3>2. QED
      BY <3>1
  <2>6. connected' \in BOOLEAN /\ locked' \in BOOLEAN
    BY <1>10, Zenon DEF Restart
  <2>7. QED
    BY <2>1, <2>2, <2>4, <2>5, <2>6 DEF Hash
<1>11. CASE TimePasses
  BY <1>11 DEF TimePasses, callVars
<1>12. QED
  BY <1>1, <1>2, <1>3, <1>4, <1>5, <1>6, <1>7, <1>8, <1>9, <1>10, <1>11 DEF Next

\* All variables keep their types.
THEOREM MirrorTypeCorrect == Spec => []TypeOK
<1>1. TypeOK /\ [Next]_vars => TypeOK'
  BY StepType
<1>2. QED
  BY InitType, <1>1, PTL DEF Spec

-----------------------------------------------------------------------------
(* The invariant, action by action: the other clients first. *)

LEMMA Basics ==
    ASSUME TypeOK
    PROVE  /\ now \in Nat /\ BanDuration \in Nat \ {0} /\ AutoDuration \in Nat
           /\ calls \in [Calls -> Call]
           /\ \A c \in Calls : calls[c].ip \in IPs /\ calls[c].kind \in Kinds
           /\ hash \in [IPs -> Hash] /\ rows \in [IPs -> Row]
           /\ \A ip \in IPs : hash[ip] \in Hash /\ rows[ip] \in Row
           /\ apart \in [IPs -> SUBSET AllCauses]
BY MirrorAssumption DEF TypeOK, Call, Hash, AllCauses

\* A client whose copies, calls and causes a step leaves alone.
LEMMA Untouched ==
    ASSUME MirrorInv, NEW i \in IPs, UNCHANGED <<now, connected>>,
           hash'[i] = hash[i], rows'[i] = rows[i], apart'[i] = apart[i],
           \A d \in Calls : At(d, i) \/ At(d, i)' => calls'[d] = calls[d]
    PROVE  ClientInv(i)'
<1>1. \A d \in Calls : At(d, i)' <=> At(d, i)
  BY DEF At, Open
<1>2. (Awaited(i)' <=> Awaited(i)) /\ (Coming(i)' <=> Coming(i)) /\ (Erasing(i)' <=> Erasing(i))
  BY <1>1 DEF Awaited, Coming, Erasing, At, Open
<1>3. /\ Crossed(i)' <=> Crossed(i)
      /\ Overstated(i)' <=> Overstated(i)
      /\ Understated(i)' <=> Understated(i)
  BY DEF Crossed, Overstated, Understated
<1>4. ClientInv(i)
  BY DEF MirrorInv
<1>5. GoneIsGone(i)' /\ TTLIsBounded(i)'
  BY <1>4 DEF ClientInv, GoneIsGone, TTLIsBounded
<1>6. AloneIsAlone(i)'
  BY <1>1, <1>4 DEF ClientInv, AloneIsAlone
<1>7. OneKind(i)'
  BY <1>1, <1>3, <1>4 DEF ClientInv, OneKind
<1>8. HashIsTheirs(i)'
  BY <1>1, <1>2, <1>3, <1>4 DEF ClientInv, HashIsTheirs, HashFits, Undisturbed
<1>9. HashIsThere(i)'
  BY <1>1, <1>3, <1>4 DEF ClientInv, HashIsThere, Told
<1>10. Fades(i)'
  BY <1>2, <1>4 DEF ClientInv, Fades
<1>11. ShownIsCovered(i)' /\ BannedIsThere(i)'
  BY <1>2, <1>3, <1>4 DEF ClientInv, ShownIsCovered, BannedIsThere
<1>12. QED
  BY <1>5, <1>6, <1>7, <1>8, <1>9, <1>10, <1>11 DEF ClientInv

-----------------------------------------------------------------------------
(* A call comes in: it becomes one of those under way for its client. *)

LEMMA BeginKeepsInv ==
    ASSUME MirrorInv, TypeOK', NEW c \in Calls, NEW kind \in Kinds, NEW ip \in IPs, Begin(c, kind, ip)
    PROVE  MirrorInv'
<1>1. /\ TypeOK /\ ClientInv(ip)
      /\ calls \in [Calls -> Call] /\ calls[c].phase = "idle"
      /\ apart \in [IPs -> SUBSET AllCauses]
  BY Basics DEF MirrorInv, Begin
<1>2. /\ hash' = hash /\ rows' = rows /\ now' = now /\ connected' = connected
      /\ apart[ip] \subseteq apart'[ip]
      /\ \A i \in IPs : i # ip => apart'[i] = apart[i]
  BY <1>1 DEF Begin
<1>3. \A d \in Calls \ {c} :
        /\ calls'[d].phase = calls[d].phase
        /\ calls'[d].kind = calls[d].kind
        /\ calls'[d].ip = calls[d].ip
        /\ calls'[d].alone => calls[d].alone /\ ~At(d, ip)
        /\ ~At(d, ip) => calls'[d] = calls[d]
        /\ At(d, ip)' <=> At(d, ip)
  <2> SUFFICES ASSUME NEW d \in Calls \ {c}
               PROVE  /\ calls'[d].phase = calls[d].phase
                      /\ calls'[d].kind = calls[d].kind
                      /\ calls'[d].ip = calls[d].ip
                      /\ calls'[d].alone => calls[d].alone /\ ~At(d, ip)
                      /\ ~At(d, ip) => calls'[d] = calls[d]
                      /\ At(d, ip)' <=> At(d, ip)
    OBVIOUS
  <2>1. calls'[d] = IF d \in UnderWay(ip) THEN [calls[d] EXCEPT !.alone = FALSE] ELSE calls[d]
    BY <1>1 DEF Begin
  <2>2. d \in UnderWay(ip) <=> At(d, ip)
    BY DEF UnderWay, At, Open
  <2>3. calls[d] \in Call
    BY <1>1
  <2>4. /\ calls'[d].phase = calls[d].phase
        /\ calls'[d].kind = calls[d].kind
        /\ calls'[d].ip = calls[d].ip
        /\ calls'[d].alone => calls[d].alone /\ ~At(d, ip)
        /\ ~At(d, ip) => calls'[d] = calls[d]
    BY <2>1, <2>2, <2>3 DEF Call
  <2>5. QED
    BY <2>4 DEF At, Open
<1>4. /\ calls'[c].phase \in {"hset", "del", "table"}
      /\ calls'[c].phase = "table" => ~connected
      /\ calls'[c].phase # "table" => connected
      /\ calls'[c].phase = "del" => kind = "unban"
      /\ calls'[c].phase = "hset" => kind # "unban"
      /\ calls'[c].kind = kind /\ calls'[c].ip = ip
      /\ calls'[c].alone => \A d \in Calls : ~At(d, ip)
  <2>1. calls'[c] = [phase |-> IF ~connected THEN "table" ELSE IF kind = "unban" THEN "del" ELSE "hset",
                     kind |-> kind, ip |-> ip, alone |-> UnderWay(ip) = {}]
    BY <1>1 DEF Begin
  <2>2. UnderWay(ip) = {} => \A d \in Calls : ~At(d, ip)
    BY DEF UnderWay, At, Open
  <2>3. calls'[c].alone => UnderWay(ip) = {}
    <3>1. PICK alone \in BOOLEAN : alone = (UnderWay(ip) = {})
      OBVIOUS
    <3>2. calls'[c] = [phase |-> IF ~connected THEN "table" ELSE IF kind = "unban" THEN "del" ELSE "hset",
                       kind |-> kind, ip |-> ip, alone |-> alone]
      BY <2>1, <3>1, Zenon
    <3>3. calls'[c].alone = alone
      BY <3>2
    <3>4. QED
      BY <3>1, <3>3
  <2>4. /\ connected /\ kind = "unban" => calls'[c].phase = "del"
        /\ connected /\ kind # "unban" => calls'[c].phase = "hset"
        /\ ~connected => calls'[c].phase = "table"
        /\ calls'[c].kind = kind /\ calls'[c].ip = ip
    BY <2>1
  <2>5. QED
    BY <2>2, <2>3, <2>4
<1>5. \A d \in Calls : At(d, ip) /\ calls[d].kind # kind => Crossed(ip)'
  <2> SUFFICES ASSUME NEW d \in Calls, At(d, ip), calls[d].kind # kind
               PROVE  Crossed(ip)'
    OBVIOUS
  <2>1. d \in UnderWay(ip)
    BY DEF UnderWay, At, Open
  <2>2. QED
    BY <1>1, <2>1 DEF Begin, Crossed
<1>6. /\ Overstated(ip) => Overstated(ip)'
      /\ Understated(ip) => Understated(ip)'
      /\ Crossed(ip) => Crossed(ip)'
      /\ "ban failed" \in apart[ip] => "ban failed" \in apart'[ip]
  BY <1>2, CausesGrow
<1>7. /\ Awaited(ip) => Awaited(ip)'
      /\ Coming(ip) => Coming(ip)'
      /\ Erasing(ip) => Erasing(ip)'
  BY <1>1, <1>2, <1>3 DEF Awaited, Coming, Erasing
<1>8. PhaseFitsKind'
  <2>1. \A d \in Calls : d # c =>
          /\ calls'[d].phase = "hset" => calls'[d].kind # "unban"
          /\ calls'[d].phase = "expire" => calls'[d].kind = "ban"
          /\ calls'[d].phase = "del" => calls'[d].kind = "unban"
          /\ calls'[d].phase \in {"hset", "expire", "del"} => connected'
    BY <1>2, <1>3 DEF MirrorInv, PhaseFitsKind
  <2>2. QED
    BY <1>2, <1>4, <2>1 DEF PhaseFitsKind
<1>9. ASSUME NEW i \in IPs, i # ip
      PROVE  ClientInv(i)'
  <2>1. \A d \in Calls : At(d, i) \/ At(d, i)' => calls'[d] = calls[d]
    BY <1>1, <1>3, <1>4, <1>9 DEF At, Open
  <2>2. QED
    BY <1>2, <1>9, <2>1, Untouched
<1>10. GoneIsGone(ip)' /\ TTLIsBounded(ip)'
  BY <1>1, <1>2 DEF ClientInv, GoneIsGone, TTLIsBounded
<1>11. AloneIsAlone(ip)'
  BY <1>1, <1>3, <1>4 DEF ClientInv, AloneIsAlone
<1>12. OneKind(ip)'
  <2> SUFFICES ASSUME NEW d \in Calls, NEW e \in Calls, At(d, ip)', At(e, ip)', ~Crossed(ip)'
               PROVE  calls'[d].kind = calls'[e].kind
    BY DEF OneKind
  <2>1. \A a \in Calls : At(a, ip) => calls[a].kind = kind
    BY <1>5
  <2>2. \A a \in Calls : At(a, ip)' => calls'[a].kind = kind
    BY <1>3, <1>4, <2>1
  <2>3. QED
    BY <2>2
<1>13. HashIsTheirs(ip)'
  <2> SUFFICES ASSUME NEW d \in Calls, At(d, ip)', Undisturbed(d, ip)'
               PROVE  HashFits(d, ip)'
    BY DEF HashIsTheirs
  <2>1. CASE d = c
    BY <1>2, <1>4, <2>1 DEF HashFits, Undisturbed
  <2>2. CASE d # c
    <3>1. At(d, ip) /\ Undisturbed(d, ip)
      BY <1>2, <1>3, <1>6, <2>2 DEF Undisturbed
    <3>2. HashFits(d, ip)
      BY <1>1, <3>1 DEF ClientInv, HashIsTheirs
    <3>3. QED
      BY <1>2, <1>3, <1>7, <2>2, <3>2 DEF HashFits
  <2>3. QED
    BY <2>1, <2>2
<1>14. HashIsThere(ip)'
  <2> SUFFICES ASSUME NEW d \in Calls, At(d, ip)', Told(d)', calls'[d].alone \/ ~Crossed(ip)'
               PROVE  hash'[ip].present
    BY DEF HashIsThere
  <2>1. d # c
    BY <1>2, <1>4 DEF Told
  <2>2. At(d, ip) /\ Told(d) /\ ~Crossed(ip)
    BY <1>2, <1>3, <1>6, <2>1 DEF Told
  <2>3. QED
    BY <1>1, <1>2, <2>2 DEF ClientInv, HashIsThere
<1>15. Fades(ip)'
  BY <1>1, <1>2, <1>6, <1>7 DEF ClientInv, Fades
<1>16. ShownIsCovered(ip)' /\ BannedIsThere(ip)'
  BY <1>1, <1>2, <1>6, <1>7 DEF ClientInv, ShownIsCovered, BannedIsThere
<1>17. ClientInv(ip)'
  BY <1>10, <1>11, <1>12, <1>13, <1>14, <1>15, <1>16 DEF ClientInv
<1>18. QED
  BY <1>8, <1>9, <1>17 DEF MirrorInv

-----------------------------------------------------------------------------
(* Redis answers a command. *)

\* What a command does to the hash, by the phase of the call.
LEMMA WhatACommandDoes ==
    ASSUME TypeOK, NEW c \in Calls, calls[c].phase \in {"hset", "expire", "del"}
    PROVE  LET h  == hash[calls[c].ip]
               hh == Executed(c)[calls[c].ip]
           IN  /\ \A ip \in IPs : ip # calls[c].ip => Executed(c)[ip] = hash[ip]
               /\ calls[c].phase = "hset" =>
                     /\ hh.present
                     /\ hh.permanent <=> calls[c].kind = "permanent"
                     /\ hh.ttl = h.ttl \/ hh.ttl = NoTTL
               /\ calls[c].phase = "expire" =>
                     /\ hh.present <=> h.present
                     /\ hh.permanent <=> h.permanent
                     /\ \/ ~Visible(h, now) /\ hh = h
                        \/ Visible(h, now) /\ hh.ttl = now + BanDuration
               /\ calls[c].phase = "del" => hh = NoHash
<1>1. hash \in [IPs -> Hash] /\ calls[c].ip \in IPs
  BY DEF TypeOK, Call, Hash
<1>2. CASE calls[c].phase = "hset"
  <2>1. Executed(c) = [hash EXCEPT ![calls[c].ip] = HSet(@, calls[c].kind = "permanent", now)]
    BY <1>2 DEF Executed
  <2>2. Executed(c)[calls[c].ip] = HSet(hash[calls[c].ip], calls[c].kind = "permanent", now)
    BY <1>1, <2>1
  <2>3. (calls[c].kind = "permanent") \in BOOLEAN
    OBVIOUS
  <2>4. \A permanent \in BOOLEAN, h \in Hash :
           /\ HSet(h, permanent, now).present
           /\ HSet(h, permanent, now).permanent = permanent
           /\ HSet(h, permanent, now).ttl = h.ttl \/ HSet(h, permanent, now).ttl = NoTTL
    BY DEF HSet, NoHash, Hash
  <2>5. /\ Executed(c)[calls[c].ip].present
        /\ Executed(c)[calls[c].ip].permanent <=> calls[c].kind = "permanent"
        /\ \/ Executed(c)[calls[c].ip].ttl = hash[calls[c].ip].ttl
           \/ Executed(c)[calls[c].ip].ttl = NoTTL
    <3>1. PICK permanent \in BOOLEAN : permanent = (calls[c].kind = "permanent")
      BY <2>3
    <3>2. Executed(c)[calls[c].ip] = HSet(hash[calls[c].ip], permanent, now)
      BY <2>2, <3>1, Zenon
    <3>3. hash[calls[c].ip] \in Hash
      BY <1>1
    <3>4. QED
      BY <2>4, <3>1, <3>2, <3>3
  <2>6. \A ip \in IPs : ip # calls[c].ip => Executed(c)[ip] = hash[ip]
    BY <1>1, <2>1
  <2>7. QED
    BY <1>2, <2>5, <2>6
<1>3. CASE calls[c].phase = "expire"
  <2>1. Executed(c) = [hash EXCEPT ![calls[c].ip] = Expire(@, now)]
    BY <1>3 DEF Executed
  <2>2. QED
    BY <1>1, <1>3, <2>1 DEF Expire, Hash
<1>4. CASE calls[c].phase = "del"
  BY <1>1, <1>4 DEF Executed, Del
<1>5. QED
  BY <1>2, <1>3, <1>4

\* A step of one call leaves what the others await and what they are.
LEMMA OthersStay ==
    ASSUME TypeOK, NEW c \in Calls, Open(c), NEW phase,
           calls' = [calls EXCEPT ![c].phase = phase]
    PROVE  /\ \A d \in Calls :
                 /\ calls'[d].ip = calls[d].ip
                 /\ calls'[d].kind = calls[d].kind
                 /\ calls'[d].alone = calls[d].alone
                 /\ calls'[d].phase = IF d = c THEN phase ELSE calls[d].phase
                 /\ d # c => calls'[d] = calls[d]
           /\ \A d \in Calls, i \in IPs : At(d, i)' => At(d, i)
           /\ \A d \in Calls \ {c}, i \in IPs : At(d, i) => At(d, i)'
<1>1. \A d \in Calls :
        /\ calls'[d].ip = calls[d].ip
        /\ calls'[d].kind = calls[d].kind
        /\ calls'[d].alone = calls[d].alone
        /\ calls'[d].phase = IF d = c THEN phase ELSE calls[d].phase
        /\ d # c => calls'[d] = calls[d]
  BY DEF TypeOK, Call
<1>2. QED
  BY <1>1 DEF At, Open

\* Two calls under way for a client, neither of them known to have crossed another:
\* they are of a kind, and neither is alone.
LEMMA TwoAtOnce ==
    ASSUME NEW ip \in IPs, ClientInv(ip), NEW c \in Calls, NEW d \in Calls, c # d, At(c, ip), At(d, ip)
    PROVE  /\ ~calls[c].alone /\ ~calls[d].alone
           /\ ~Crossed(ip) => calls[c].kind = calls[d].kind
           /\ Undisturbed(d, ip) => Undisturbed(c, ip) /\ ~Overstated(ip) /\ ~Crossed(ip)
<1>1. ~calls[c].alone /\ ~calls[d].alone
  BY DEF ClientInv, AloneIsAlone
<1>2. ~Crossed(ip) => calls[c].kind = calls[d].kind
  BY DEF ClientInv, OneKind
<1>3. Undisturbed(d, ip) => Undisturbed(c, ip) /\ ~Overstated(ip) /\ ~Crossed(ip)
  BY <1>1, TheCauses DEF Undisturbed
<1>4. QED
  BY <1>1, <1>2, <1>3

LEMMA AnswerKeepsInv ==
    ASSUME MirrorInv, TypeOK', NEW c \in Calls, RedisAnswers(c)
    PROVE  MirrorInv'
<1>0. PICK ip \in IPs : ip = calls[c].ip
  BY Basics DEF MirrorInv
<1> DEFINE h  == hash[ip]
           hh == hash'[ip]
<1>1. /\ TypeOK /\ ip = calls[c].ip /\ ClientInv(ip)
      /\ now \in Nat /\ BanDuration \in Nat \ {0}
      /\ h \in Hash /\ hh \in Hash
      /\ calls[c].kind \in Kinds
  <2>1. TypeOK /\ hh \in Hash
    BY DEF MirrorInv, TypeOK, Hash
  <2>2. QED
    BY <1>0, <2>1, Basics DEF MirrorInv
<1>2. /\ rows' = rows /\ now' = now /\ connected' = connected /\ apart' = apart
      /\ hash' = Executed(c) /\ calls[c].phase \in {"hset", "expire", "del"}
  BY DEF RedisAnswers
<1>3. Open(c) /\ At(c, ip)
  BY <1>1, <1>2 DEF Open, At
<1>4. /\ \A d \in Calls :
             /\ calls'[d].ip = calls[d].ip
             /\ calls'[d].kind = calls[d].kind
             /\ calls'[d].alone = calls[d].alone
             /\ calls'[d].phase = IF d = c THEN NextPhase(calls[c]) ELSE calls[d].phase
             /\ d # c => calls'[d] = calls[d]
      /\ \A d \in Calls, i \in IPs : At(d, i)' => At(d, i)
      /\ \A d \in Calls \ {c}, i \in IPs : At(d, i) => At(d, i)'
  <2>1. calls' = [calls EXCEPT ![c].phase = NextPhase(calls[c])]
    BY DEF RedisAnswers
  <2>2. QED
    BY <1>1, <1>3, <2>1, OthersStay
<1>5. /\ \A i \in IPs : i # ip => hash'[i] = hash[i]
      /\ calls[c].phase = "hset" =>
            /\ hh.present
            /\ hh.permanent <=> calls[c].kind = "permanent"
            /\ hh.ttl = h.ttl \/ hh.ttl = NoTTL
      /\ calls[c].phase = "expire" =>
            /\ hh.present <=> h.present
            /\ hh.permanent <=> h.permanent
            /\ \/ ~Visible(h, now) /\ hh = h
               \/ Visible(h, now) /\ hh.ttl = now + BanDuration
      /\ calls[c].phase = "del" => hh = NoHash
  BY <1>1, <1>2, WhatACommandDoes
<1>6. /\ calls[c].phase = "hset" => calls[c].kind # "unban"
      /\ calls[c].phase = "expire" => calls[c].kind = "ban"
      /\ calls[c].phase = "del" => calls[c].kind = "unban"
      /\ connected
  BY <1>2 DEF MirrorInv, PhaseFitsKind
<1>7. /\ calls[c].phase = "hset" /\ calls[c].kind = "ban" => calls'[c].phase = "expire"
      /\ calls[c].phase # "hset" \/ calls[c].kind # "ban" => calls'[c].phase = "table"
      /\ At(c, ip)'
  BY <1>3, <1>4 DEF NextPhase, At, Open
<1>8. /\ Overstated(ip)' <=> Overstated(ip)
      /\ Understated(ip)' <=> Understated(ip)
      /\ Crossed(ip)' <=> Crossed(ip)
  BY <1>2 DEF Overstated, Understated, Crossed
<1>9. PhaseFitsKind'
  BY <1>2, <1>4, <1>6, <1>7 DEF MirrorInv, PhaseFitsKind
<1>10. ASSUME NEW i \in IPs, i # ip
       PROVE  ClientInv(i)'
  <2>1. \A d \in Calls : At(d, i) \/ At(d, i)' => calls'[d] = calls[d]
    BY <1>1, <1>4, <1>10 DEF At
  <2>2. QED
    BY <1>2, <1>5, <1>10, <2>1, Untouched
<1>11. GoneIsGone(ip)'
  BY <1>1, <1>2 DEF ClientInv, GoneIsGone
<1>12. AloneIsAlone(ip)'
  BY <1>1, <1>4 DEF ClientInv, AloneIsAlone
<1>13. OneKind(ip)'
  BY <1>1, <1>4, <1>8 DEF ClientInv, OneKind
<1>14. TTLIsBounded(ip)'
  BY <1>1, <1>2, <1>5 DEF ClientInv, TTLIsBounded, NoHash, NoTTL, Hash
<1>15. HashIsTheirs(ip)'
  <2> SUFFICES ASSUME NEW d \in Calls, At(d, ip)', Undisturbed(d, ip)'
               PROVE  HashFits(d, ip)'
    BY DEF HashIsTheirs
  <2>1. At(d, ip) /\ Undisturbed(d, ip)
    BY <1>2, <1>4, <1>8 DEF Undisturbed
  <2>2. HashFits(d, ip)
    BY <1>1, <2>1 DEF ClientInv, HashIsTheirs
  <2>3. CASE d = c
    <3>1. calls[c].phase = "expire" => ~h.permanent
      BY <2>2, <2>3 DEF HashFits
    <3>2. QED
      BY <1>1, <1>2, <1>4, <1>5, <1>6, <1>7, <2>3, <3>1
         DEF HashFits, Visible, NoHash, NoTTL, Kinds
  <2>4. CASE d # c /\ calls[d].phase \in {"expire", "table"}
    <3>1. calls[c].kind = calls[d].kind /\ Undisturbed(c, ip)
      BY <1>1, <1>3, <2>1, <2>4, TwoAtOnce
    <3>2. calls[c].phase = "expire" => ~h.permanent
      BY <1>1, <1>3, <3>1 DEF ClientInv, HashIsTheirs, HashFits
    <3>3. calls[c].phase = "hset" /\ calls[c].kind = "ban" => Awaited(ip)'
      BY <1>1, <1>4, <1>7 DEF Awaited
    <3>4. calls[d].phase = "expire" => calls[d].kind = "ban"
      BY DEF MirrorInv, PhaseFitsKind
    <3>5. QED
      BY <1>1, <1>2, <1>4, <1>5, <1>6, <2>4, <3>1, <3>2, <3>3, <3>4
         DEF HashFits, Visible, NoHash, NoTTL, Kinds
  <2>5. CASE d # c /\ calls[d].phase \notin {"expire", "table"}
    BY <1>4, <2>5 DEF HashFits
  <2>6. QED
    BY <2>3, <2>4, <2>5
<1>16. HashIsThere(ip)'
  <2> SUFFICES ASSUME NEW d \in Calls, At(d, ip)', Told(d)', calls'[d].alone \/ ~Crossed(ip)'
               PROVE  hh.present
    BY DEF HashIsThere
  <2>1. At(d, ip) /\ (calls[d].alone \/ ~Crossed(ip))
    BY <1>4, <1>8
  <2>2. CASE d = c
    <3>1. calls[c].kind # "unban"
      BY <1>4, <2>2 DEF Told
    <3>2. calls[c].phase = "expire" => h.present
      BY <1>1, <1>3, <1>6, <2>1, <2>2, <3>1 DEF ClientInv, HashIsThere, Told
    <3>3. QED
      BY <1>2, <1>5, <1>6, <3>1, <3>2
  <2>3. CASE d # c
    <3>1. Told(d)
      BY <1>2, <1>4, <2>3 DEF Told
    <3>2. h.present
      BY <1>1, <2>1, <3>1 DEF ClientInv, HashIsThere
    <3>3. calls[c].kind = calls[d].kind
      BY <1>1, <1>3, <2>1, <2>3, TwoAtOnce
    <3>4. QED
      BY <1>2, <1>5, <1>6, <3>1, <3>2, <3>3 DEF Told
  <2>4. QED
    BY <2>2, <2>3
<1>17. Fades(ip)'
  <2>1. CASE calls[c].phase = "hset"
    <3>1. calls[c].kind = "ban" => Awaited(ip)'
      BY <1>1, <1>4, <1>7, <2>1 DEF Awaited
    <3>2. QED
      BY <1>1, <1>5, <1>6, <2>1, <3>1 DEF Fades, Kinds
  <2>2. CASE calls[c].phase = "expire"
    <3>1. ~Visible(hh, now) \/ hh.ttl # NoTTL
      BY <1>1, <1>5, <2>2 DEF NoTTL
    <3>2. QED
      BY <1>2, <3>1 DEF Fades
  <2>3. CASE calls[c].phase = "del"
    <3>1. ~Visible(hh, now)
      BY <1>5, <2>3 DEF Visible, NoHash
    <3>2. QED
      BY <1>2, <3>1 DEF Fades
  <2>4. QED
    BY <1>2, <2>1, <2>2, <2>3
<1>18. ShownIsCovered(ip)'
  <2>1. calls'[c].phase \in {"expire", "table"}
    BY <1>7
  <2>2. Coming(ip)'
    BY <1>1, <1>2, <1>4, <1>6, <2>1 DEF Coming
  <2>3. QED
    BY <2>2 DEF ShownIsCovered
<1>19. BannedIsThere(ip)'
  <2>1. CASE calls[c].phase = "del"
    BY <1>1, <1>4, <1>6, <1>7, <2>1 DEF BannedIsThere, Erasing
  <2>2. CASE calls[c].phase = "hset"
    BY <1>5, <2>2 DEF BannedIsThere
  <2>3. CASE calls[c].phase = "expire"
    <3>1. Erasing(ip) => Erasing(ip)'
      BY <1>4, <2>3 DEF Erasing
    <3>2. QED
      BY <1>1, <1>2, <1>5, <1>8, <2>3, <3>1 DEF ClientInv, BannedIsThere
  <2>4. QED
    BY <1>2, <2>1, <2>2, <2>3
<1>20. ClientInv(ip)'
  BY <1>11, <1>12, <1>13, <1>14, <1>15, <1>16, <1>17, <1>18, <1>19 DEF ClientInv
<1>21. QED
  BY <1>9, <1>10, <1>20 DEF MirrorInv

-----------------------------------------------------------------------------
(* A call ends: it fails half way, or it reaches the table. *)

\* What the end of a call leaves, for its client and for the others.
LEMMA CallEnds ==
    ASSUME MirrorInv, NEW ip \in IPs, NEW c \in Calls, Open(c), calls[c].ip = ip,
           calls' = [calls EXCEPT ![c].phase = "done"],
           now' = now, connected' = connected,
           \A i \in IPs : i # ip => hash'[i] = hash[i] /\ rows'[i] = rows[i] /\ apart'[i] = apart[i]
    PROVE  /\ \A d \in Calls :
                 /\ calls'[d].ip = calls[d].ip
                 /\ calls'[d].kind = calls[d].kind
                 /\ calls'[d].alone = calls[d].alone
                 /\ calls'[d].phase = IF d = c THEN "done" ELSE calls[d].phase
           /\ \A d \in Calls : At(d, ip)' => At(d, ip) /\ d # c
           /\ PhaseFitsKind'
           /\ AloneIsAlone(ip)'
           /\ \A i \in IPs : i # ip => ClientInv(i)'
<1>1. TypeOK /\ ClientInv(ip)
  BY DEF MirrorInv
<1>2. /\ \A d \in Calls :
             /\ calls'[d].ip = calls[d].ip
             /\ calls'[d].kind = calls[d].kind
             /\ calls'[d].alone = calls[d].alone
             /\ calls'[d].phase = IF d = c THEN "done" ELSE calls[d].phase
             /\ d # c => calls'[d] = calls[d]
      /\ \A d \in Calls, i \in IPs : At(d, i)' => At(d, i)
  BY <1>1, OthersStay
<1>3. \A d \in Calls : At(d, ip)' => At(d, ip) /\ d # c
  BY <1>2 DEF At, Open
<1>4. PhaseFitsKind'
  BY <1>2 DEF MirrorInv, PhaseFitsKind
<1>5. AloneIsAlone(ip)'
  BY <1>1, <1>2, <1>3 DEF ClientInv, AloneIsAlone
<1>6. ASSUME NEW i \in IPs, i # ip
      PROVE  ClientInv(i)'
  <2>1. \A d \in Calls : At(d, i) \/ At(d, i)' => calls'[d] = calls[d]
    BY <1>2, <1>6 DEF At
  <2>2. QED
    BY <1>6, <2>1, Untouched
<1>7. QED
  BY <1>2, <1>3, <1>4, <1>5, <1>6

LEMMA FailureKeepsInv ==
    ASSUME MirrorInv, TypeOK', NEW c \in Calls, RedisRaises(c) \/ TableRaises(c)
    PROVE  MirrorInv'
<1>0. PICK ip \in IPs : ip = calls[c].ip
  BY Basics DEF MirrorInv
<1> DEFINE h  == hash[ip]
           hh == hash'[ip]
<1>1. /\ TypeOK /\ ip = calls[c].ip /\ ClientInv(ip)
      /\ now \in Nat /\ BanDuration \in Nat \ {0}
      /\ h \in Hash /\ calls[c].kind \in Kinds
      /\ apart \in [IPs -> SUBSET AllCauses]
  BY <1>0, Basics DEF MirrorInv
<1>2. /\ rows' = rows /\ now' = now /\ connected' = connected
      /\ Open(c) /\ At(c, ip)
      /\ calls' = [calls EXCEPT ![c].phase = "done"]
      /\ apart'[ip] = apart[ip] \cup {Failure(calls[c])}
  BY <1>1 DEF RedisRaises, TableRaises, Open, At
<1>3. \A i \in IPs : i # ip =>
          hash'[i] = hash[i] /\ rows'[i] = rows[i] /\ apart'[i] = apart[i]
  <2>1. CASE RedisRaises(c)
    BY <1>1, <1>2, <2>1, WhatACommandDoes DEF RedisRaises
  <2>2. CASE TableRaises(c)
    BY <1>1, <1>2, <2>2 DEF TableRaises
  <2>3. QED
    BY <2>1, <2>2
\* The command is executed or not; a statement does not touch the hash.
<1>4. \/ hh = h
      \/ /\ calls[c].phase = "hset" /\ calls[c].kind # "unban"
         /\ hh.present /\ (hh.ttl = h.ttl \/ hh.ttl = NoTTL)
      \/ /\ calls[c].phase = "expire" /\ calls[c].kind = "ban"
         /\ hh.present <=> h.present
         /\ hh.ttl = h.ttl \/ hh.ttl = now + BanDuration
      \/ /\ calls[c].phase = "del" /\ calls[c].kind = "unban"
         /\ hh = NoHash
  <2>1. CASE RedisRaises(c)
    <3>1. (hash' = hash \/ hash' = Executed(c)) /\ calls[c].phase \in {"hset", "expire", "del"}
      BY <2>1 DEF RedisRaises
    <3>2. /\ calls[c].phase = "hset" => calls[c].kind # "unban"
          /\ calls[c].phase = "expire" => calls[c].kind = "ban"
          /\ calls[c].phase = "del" => calls[c].kind = "unban"
      BY DEF MirrorInv, PhaseFitsKind
    <3>3. CASE hash' = Executed(c)
      BY <1>1, <3>1, <3>2, <3>3, WhatACommandDoes
    <3>4. QED
      BY <3>1, <3>3
  <2>2. CASE TableRaises(c)
    BY <2>2 DEF TableRaises
  <2>3. QED
    BY <2>1, <2>2
<1>5. /\ \A d \in Calls :
             /\ calls'[d].ip = calls[d].ip
             /\ calls'[d].kind = calls[d].kind
             /\ calls'[d].alone = calls[d].alone
             /\ calls'[d].phase = IF d = c THEN "done" ELSE calls[d].phase
      /\ \A d \in Calls : At(d, ip)' => At(d, ip) /\ d # c
      /\ PhaseFitsKind' /\ AloneIsAlone(ip)'
      /\ \A i \in IPs : i # ip => ClientInv(i)'
  <2>1. /\ Open(c) /\ calls[c].ip = ip
        /\ calls' = [calls EXCEPT ![c].phase = "done"]
        /\ now' = now /\ connected' = connected
    BY <1>1, <1>2
  <2>2. QED
    BY <1>3, <2>1, CallEnds
<1>6. /\ calls[c].kind = "unban" => Understated(ip)'
      /\ calls[c].kind # "unban" => Overstated(ip)' /\ "ban failed" \in apart'[ip]
  BY <1>2, TheCauses DEF Failure, Understated, Overstated
<1>7. /\ Overstated(ip) => Overstated(ip)'
      /\ Understated(ip) => Understated(ip)'
      /\ Crossed(ip) => Crossed(ip)'
      /\ "ban failed" \in apart[ip] => "ban failed" \in apart'[ip]
  BY <1>2, CausesGrow
<1>8. GoneIsGone(ip)'
  BY <1>1, <1>2 DEF ClientInv, GoneIsGone
<1>9. OneKind(ip)'
  <2> SUFFICES ASSUME NEW d \in Calls, NEW e \in Calls, At(d, ip)', At(e, ip)', ~Crossed(ip)'
               PROVE  calls'[d].kind = calls'[e].kind
    BY DEF OneKind
  <2>1. At(d, ip) /\ At(e, ip) /\ ~Crossed(ip)
    BY <1>5, <1>7
  <2>2. calls[d].kind = calls[e].kind
    BY <1>1, <2>1 DEF ClientInv, OneKind
  <2>3. QED
    BY <1>5, <2>2
<1>10. TTLIsBounded(ip)'
  BY <1>1, <1>2, <1>4 DEF ClientInv, TTLIsBounded, NoHash, NoTTL, Hash
<1>11. HashIsTheirs(ip)'
  <2> SUFFICES ASSUME NEW d \in Calls, At(d, ip)', Undisturbed(d, ip)'
               PROVE  HashFits(d, ip)'
    BY DEF HashIsTheirs
  <2>1. At(d, ip) /\ d # c
    BY <1>5
  <2>2. ~calls[d].alone
    BY <1>1, <1>2, <2>1, TwoAtOnce
  <2>3. calls[c].kind = "unban" /\ Undisturbed(d, ip)
    BY <1>2, <1>5, <1>6, <1>7, <2>2 DEF Undisturbed
  <2>4. calls[d].kind = "unban" /\ HashFits(d, ip)
    BY <1>1, <1>2, <2>1, <2>3, TwoAtOnce DEF ClientInv, HashIsTheirs
  <2>5. calls[d].phase # "expire"
    BY <2>4 DEF MirrorInv, PhaseFitsKind
  <2>6. calls[d].phase = "table" => ~hh.present
    BY <1>4, <2>3, <2>4 DEF HashFits, NoHash
  <2>7. QED
    BY <1>5, <2>1, <2>4, <2>5, <2>6 DEF HashFits
<1>12. HashIsThere(ip)'
  <2> SUFFICES ASSUME NEW d \in Calls, At(d, ip)', Told(d)', calls'[d].alone \/ ~Crossed(ip)'
               PROVE  hh.present
    BY DEF HashIsThere
  <2>1. At(d, ip) /\ d # c /\ Told(d) /\ (calls[d].alone \/ ~Crossed(ip))
    BY <1>2, <1>5, <1>7 DEF Told
  <2>2. calls[c].kind = calls[d].kind
    BY <1>1, <1>2, <2>1, TwoAtOnce
  <2>3. h.present
    BY <1>1, <2>1 DEF ClientInv, HashIsThere
  <2>4. QED
    BY <1>4, <2>1, <2>2, <2>3 DEF Told
<1>13. Fades(ip)'
  <2>1. CASE calls[c].kind # "unban"
    BY <1>6, <2>1 DEF Fades
  <2>2. CASE calls[c].kind = "unban"
    <3>1. hh = h \/ ~Visible(hh, now)
      BY <1>4, <2>2 DEF Visible, NoHash
    <3>2. Awaited(ip) => Awaited(ip)'
      <4>1. calls[c].phase # "expire"
        BY <2>2 DEF MirrorInv, PhaseFitsKind
      <4>2. QED
        BY <1>5, <4>1 DEF Awaited
    <3>3. QED
      BY <1>1, <1>2, <1>7, <3>1, <3>2 DEF ClientInv, Fades
  <2>3. QED
    BY <2>1, <2>2
<1>14. ShownIsCovered(ip)'
  <2> SUFFICES ASSUME ~Overstated(ip)', Visible(hh, now)
               PROVE  Covered(hh, rows[ip]) \/ Coming(ip)'
    BY <1>2 DEF ShownIsCovered
  <2>1. calls[c].kind = "unban" /\ ~Overstated(ip)
    BY <1>6, <1>7
  <2>2. hh = h
    BY <1>4, <2>1 DEF Visible, NoHash
  <2>3. Covered(h, rows[ip]) \/ Coming(ip)
    BY <1>1, <2>1, <2>2 DEF ClientInv, ShownIsCovered
  <2>4. ASSUME NEW d \in Calls, connected, calls[d].ip = ip, calls[d].phase \in {"expire", "table"}
        PROVE  d # c
    <3>1. Undisturbed(c, ip) => HashFits(c, ip)
      BY <1>1, <1>2 DEF ClientInv, HashIsTheirs
    <3>2. CASE d = c
      <4>1. calls[c].phase = "table"
        BY <2>1, <2>4, <3>2 DEF MirrorInv, PhaseFitsKind
      <4>2. ~h.present
        BY <2>1, <2>4, <3>1, <4>1 DEF HashFits, Undisturbed
      <4>3. QED
        BY <2>2, <4>2 DEF Visible
    <3>3. QED
      BY <3>2
  <2>5. Coming(ip) => Coming(ip)'
    BY <1>2, <1>5, <2>4 DEF Coming
  <2>6. QED
    BY <2>2, <2>3, <2>5
<1>15. BannedIsThere(ip)'
  <2> SUFFICES ASSUME ~Understated(ip)', IsBlocked(rows[ip], now)
               PROVE  hh.present \/ Erasing(ip)'
    BY <1>2 DEF BannedIsThere
  <2>1. calls[c].kind # "unban" /\ ~Understated(ip)
    BY <1>6, <1>7
  <2>2. h.present \/ Erasing(ip)
    BY <1>1, <2>1 DEF ClientInv, BannedIsThere
  <2>3. Erasing(ip) => Erasing(ip)'
    BY <1>5, <2>1 DEF Erasing
  <2>4. QED
    BY <1>4, <2>1, <2>2, <2>3
<1>16. ClientInv(ip)'
  BY <1>5, <1>8, <1>9, <1>10, <1>11, <1>12, <1>13, <1>14, <1>15 DEF ClientInv
<1>17. QED
  BY <1>5, <1>16 DEF MirrorInv

LEMMA WriteKeepsInv ==
    ASSUME MirrorInv, TypeOK', NEW c \in Calls, TableWritten(c)
    PROVE  MirrorInv'
<1>0. PICK ip \in IPs : ip = calls[c].ip
  BY Basics DEF MirrorInv
<1> DEFINE h == hash[ip]
<1>1. /\ TypeOK /\ ip = calls[c].ip /\ ClientInv(ip)
      /\ now \in Nat /\ BanDuration \in Nat \ {0}
      /\ h \in Hash /\ calls[c].kind \in Kinds
      /\ rows \in [IPs -> Row] /\ rows[ip] \in Row
      /\ apart \in [IPs -> SUBSET AllCauses]
  BY <1>0, Basics DEF MirrorInv
<1>2. /\ hash' = hash /\ now' = now /\ connected' = connected
      /\ Open(c) /\ At(c, ip) /\ calls[c].phase = "table"
      /\ calls' = [calls EXCEPT ![c].phase = "done"]
      /\ apart' = Settled(c)
  BY <1>1 DEF TableWritten, Open, At
<1>3. \A i \in IPs : i # ip =>
          hash'[i] = hash[i] /\ rows'[i] = rows[i] /\ apart'[i] = apart[i]
  BY <1>1, <1>2 DEF TableWritten, Settled
\* What the call leaves in the table.
<1>4. /\ calls[c].kind = "unban" => rows'[ip] = NoRow
      /\ calls[c].kind = "ban" =>
            rows'[ip].present /\ ~rows'[ip].permanent /\ rows'[ip].expires = now + BanDuration
      /\ calls[c].kind = "permanent" => rows'[ip].present /\ rows'[ip].permanent
  <2>1. CASE calls[c].kind = "unban"
    BY <1>1, <2>1 DEF TableWritten
  <2>2. CASE calls[c].kind # "unban"
    <3>1. PICK permanent \in BOOLEAN : permanent = (calls[c].kind = "permanent")
      OBVIOUS
    <3>2. rows' = [rows EXCEPT ![calls[c].ip] =
                      Banned(@, calls[c].kind = "permanent", now + BanDuration)]
      BY <2>2 DEF TableWritten
    <3>3. rows' = [rows EXCEPT ![calls[c].ip] = Banned(@, permanent, now + BanDuration)]
      BY <3>1, <3>2, Zenon
    <3>4. rows'[ip] = Banned(rows[ip], permanent, now + BanDuration)
      BY <1>1, <3>3
    <3>5. rows'[ip].present /\ rows'[ip].permanent = permanent
          /\ (~permanent => rows'[ip].expires = now + BanDuration)
      BY <1>1, <3>4 DEF Banned, Row
    <3>6. QED
      BY <2>2, <3>1, <3>5
  <2>3. QED
    BY <2>1, <2>2
<1>5. /\ \A d \in Calls :
             /\ calls'[d].ip = calls[d].ip
             /\ calls'[d].kind = calls[d].kind
             /\ calls'[d].alone = calls[d].alone
             /\ calls'[d].phase = IF d = c THEN "done" ELSE calls[d].phase
      /\ \A d \in Calls : At(d, ip)' => At(d, ip) /\ d # c
      /\ PhaseFitsKind' /\ AloneIsAlone(ip)'
      /\ \A i \in IPs : i # ip => ClientInv(i)'
  <2>1. /\ Open(c) /\ calls[c].ip = ip
        /\ calls' = [calls EXCEPT ![c].phase = "done"]
        /\ now' = now /\ connected' = connected
    BY <1>1, <1>2
  <2>2. QED
    BY <1>3, <2>1, CallEnds
\* What is remembered of its client.
<1>6. /\ ~connected => apart'[ip] = apart[ip] \cup {"unseen"}
      /\ connected /\ calls[c].alone => apart'[ip] = {}
      /\ connected /\ ~calls[c].alone => apart'[ip] = apart[ip]
  BY <1>1, <1>2 DEF Settled
<1>7. /\ ~connected => Overstated(ip)' /\ Understated(ip)'
      /\ ~Overstated(ip)' => Undisturbed(c, ip)
      /\ ~Understated(ip)' => connected /\ (calls[c].alone \/ ~Crossed(ip))
      /\ ~calls[c].alone => apart[ip] \subseteq apart'[ip]
  BY <1>1, <1>6, TheCauses DEF Overstated, Understated, Undisturbed
<1>8. Undisturbed(c, ip) => HashFits(c, ip)
  BY <1>1, <1>2 DEF ClientInv, HashIsTheirs
\* Who else is under way keeps what it had.
<1>9. ASSUME NEW d \in Calls, At(d, ip)'
      PROVE  /\ At(d, ip) /\ d # c /\ ~calls[d].alone /\ ~calls[c].alone
             /\ Overstated(ip) => Overstated(ip)'
             /\ Crossed(ip) => Crossed(ip)'
  <2>1. At(d, ip) /\ d # c
    BY <1>5, <1>9
  <2>2. ~calls[d].alone /\ ~calls[c].alone
    BY <1>1, <1>2, <2>1, TwoAtOnce
  <2>3. QED
    BY <1>7, <2>1, <2>2, CausesGrow
<1>10. Awaited(ip) => Awaited(ip)'
  BY <1>2, <1>5 DEF Awaited
<1>11. GoneIsGone(ip)'
  BY <1>1, <1>4 DEF GoneIsGone, Kinds
<1>12. OneKind(ip)'
  BY <1>1, <1>5, <1>9 DEF ClientInv, OneKind
<1>13. TTLIsBounded(ip)'
  BY <1>1, <1>2 DEF ClientInv, TTLIsBounded
<1>14. HashIsTheirs(ip)'
  <2> SUFFICES ASSUME NEW d \in Calls, At(d, ip)', Undisturbed(d, ip)'
               PROVE  HashFits(d, ip)'
    BY DEF HashIsTheirs
  <2>1. At(d, ip) /\ d # c /\ Undisturbed(d, ip)
    BY <1>2, <1>5, <1>9 DEF Undisturbed
  <2>2. HashFits(d, ip)
    BY <1>1, <2>1 DEF ClientInv, HashIsTheirs
  <2>3. QED
    BY <1>2, <1>5, <1>10, <2>1, <2>2 DEF HashFits
<1>15. HashIsThere(ip)'
  <2> SUFFICES ASSUME NEW d \in Calls, At(d, ip)', Told(d)', calls'[d].alone \/ ~Crossed(ip)'
               PROVE  h.present
    BY <1>2 DEF HashIsThere
  <2>1. At(d, ip) /\ d # c /\ Told(d) /\ ~Crossed(ip)
    BY <1>2, <1>5, <1>9 DEF Told
  <2>2. QED
    BY <1>1, <2>1 DEF ClientInv, HashIsThere
<1>16. Fades(ip)'
  <2> SUFFICES ASSUME Visible(h, now), ~h.permanent
               PROVE  h.ttl # NoTTL \/ Awaited(ip)' \/ "ban failed" \in apart'[ip]
    BY <1>2 DEF Fades
  <2>1. CASE Undisturbed(c, ip)
    BY <1>1, <1>2, <1>8, <1>10, <2>1 DEF HashFits, Kinds, Visible
  <2>2. CASE ~Undisturbed(c, ip)
    <3>1. apart[ip] \subseteq apart'[ip]
      BY <1>6, <2>2 DEF Undisturbed
    <3>2. QED
      BY <1>1, <1>10, <3>1 DEF ClientInv, Fades
  <2>3. QED
    BY <2>1, <2>2
<1>17. ShownIsCovered(ip)'
  <2> SUFFICES ASSUME ~Overstated(ip)', Visible(h, now)
               PROVE  Covered(h, rows'[ip]) \/ Coming(ip)'
    BY <1>2 DEF ShownIsCovered
  <2>1. connected /\ HashFits(c, ip)
    BY <1>7, <1>8
  <2>2. calls[c].kind # "unban"
    BY <1>2, <2>1 DEF HashFits, Visible
  <2>3. CASE calls[c].kind = "permanent"
    BY <1>4, <2>3 DEF Covered
  <2>4. CASE calls[c].kind = "ban" /\ Awaited(ip)
    BY <1>2, <1>10, <2>1, <2>4 DEF Awaited, Coming
  <2>5. CASE calls[c].kind = "ban" /\ ~Awaited(ip)
    <3>1. ~h.permanent /\ h.ttl # NoTTL
      BY <1>2, <2>1, <2>5 DEF HashFits
    <3>2. h.ttl <= now + BanDuration
      BY <1>1 DEF ClientInv, TTLIsBounded
    <3>3. QED
      BY <1>4, <2>5, <3>1, <3>2 DEF Covered
  <2>6. QED
    BY <1>1, <2>2, <2>3, <2>4, <2>5 DEF Kinds
<1>18. BannedIsThere(ip)'
  <2> SUFFICES ASSUME ~Understated(ip)', IsBlocked(rows'[ip], now)
               PROVE  h.present
    BY <1>2 DEF BannedIsThere
  <2>1. calls[c].kind # "unban"
    BY <1>4 DEF IsBlocked, NoRow
  <2>2. QED
    BY <1>1, <1>2, <1>7, <2>1 DEF ClientInv, HashIsThere, Told
<1>19. ClientInv(ip)'
  BY <1>5, <1>11, <1>12, <1>13, <1>14, <1>15, <1>16, <1>17, <1>18 DEF ClientInv
<1>20. QED
  BY <1>5, <1>19 DEF MirrorInv

-----------------------------------------------------------------------------
(* What happens outside the calls. *)

\* The calls and the hash stay as they are, and nothing is forgotten of what set the
\* copies apart.
LEMMA OutsideKeepsCalls ==
    ASSUME MirrorInv, UNCHANGED <<now, connected, hash, calls>>,
           NEW i \in IPs, apart[i] \subseteq apart'[i]
    PROVE  /\ PhaseFitsKind'
           /\ AloneIsAlone(i)' /\ OneKind(i)' /\ TTLIsBounded(i)'
           /\ HashIsTheirs(i)' /\ HashIsThere(i)' /\ Fades(i)'
           /\ Overstated(i) => Overstated(i)'
           /\ Understated(i) => Understated(i)'
<1>1. ClientInv(i) /\ \A d \in Calls : At(d, i)' <=> At(d, i)
  BY DEF MirrorInv, At, Open
<1>2. /\ Overstated(i) => Overstated(i)'
      /\ Understated(i) => Understated(i)'
      /\ Crossed(i) => Crossed(i)'
      /\ "ban failed" \in apart[i] => "ban failed" \in apart'[i]
  BY CausesGrow
<1>3. Awaited(i)' <=> Awaited(i)
  BY DEF Awaited
<1>4. PhaseFitsKind'
  BY DEF MirrorInv, PhaseFitsKind
<1>5. AloneIsAlone(i)' /\ TTLIsBounded(i)'
  BY <1>1 DEF ClientInv, AloneIsAlone, TTLIsBounded
<1>6. OneKind(i)'
  BY <1>1, <1>2 DEF ClientInv, OneKind
<1>7. HashIsTheirs(i)'
  BY <1>1, <1>2, <1>3 DEF ClientInv, HashIsTheirs, HashFits, Undisturbed
<1>8. HashIsThere(i)'
  BY <1>1, <1>2 DEF ClientInv, HashIsThere, Told
<1>9. Fades(i)'
  BY <1>1, <1>2, <1>3 DEF ClientInv, Fades
<1>10. QED
  BY <1>2, <1>4, <1>5, <1>6, <1>7, <1>8, <1>9

LEMMA PenaliseKeepsInv ==
    ASSUME MirrorInv, TypeOK', NEW ip \in IPs, Penalise(ip)
    PROVE  MirrorInv'
<1> DEFINE row   == Violated(rows[ip])
           until == now + AutoDuration
<1>1. /\ TypeOK /\ ClientInv(ip)
      /\ now \in Nat /\ AutoDuration \in Nat
      /\ rows \in [IPs -> Row] /\ rows[ip] \in Row /\ row \in Row /\ hash[ip] \in Hash
      /\ apart \in [IPs -> SUBSET AllCauses]
  BY Basics, RowOperators DEF MirrorInv
<1>2. /\ UNCHANGED <<now, connected, hash, calls>>
      /\ \A i \in IPs : i # ip => rows'[i] = rows[i] /\ apart'[i] = apart[i]
      /\ apart[ip] \subseteq apart'[ip]
  BY <1>1 DEF Penalise
<1>3. \A i \in IPs : i # ip => ClientInv(i)'
  BY <1>2, Untouched DEF At, Open
<1>4. \/ /\ rows'[ip] = row
         /\ apart'[ip] = apart[ip]
      \/ /\ rows'[ip] = Banned(row, FALSE, until)
         /\ Understated(ip)'
         /\ ~Overstated(ip)' => ~Outlasts(row, until)
  <2>1. CASE ~(row.count >= AutoThreshold)
    BY <1>1, <2>1 DEF Penalise
  <2>2. CASE row.count >= AutoThreshold
    <3>1. rows'[ip] = Banned(row, FALSE, until)
      BY <1>1, <2>2 DEF Penalise
    <3>2. /\ "penalty" \in apart'[ip]
          /\ Outlasts(row, until) => "shortened" \in apart'[ip]
      BY <1>1, <2>2 DEF Penalise
    <3>3. QED
      BY <3>1, <3>2, TheCauses DEF Understated, Overstated
  <2>3. QED
    BY <2>1, <2>2
<1>5. /\ PhaseFitsKind'
      /\ AloneIsAlone(ip)' /\ OneKind(ip)' /\ TTLIsBounded(ip)'
      /\ HashIsTheirs(ip)' /\ HashIsThere(ip)' /\ Fades(ip)'
      /\ Overstated(ip) => Overstated(ip)'
      /\ Understated(ip) => Understated(ip)'
  BY <1>2, OutsideKeepsCalls
<1>6. (Coming(ip) => Coming(ip)') /\ (Erasing(ip) => Erasing(ip)')
  BY <1>2 DEF Coming, Erasing
\* Counting a violation changes nothing about a ban, and makes a row of none.
<1>7. /\ row.present /\ row.permanent = rows[ip].permanent /\ row.expires = rows[ip].expires
      /\ Banned(row, FALSE, until).present
      /\ Banned(row, FALSE, until).expires = until
      /\ IsBlocked(row, now) => IsBlocked(rows[ip], now)
  <2>1. /\ row.present /\ row.permanent = rows[ip].permanent /\ row.expires = rows[ip].expires
    BY <1>1 DEF Violated, Row
  <2>2. Banned(row, FALSE, until).present /\ Banned(row, FALSE, until).expires = until
    BY <1>1 DEF Banned, Row
  <2>3. IsBlocked(row, now) => IsBlocked(rows[ip], now)
    BY <1>1, <2>1 DEF ClientInv, GoneIsGone, NoRow, IsBlocked
  <2>4. QED
    BY <2>1, <2>2, <2>3
<1>8. GoneIsGone(ip)'
  BY <1>4, <1>7 DEF GoneIsGone
<1>9. ShownIsCovered(ip)'
  <2> SUFFICES ASSUME ~Overstated(ip)', Visible(hash[ip], now)
               PROVE  Covered(hash[ip], rows'[ip]) \/ Coming(ip)'
    BY <1>2 DEF ShownIsCovered
  <2>1. Covered(hash[ip], rows[ip]) \/ Coming(ip)
    BY <1>1, <1>5 DEF ClientInv, ShownIsCovered
  <2>2. CASE rows'[ip] = row
    BY <1>6, <1>7, <2>1, <2>2 DEF Covered
  <2>3. CASE rows'[ip] = Banned(row, FALSE, until) /\ ~Outlasts(row, until)
    <3>1. Covered(hash[ip], rows[ip]) =>
             ~hash[ip].permanent /\ hash[ip].ttl # NoTTL /\ hash[ip].ttl <= until
      <4> SUFFICES ASSUME Covered(hash[ip], rows[ip])
                   PROVE  ~hash[ip].permanent /\ hash[ip].ttl # NoTTL /\ hash[ip].ttl <= until
        OBVIOUS
      <4>1. ~row.permanent
        BY <1>7, <2>3 DEF Outlasts, IsBlocked
      <4>2. ~hash[ip].permanent /\ hash[ip].ttl # NoTTL /\ hash[ip].ttl <= row.expires
        BY <1>7, <4>1 DEF Covered
      <4>3. hash[ip].ttl > now /\ hash[ip].ttl \in Nat /\ row.expires \in Nat \cup {NULL}
        BY <1>1, <4>2 DEF Visible, Hash, Row
      <4>4. IsBlocked(row, now)
        BY <1>1, <1>7, <4>2, <4>3 DEF IsBlocked, NULL
      <4>5. ~(row.expires > until)
        BY <2>3, <4>4 DEF Outlasts
      <4>6. QED
        BY <1>1, <4>2, <4>3, <4>5 DEF NULL
    <3>2. Covered(hash[ip], rows[ip]) => Covered(hash[ip], rows'[ip])
      BY <1>7, <2>3, <3>1 DEF Covered
    <3>3. QED
      BY <1>6, <2>1, <3>2
  <2>4. QED
    BY <1>4, <2>2, <2>3
<1>10. BannedIsThere(ip)'
  BY <1>1, <1>2, <1>4, <1>5, <1>6, <1>7 DEF ClientInv, BannedIsThere, Understated
<1>11. ClientInv(ip)'
  BY <1>5, <1>8, <1>9, <1>10 DEF ClientInv
<1>12. QED
  BY <1>3, <1>5, <1>11 DEF MirrorInv

LEMMA LookUpKeepsInv ==
    ASSUME MirrorInv, TypeOK', NEW ip \in IPs, LookUp(ip)
    PROVE  MirrorInv'
<1>1. /\ TypeOK /\ ClientInv(ip)
      /\ rows \in [IPs -> Row] /\ rows[ip] \in Row /\ hash[ip] \in Hash /\ now \in Nat
  BY Basics DEF MirrorInv
<1>2. /\ UNCHANGED <<now, connected, hash, calls>> /\ apart' = apart
      /\ \A i \in IPs : i # ip => rows'[i] = rows[i]
      /\ Lapsed(rows[ip], now)
  BY <1>1 DEF LookUp, callVars
<1>3. rows'[ip] \in {rows[ip], NoRow}
  <2>1. AfterLookup(rows[ip], now) \subseteq {rows[ip], NoRow}
    BY DEF AfterLookup
  <2>2. rows' = rows \/ \E row \in AfterLookup(rows[ip], now) : rows' = [rows EXCEPT ![ip] = row]
    BY DEF LookUp
  <2>3. QED
    BY <1>1, <2>1, <2>2
<1>4. \A i \in IPs : i # ip => ClientInv(i)'
  BY <1>2, Untouched DEF At, Open
<1>5. /\ PhaseFitsKind'
      /\ AloneIsAlone(ip)' /\ OneKind(ip)' /\ TTLIsBounded(ip)'
      /\ HashIsTheirs(ip)' /\ HashIsThere(ip)' /\ Fades(ip)'
      /\ Overstated(ip) => Overstated(ip)'
  BY <1>2, OutsideKeepsCalls
<1>6. GoneIsGone(ip)'
  BY <1>1, <1>3 DEF ClientInv, GoneIsGone
\* A row that has lapsed refuses nobody, and the hash has faded with it.
<1>7. Visible(hash[ip], now) => ~Covered(hash[ip], rows[ip])
  BY <1>1, <1>2 DEF Lapsed, Visible, Covered, Row, Hash, NoTTL, NULL
<1>8. ShownIsCovered(ip)'
  <2>1. Coming(ip) => Coming(ip)'
    BY <1>2 DEF Coming
  <2>2. QED
    BY <1>1, <1>2, <1>5, <1>7, <2>1 DEF ClientInv, ShownIsCovered
<1>9. BannedIsThere(ip)'
  <2>1. ~IsBlocked(rows'[ip], now)
    BY <1>1, <1>2, <1>3 DEF IsBlocked, Lapsed, NoRow, Row, NULL
  <2>2. QED
    BY <1>2, <2>1 DEF BannedIsThere
<1>10. ClientInv(ip)'
  BY <1>5, <1>6, <1>8, <1>9 DEF ClientInv
<1>11. QED
  BY <1>4, <1>5, <1>10 DEF MirrorInv

\* The new process has no call under way, and what was cut off is remembered.
LEMMA RestartKeepsInv ==
    ASSUME MirrorInv, TypeOK', Restart
    PROVE  MirrorInv'
<1>1. /\ TypeOK /\ calls \in [Calls -> Call] /\ apart \in [IPs -> SUBSET AllCauses]
      /\ now' = now /\ hash' = hash /\ rows' = rows
  BY Basics DEF MirrorInv, Restart
<1>2. /\ \A c \in Calls : calls'[c].phase \in {"idle", "done"}
      /\ \A c \in Calls, i \in IPs : ~At(c, i)'
  <2>1. \A c \in Calls : calls'[c].phase \in {"idle", "done"}
    BY <1>1 DEF Restart
  <2>2. QED
    BY <2>1 DEF At, Open
<1>3. PhaseFitsKind'
  BY <1>2 DEF PhaseFitsKind
<1>4. ASSUME NEW i \in IPs
      PROVE  ClientInv(i)'
  <2>1. ClientInv(i) /\ apart[i] \subseteq apart'[i]
    BY <1>1 DEF MirrorInv, Restart
  <2>2. /\ Overstated(i) => Overstated(i)'
        /\ Understated(i) => Understated(i)'
        /\ "ban failed" \in apart[i] => "ban failed" \in apart'[i]
    BY <2>1, CausesGrow
  <2>3. ASSUME NEW c \in Calls, At(c, i)
        PROVE  /\ calls[c].kind = "unban" => Understated(i)'
               /\ calls[c].kind # "unban" => Overstated(i)' /\ "ban failed" \in apart'[i]
    <3>1. c \in UnderWay(i)
      BY <2>3 DEF UnderWay, At, Open
    <3>2. Failure(calls[c]) \in apart'[i]
      BY <1>1, <3>1 DEF Restart
    <3>3. QED
      BY <3>2, TheCauses DEF Failure, Understated, Overstated
  <2>4. AloneIsAlone(i)' /\ OneKind(i)' /\ HashIsTheirs(i)' /\ HashIsThere(i)'
    BY <1>2 DEF AloneIsAlone, OneKind, HashIsTheirs, HashIsThere
  <2>5. GoneIsGone(i)' /\ TTLIsBounded(i)'
    BY <1>1, <2>1 DEF ClientInv, GoneIsGone, TTLIsBounded
  <2>6. Fades(i)'
    <3>1. Awaited(i) => "ban failed" \in apart'[i]
      <4> SUFFICES ASSUME NEW c \in Calls, calls[c].ip = i, calls[c].phase = "expire"
                   PROVE  "ban failed" \in apart'[i]
        BY DEF Awaited
      <4>1. At(c, i) /\ calls[c].kind = "ban"
        BY DEF At, Open, MirrorInv, PhaseFitsKind
      <4>2. QED
        BY <2>3, <4>1
    <3>2. QED
      BY <1>1, <2>1, <2>2, <3>1 DEF ClientInv, Fades
  <2>7. ShownIsCovered(i)'
    <3> SUFFICES ASSUME ~Overstated(i)', Visible(hash[i], now)
                 PROVE  Covered(hash[i], rows[i])
      BY <1>1 DEF ShownIsCovered
    <3>1. ~Coming(i)
      <4> SUFFICES ASSUME NEW c \in Calls, connected, calls[c].ip = i,
                          calls[c].phase \in {"expire", "table"}
                   PROVE  FALSE
        BY DEF Coming
      <4>1. At(c, i)
        BY DEF At, Open
      <4>2. calls[c].kind = "unban"
        BY <2>3, <4>1
      <4>3. calls[c].phase = "table"
        BY <4>2 DEF MirrorInv, PhaseFitsKind
      <4>4. HashFits(c, i)
        BY <2>1, <2>2, <4>1 DEF ClientInv, HashIsTheirs, Undisturbed
      <4>5. QED
        BY <4>2, <4>3, <4>4 DEF HashFits, Visible
    <3>2. QED
      BY <2>1, <2>2, <3>1 DEF ClientInv, ShownIsCovered
  <2>8. BannedIsThere(i)'
    <3>1. Erasing(i) => Understated(i)'
      BY <2>3 DEF Erasing, At, Open
    <3>2. QED
      BY <1>1, <2>1, <2>2, <3>1 DEF ClientInv, BannedIsThere
  <2>9. QED
    BY <2>4, <2>5, <2>6, <2>7, <2>8 DEF ClientInv
<1>5. QED
  BY <1>3, <1>4 DEF MirrorInv

LEMMA TimePassesKeepsInv ==
    ASSUME MirrorInv, TypeOK', TimePasses
    PROVE  MirrorInv'
<1>1. /\ TypeOK /\ now \in Nat /\ now' = now + 1 /\ BanDuration \in Nat
      /\ hash' = hash /\ rows' = rows /\ calls' = calls /\ apart' = apart /\ connected' = connected
  BY Basics DEF MirrorInv, TimePasses, callVars
<1>2. PhaseFitsKind'
  BY <1>1 DEF MirrorInv, PhaseFitsKind
<1>3. ASSUME NEW i \in IPs
      PROVE  ClientInv(i)'
  <2>1. /\ ClientInv(i) /\ hash[i] \in Hash /\ rows[i] \in Row
        /\ \A d \in Calls : At(d, i)' <=> At(d, i)
    BY <1>1, Basics DEF MirrorInv, At, Open
  <2>2. /\ Awaited(i)' <=> Awaited(i)
        /\ Coming(i)' <=> Coming(i)
        /\ Erasing(i)' <=> Erasing(i)
        /\ Crossed(i)' <=> Crossed(i)
        /\ Overstated(i)' <=> Overstated(i)
        /\ Understated(i)' <=> Understated(i)
    BY <1>1 DEF Awaited, Coming, Erasing, Crossed, Overstated, Understated
  <2>3. /\ Visible(hash[i], now') => Visible(hash[i], now)
        /\ IsBlocked(rows[i], now') => IsBlocked(rows[i], now)
    BY <1>1, <2>1 DEF Visible, IsBlocked, Hash, Row, NoTTL, NULL
  <2>4. GoneIsGone(i)' /\ AloneIsAlone(i)' /\ OneKind(i)'
    BY <1>1, <2>1, <2>2 DEF ClientInv, GoneIsGone, AloneIsAlone, OneKind
  <2>5. TTLIsBounded(i)'
    BY <1>1, <2>1 DEF ClientInv, TTLIsBounded, Hash, NoTTL
  <2>6. HashIsTheirs(i)'
    BY <1>1, <2>1, <2>2, <2>3 DEF ClientInv, HashIsTheirs, HashFits, Undisturbed
  <2>7. HashIsThere(i)'
    BY <1>1, <2>1, <2>2 DEF ClientInv, HashIsThere, Told
  <2>8. Fades(i)'
    BY <1>1, <2>1, <2>2, <2>3 DEF ClientInv, Fades
  <2>9. ShownIsCovered(i)' /\ BannedIsThere(i)'
    BY <1>1, <2>1, <2>2, <2>3 DEF ClientInv, ShownIsCovered, BannedIsThere
  <2>10. QED
    BY <2>4, <2>5, <2>6, <2>7, <2>8, <2>9 DEF ClientInv
<1>4. QED
  BY <1>2, <1>3 DEF MirrorInv

-----------------------------------------------------------------------------
(* Together. *)

LEMMA InitInv == ASSUME Init PROVE MirrorInv
<1>1. /\ \A c \in Calls : calls[c].phase = "idle"
      /\ \A ip \in IPs : hash[ip] = NoHash /\ rows[ip] = NoRow
      /\ now = 0 /\ BanDuration \in Nat
  BY MirrorAssumption DEF Init, Idle
<1>2. TypeOK
  BY InitType
<1>3. PhaseFitsKind
  BY <1>1 DEF PhaseFitsKind
<1>4. ASSUME NEW ip \in IPs
      PROVE  ClientInv(ip)
  <2>1. \A c \in Calls : ~At(c, ip)
    BY <1>1 DEF At, Open
  <2>2. AloneIsAlone(ip) /\ OneKind(ip) /\ HashIsTheirs(ip) /\ HashIsThere(ip)
    BY <2>1 DEF AloneIsAlone, OneKind, HashIsTheirs, HashIsThere
  <2>3. GoneIsGone(ip) /\ TTLIsBounded(ip)
    BY <1>1 DEF GoneIsGone, TTLIsBounded, NoHash, NoTTL
  <2>4. Fades(ip) /\ ShownIsCovered(ip) /\ BannedIsThere(ip)
    <3>1. ~Visible(hash[ip], now) /\ ~IsBlocked(rows[ip], now)
      BY <1>1 DEF Visible, IsBlocked, NoHash, NoRow
    <3>2. QED
      BY <3>1 DEF Fades, ShownIsCovered, BannedIsThere
  <2>5. QED
    BY <2>2, <2>3, <2>4 DEF ClientInv
<1>5. QED
  BY <1>2, <1>3, <1>4 DEF MirrorInv

LEMMA StepInv == ASSUME MirrorInv, [Next]_vars PROVE MirrorInv'
<1>1. TypeOK'
  BY StepType DEF MirrorInv
<1>2. ASSUME UNCHANGED <<now, connected, hash, calls, rows, apart>>
      PROVE  MirrorInv'
  <2>1. PhaseFitsKind'
    BY <1>2 DEF MirrorInv, PhaseFitsKind
  <2>2. \A i \in IPs : ClientInv(i)'
    BY <1>2, Untouched
  <2>3. QED
    BY <1>1, <2>1, <2>2 DEF MirrorInv
<1>3. CASE UNCHANGED vars
  BY <1>2, <1>3 DEF vars
<1>4. CASE CollectGarbage
  BY <1>2, <1>4 DEF CollectGarbage, callVars
<1>5. CASE Next
  BY <1>1, <1>4, <1>5, BeginKeepsInv, AnswerKeepsInv, FailureKeepsInv, WriteKeepsInv,
     PenaliseKeepsInv, LookUpKeepsInv, RestartKeepsInv, TimePassesKeepsInv
     DEF Next
<1>6. QED
  BY <1>3, <1>5

LEMMA MirrorInvariant == Spec => []MirrorInv
<1>1. MirrorInv /\ [Next]_vars => MirrorInv'
  BY StepInv
<1>2. QED
  BY InitInv, <1>1, PTL DEF Spec

\* However calls interleave between the two commands of a ban, a temporary ban
\* that Redis shows has a TTL, is about to get one, or a ban failed half way.
THEOREM BansFade == Spec => []TemporaryBansFade
<1>1. MirrorInv => TemporaryBansFade
  <2> SUFFICES ASSUME MirrorInv, NEW ip \in IPs, Visible(hash[ip], now), ~hash[ip].permanent
               PROVE  \/ hash[ip].ttl # NoTTL /\ hash[ip].ttl <= now + BanDuration
                      \/ \E c \in UnderWay(ip) : calls[c].phase = "expire"
                      \/ "ban failed" \in apart[ip]
    BY DEF TemporaryBansFade
  <2>1. TTLIsBounded(ip) /\ Fades(ip)
    BY DEF MirrorInv, ClientInv
  <2>2. Awaited(ip) => \E c \in UnderWay(ip) : calls[c].phase = "expire"
    BY DEF Awaited, UnderWay
  <2>3. QED
    BY <2>1, <2>2 DEF TTLIsBounded, Fades
<1>2. QED
  BY MirrorInvariant, <1>1, PTL

\* Between calls the two copies agree, in both directions, since the last call that
\* ran undisturbed, unless one of the events named in CopiesAgree happened after it.
THEOREM PagesTellTheTruth == Spec => []CopiesAgree
<1>1. MirrorInv => CopiesAgree
  <2> SUFFICES ASSUME MirrorInv, NEW ip \in IPs, UnderWay(ip) = {}
               PROVE  /\ ~Overstated(ip) /\ Visible(hash[ip], now) => IsBlocked(rows[ip], now)
                      /\ ~Understated(ip) /\ IsBlocked(rows[ip], now) => hash[ip].present
    BY DEF CopiesAgree, Overstated, Understated
  <2>1. now \in Nat /\ hash[ip] \in Hash /\ rows[ip] \in Row /\ ClientInv(ip)
    BY Basics DEF MirrorInv
  <2>2. ~Coming(ip) /\ ~Erasing(ip)
    BY DEF Coming, Erasing, UnderWay
  <2>3. ~Overstated(ip) /\ Visible(hash[ip], now) => Covered(hash[ip], rows[ip])
    BY <2>1, <2>2 DEF ClientInv, ShownIsCovered
  <2>4. Visible(hash[ip], now) /\ Covered(hash[ip], rows[ip]) => IsBlocked(rows[ip], now)
    BY <2>1 DEF Covered, Visible, IsBlocked, Row, Hash, NoTTL, NULL
  <2>5. ~Understated(ip) /\ IsBlocked(rows[ip], now) => hash[ip].present
    BY <2>1, <2>2 DEF ClientInv, BannedIsThere
  <2>6. QED
    BY <2>3, <2>4, <2>5
<1>2. QED
  BY MirrorInvariant, <1>1, PTL

=============================================================================
