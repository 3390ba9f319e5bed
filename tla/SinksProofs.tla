----------------------------- MODULE SinksProofs -----------------------------
(***************************************************************************)
(* The persistent sink, for every set of rows and any number of deaths and *)
(* power cuts between the steps of a put: the count is that of the rows,   *)
(* an acknowledged row outlives every death of the process, and the        *)
(* database is an append-only store as long as the power holds.  And both  *)
(* sinks side by side: scans are complete and the two answer alike.        *)
(***************************************************************************)
EXTENDS EvidenceSinks, FiniteSetTheorems, TLAPS

\* No key is in the log twice.
KeysDistinct ==
    \A i, j \in 1 .. Len(log) : Key(log[i]) = Key(log[j]) => i = j

\* What a put that is under way has found and done so far.
PutSoFar ==
    /\ state = "ready" => count = Len(log)
    /\ state = "checked" =>
          /\ count = Len(log)
          /\ \E r \in Row : pending = {r} /\ ~Has(r)
    /\ state = "written" =>
          /\ count = Len(log) - 1 /\ Len(log) > 0
          /\ pending \subseteq Stored

\* Without SequencesExt's cardinality of `pending': PutSoFar says what it holds.
Types ==
    /\ log \in Seq(Row)
    /\ count \in Nat
    /\ state \in {"closed", "ready", "checked", "written"}
    /\ pending \in SUBSET Row
    /\ acked \subseteq Row /\ powerLost \in BOOLEAN

DbInv == Types /\ KeysDistinct /\ PutSoFar /\ AcknowledgedRowsSurviveDeaths

-----------------------------------------------------------------------------
(* The log.                                                                *)

\* One more row is one more row.
LEMMA WriteStores ==
  ASSUME log \in Seq(Row), NEW r \in Row, log' = Append(log, r)
  PROVE  Stored' = Stored \cup {r}
<1>1. /\ Len(log) \in Nat /\ Len(log') = Len(log) + 1 /\ log' \in Seq(Row)
      /\ log'[Len(log) + 1] = r
      /\ \A i \in 1 .. Len(log) : log'[i] = log[i]
  OBVIOUS
<1>2. Stored' = {log'[i] : i \in 1 .. Len(log')}
  BY <1>1 DEF Stored
<1>3. Stored = {log[i] : i \in 1 .. Len(log)}
  BY DEF Stored
<1>4. Stored' \subseteq Stored \cup {r}
  BY <1>1, <1>2, <1>3
<1>5. Stored \cup {r} \subseteq Stored'
  <2>1. r \in Stored'
    BY <1>1, <1>2
  <2>2. ASSUME NEW i \in 1 .. Len(log)  PROVE log[i] \in Stored'
    BY <1>1, <1>2, <2>2
  <2> QED
    BY <1>3, <2>1, <2>2
<1> QED
  BY <1>4, <1>5

\* The sink's length, while keys are distinct, is the number of rows.
LEMMA RowsCounted ==
  ASSUME log \in Seq(Row), KeysDistinct
  PROVE  Cardinality(Stored) = Len(log)
<1> DEFINE n == Len(log)
           f == [i \in 1 .. n |-> log[i]]
<1>1. n \in Nat /\ Stored = {log[i] : i \in 1 .. n}
  BY DEF Stored
<1>2. f \in Bijection(1 .. n, Stored)
  <2>1. f \in [1 .. n -> Stored]
    BY <1>1
  <2>2. \A i, j \in 1 .. n : f[i] = f[j] => i = j
    BY DEF KeysDistinct
  <2>3. \A r \in Stored : \E i \in 1 .. n : f[i] = r
    BY <1>1
  <2> QED
    BY <2>1, <2>2, <2>3 DEF Bijection, Injection, Surjection, IsInjective
<1>3. ExistsBijection(1 .. n, Stored)
  BY <1>2 DEF ExistsBijection
<1> QED
  BY <1>1, <1>3, FS_CountingElements

-----------------------------------------------------------------------------
(* The steps of the database.                                              *)

LEMMA DbInvInit == Init => DbInv
<1> SUFFICES ASSUME Init PROVE DbInv
  OBVIOUS
<1>1. Types
  <2>1. log \in Seq(Row) /\ count \in Nat
    BY DEF Init
  <2>2. /\ state \in {"closed", "ready", "checked", "written"}
        /\ pending \in SUBSET Row /\ acked \subseteq Row /\ powerLost \in BOOLEAN
    BY Zenon DEF Init
  <2> QED
    BY <2>1, <2>2 DEF Types
<1>2. KeysDistinct
  BY DEF Init, KeysDistinct
<1>3. PutSoFar /\ AcknowledgedRowsSurviveDeaths
  BY DEF Init, PutSoFar, AcknowledgedRowsSurviveDeaths
<1> QED
  BY <1>1, <1>2, <1>3 DEF DbInv

\* A step that leaves the log alone.
LEMMA SameLog ==
  ASSUME log' = log
  PROVE  /\ Stored' = Stored
         /\ KeysDistinct => KeysDistinct'
         /\ \A r : Has(r)' <=> Has(r)
  BY DEF Stored, KeysDistinct, Has, Key

LEMMA WriteKeepsInv == DbInv /\ PutWrite => DbInv'
<1> SUFFICES ASSUME DbInv, PutWrite PROVE DbInv'
  OBVIOUS
<1>1. PICK r \in Row : pending = {r} /\ ~Has(r)
  BY DEF DbInv, PutSoFar, PutWrite
<1>2. /\ log' = Append(log, r) /\ state = "checked" /\ state' = "written"
      /\ UNCHANGED <<count, pending, acked, powerLost>>
  BY <1>1 DEF PutWrite
<1>3. /\ log \in Seq(Row) /\ Len(log) \in Nat /\ log' \in Seq(Row)
      /\ Len(log') = Len(log) + 1 /\ log'[Len(log) + 1] = r
      /\ \A i \in 1 .. Len(log) : log'[i] = log[i]
  BY <1>2 DEF DbInv, Types
<1>4. Stored' = Stored \cup {r}
  BY <1>2, <1>3, WriteStores
<1>5. Types'
  BY <1>2, <1>3 DEF DbInv, Types
<1>6. KeysDistinct'
  <2>1. \A i \in 1 .. Len(log) : Key(log[i]) # Key(r)
    BY <1>1, <1>3 DEF Has, Stored
  <2>2. ASSUME NEW i \in 1 .. Len(log'), NEW j \in 1 .. Len(log'),
               Key(log'[i]) = Key(log'[j])
        PROVE  i = j
    <3>1. CASE i \in 1 .. Len(log) /\ j \in 1 .. Len(log)
      BY <1>3, <2>2, <3>1 DEF DbInv, KeysDistinct
    <3>2. CASE i \in 1 .. Len(log) /\ j \notin 1 .. Len(log)
      <4>1. log'[i] = log[i] /\ log'[j] = r
        BY <1>3, <3>2
      <4> QED
        BY <2>1, <2>2, <3>2, <4>1
    <3>3. CASE i \notin 1 .. Len(log) /\ j \in 1 .. Len(log)
      <4>1. log'[j] = log[j] /\ log'[i] = r
        BY <1>3, <3>3
      <4> QED
        BY <2>1, <2>2, <3>3, <4>1
    <3>4. CASE i \notin 1 .. Len(log) /\ j \notin 1 .. Len(log)
      BY <1>3, <3>4
    <3> QED
      BY <3>1, <3>2, <3>3, <3>4
  <2> QED
    BY <2>2 DEF KeysDistinct, Key
<1>7. PutSoFar'
  BY <1>1, <1>2, <1>3, <1>4 DEF DbInv, PutSoFar
<1>8. AcknowledgedRowsSurviveDeaths'
  BY <1>2, <1>4 DEF DbInv, AcknowledgedRowsSurviveDeaths
<1> QED
  BY <1>5, <1>6, <1>7, <1>8 DEF DbInv

\* The newest part of the log is lost with the power; the rest is a log.
LEMMA PowerCutKeepsInv == DbInv /\ PowerCut => DbInv'
<1> SUFFICES ASSUME DbInv, PowerCut PROVE DbInv'
  OBVIOUS
<1>1. PICK n \in 0 .. Len(log) : log' = SubSeq(log, 1, n)
  BY DEF PowerCut
<1>2. /\ log \in Seq(Row) /\ log' \in Seq(Row) /\ Len(log') = n
      /\ n <= Len(log) /\ Len(log) \in Nat
      /\ \A i \in 1 .. n : log'[i] = log[i]
  BY <1>1 DEF DbInv, Types
<1>3. Types'
  BY <1>2 DEF DbInv, Types, PowerCut
<1>4. KeysDistinct'
  BY <1>2 DEF DbInv, KeysDistinct, Key
<1>5. PutSoFar' /\ AcknowledgedRowsSurviveDeaths'
  BY DEF PowerCut, PutSoFar, AcknowledgedRowsSurviveDeaths
<1> QED
  BY <1>3, <1>4, <1>5 DEF DbInv

LEMMA QuietKeepsInv ==
  ASSUME DbInv,
         \/ Open
         \/ \E r \in Row : PutDuplicate(r) \/ PutCheck(r)
         \/ PutCount \/ PutFails \/ Crash
         \/ UNCHANGED vars
  PROVE  DbInv' /\ log' = log
<1>1. log' = log
  BY DEF Open, PutDuplicate, PutCheck, PutCount, PutFails, Crash, vars
<1>2. Len(log) \in Nat /\ Stored' = Stored /\ KeysDistinct' /\ \A r : Has(r)' <=> Has(r)
  BY <1>1, SameLog DEF DbInv, Types
<1>3. CASE Open
  BY <1>1, <1>2, <1>3
     DEF DbInv, Types, PutSoFar, AcknowledgedRowsSurviveDeaths, Open
<1>4. ASSUME NEW r \in Row, PutDuplicate(r)  PROVE DbInv'
  BY <1>1, <1>2, <1>4
     DEF DbInv, Types, PutSoFar, AcknowledgedRowsSurviveDeaths, PutDuplicate
<1>5. ASSUME NEW r \in Row, PutCheck(r)  PROVE DbInv'
  BY <1>1, <1>2, <1>5
     DEF DbInv, Types, PutSoFar, AcknowledgedRowsSurviveDeaths, PutCheck
<1>6. CASE PutCount
  BY <1>1, <1>2, <1>6
     DEF DbInv, Types, PutSoFar, AcknowledgedRowsSurviveDeaths, PutCount
<1>7. CASE PutFails
  BY <1>1, <1>2, <1>7
     DEF DbInv, Types, PutSoFar, AcknowledgedRowsSurviveDeaths, PutFails
<1>8. CASE Crash
  BY <1>1, <1>2, <1>8
     DEF DbInv, Types, PutSoFar, AcknowledgedRowsSurviveDeaths, Crash
<1>9. CASE UNCHANGED vars
  BY <1>1, <1>2, <1>9
     DEF DbInv, Types, PutSoFar, AcknowledgedRowsSurviveDeaths, vars
<1> QED
  BY <1>1, <1>3, <1>4, <1>5, <1>6, <1>7, <1>8, <1>9

LEMMA DbInvStep == DbInv /\ [Next]_vars => DbInv'
  BY WriteKeepsInv, PowerCutKeepsInv, QuietKeepsInv DEF Next

\* The caller of both sinks takes only steps of the database.
LEMMA SinksStep == [SinksNext]_allVars => [Next]_vars
  BY DEF SinksNext, allVars, TeeDuplicate, TeeAcknowledged, DatabaseOnly, Die, Next

-----------------------------------------------------------------------------
(* Theorems.                                                               *)

LEMMA DbInvAlways == SinksSpec => []DbInv
<1>1. SinksInit => DbInv
  BY DbInvInit DEF SinksInit
<1>2. DbInv /\ [SinksNext]_allVars => DbInv'
  BY SinksStep, DbInvStep
<1> QED
  BY <1>1, <1>2, PTL DEF SinksSpec

\* len() is the number of rows whenever no put is under way, after any number of
\* deaths in the middle of one.
THEOREM DbCountMatchesRows == SinksSpec => []CountMatchesRows
<1>1. DbInv => CountMatchesRows
  BY RowsCounted DEF DbInv, Types, PutSoFar, CountMatchesRows
<1> QED
  BY DbInvAlways, <1>1, PTL

\* A row put returned Ok for survives every death of the process.
THEOREM DbAcknowledgedSurvive == SinksSpec => []AcknowledgedRowsSurviveDeaths
<1>1. DbInv => AcknowledgedRowsSurviveDeaths
  BY DEF DbInv
<1> QED
  BY DbInvAlways, <1>1, PTL

-----------------------------------------------------------------------------
(* The in-memory sink.                                                     *)

\* A row lies under its own key.
MapInv == \A k \in DOMAIN rows : M!Key(rows[k]) = k

LEMMA MapStep ==
  ASSUME MapInv, NEW r \in Row, M!Put(r)
  PROVE  MapInv' /\ [M!Store!Next]_(M!Held)
<1>1. CASE M!Key(r) \in DOMAIN rows
  BY <1>1 DEF M!Put, MapInv, M!Held
<1>2. CASE M!Key(r) \notin DOMAIN rows
  <2>1. rows' = [k \in DOMAIN rows \cup {M!Key(r)} |->
                    IF k = M!Key(r) THEN r ELSE rows[k]]
    BY <1>2 DEF M!Put
  <2>2. /\ DOMAIN rows' = DOMAIN rows \cup {M!Key(r)}
        /\ rows'[M!Key(r)] = r
        /\ \A k \in DOMAIN rows : rows'[k] = rows[k]
    BY <1>2, <2>1
  <2>3. MapInv'
    BY <2>2 DEF MapInv
  <2>4. (M!Held)' = M!Held \cup {r}
    BY <2>2 DEF M!Held
  <2>5. \A s \in M!Held : ~M!Store!SameKey(r, s)
    BY <1>2 DEF MapInv, M!Held, M!Key, M!Store!SameKey
  <2> QED
    BY <2>3, <2>4, <2>5 DEF M!Store!Next, M!Store!Accept
<1> QED
  BY <1>1, <1>2

\* The map alone keeps the promise as well, under nothing but puts.
THEOREM MemoryImplementsStore == M!Spec => M!ImplementsStore
<1>1. M!Init => MapInv /\ M!Store!Init
  BY DEF M!Init, MapInv, M!Store!Init, M!Held
<1>2. MapInv /\ [M!Next]_<<rows, memory>> => MapInv' /\ [M!Store!Next]_(M!Held)
  BY MapStep DEF M!Next, MapInv, M!Held
<1> QED
  BY <1>1, <1>2, PTL DEF M!Spec, M!ImplementsStore, M!Store!Spec

-----------------------------------------------------------------------------
(* The database.                                                           *)

\* "Append-only and immutable by design": a put adds its row, once, under a key
\* that is new; nothing else changes the rows, but the loss of power.
THEOREM DbImplementsStore == SinksSpec => ImplementsStore
<1>1. SinksInit => Store!Init
  BY DEF SinksInit, Init, Store!Init, Stored
<1>2. DbInv /\ [SinksNext]_allVars => [Store!Next \/ PowerCut]_Stored
  <2> SUFFICES ASSUME DbInv, [Next]_vars
               PROVE  [Store!Next \/ PowerCut]_Stored
    BY SinksStep
  <2>1. CASE PutWrite
    <3>1. PICK r \in Row : pending = {r} /\ ~Has(r)
      BY <2>1 DEF DbInv, PutSoFar, PutWrite
    <3>2. Stored' = Stored \cup {r}
      BY <2>1, <3>1, WriteStores DEF DbInv, Types, PutWrite
    <3>3. \A s \in Stored : ~Store!SameKey(r, s)
      BY <3>1 DEF Has, Key, Store!SameKey
    <3> QED
      BY <3>2, <3>3 DEF Store!Next, Store!Accept
  <2>2. CASE PowerCut
    BY <2>2
  <2>3. CASE ~PutWrite /\ ~PowerCut
    <3>1. log' = log
      BY <2>3, QuietKeepsInv DEF Next
    <3> QED
      BY <3>1, SameLog
  <2> QED
    BY <2>1, <2>2, <2>3
<1> QED
  BY DbInvAlways, <1>1, <1>2, PTL DEF SinksSpec, ImplementsStore
-----------------------------------------------------------------------------
(* Key order.                                                              *)

Keyed(S) == /\ IsFiniteSet(S)
            /\ \A r \in S : r.ts \in Nat /\ r.id \in Nat
            /\ \A r, s \in S : Key(r) = Key(s) => r = s

Earlier(S, r) == {s \in S : Before(s, r)}

\* Rows under distinct keys have distinct numbers of rows before them, and each
\* number occurs.
LEMMA RanksAreAPermutation ==
  ASSUME NEW S, Keyed(S)
  PROVE  /\ Cardinality(S) \in Nat
         /\ \A r \in S : Cardinality(Earlier(S, r)) \in 0 .. Cardinality(S) - 1
         /\ \A r, s \in S :
               Before(r, s) => Cardinality(Earlier(S, r)) < Cardinality(Earlier(S, s))
         /\ \A r, s \in S :
               Cardinality(Earlier(S, r)) = Cardinality(Earlier(S, s)) => r = s
         /\ \A i \in 1 .. Cardinality(S) :
               \E r \in S : Cardinality(Earlier(S, r)) = i - 1
<1> DEFINE n == Cardinality(S)
           rank(r) == Cardinality(Earlier(S, r))
           f == [r \in S |-> rank(r) + 1]
<1>1. IsFiniteSet(S) /\ n \in Nat
  BY FS_CardinalityType DEF Keyed
<1>2. /\ \A r \in S : ~Before(r, r)
      /\ \A r, s \in S : r # s => Before(r, s) \/ Before(s, r)
      /\ \A r, s, t \in S : Before(r, s) /\ Before(s, t) => Before(r, t)
  <2>1. \A r, s \in S : r # s => r.ts # s.ts \/ r.id # s.id
    BY DEF Keyed, Key
  <2>2. \A r \in S : r.ts \in Nat /\ r.id \in Nat
    BY DEF Keyed
  <2> QED
    BY <2>1, <2>2 DEF Before
<1>3. ASSUME NEW r \in S
      PROVE  /\ IsFiniteSet(Earlier(S, r)) /\ rank(r) \in Nat /\ rank(r) <= n - 1
             /\ r \notin Earlier(S, r) /\ Earlier(S, r) \subseteq S
  <2>1. Earlier(S, r) \in SUBSET (S \ {r})
    BY <1>2 DEF Earlier
  <2>2. IsFiniteSet(S \ {r}) /\ Cardinality(S \ {r}) = n - 1
    BY <1>1, FS_RemoveElement
  <2> QED
    BY <2>1, <2>2, FS_Subset, FS_CardinalityType
<1>4. ASSUME NEW r \in S, NEW s \in S, Before(r, s)
      PROVE  rank(r) < rank(s)
  <2>1. Earlier(S, r) \subseteq Earlier(S, s) /\ r \in Earlier(S, s)
    BY <1>2, <1>4 DEF Earlier
  <2>2. Earlier(S, r) # Earlier(S, s)
    BY <1>3, <2>1
  <2>3. rank(r) <= rank(s) /\ rank(r) # rank(s)
    BY <1>3, <2>1, <2>2, FS_Subset
  <2> QED
    BY <1>3, <2>3
<1>5. ASSUME NEW r \in S, NEW s \in S, rank(r) = rank(s)
      PROVE  r = s
  <2>1. Before(r, s) => rank(r) < rank(s)
    BY <1>4
  <2>2. Before(s, r) => rank(s) < rank(r)
    BY <1>4
  <2>3. rank(r) \in Nat
    BY <1>3
  <2> HIDE DEF rank
  <2> QED
    BY <1>2, <1>5, <2>1, <2>2, <2>3
<1>6. \A r \in S : rank(r) \in 0 .. n - 1
  BY <1>1, <1>3
<1>7. f \in Injection(S, 1 .. n)
  <2>1. f \in [S -> 1 .. n]
    BY <1>1, <1>6
  <2>2. \A r, s \in S : f[r] = f[s] => r = s
    BY <1>5, <1>6
  <2> HIDE DEF f
  <2> QED
    BY <2>1, <2>2 DEF Injection, IsInjective
<1>8. f \in Surjection(S, 1 .. n)
  <2>1. IsFiniteSet(1 .. n) /\ Cardinality(1 .. n) = n
    BY <1>1, FS_Interval
  <2> HIDE DEF f
  <2> QED
    BY <1>1, <1>7, <2>1, FS_Injection
<1>9. ASSUME NEW i \in 1 .. n  PROVE \E r \in S : rank(r) = i - 1
  <2>1. PICK r \in S : f[r] = i
    <3> HIDE DEF f
    <3> QED
      BY <1>8 DEF Surjection
  <2> QED
    BY <1>6, <2>1
<1> QED
  BY <1>1, <1>4, <1>5, <1>6, <1>9

\* InKeyOrder lists every row once, each before those with a greater key.
LEMMA KeyOrderLists ==
  ASSUME NEW S, Keyed(S)
  PROVE  /\ Cardinality(S) \in Nat
         /\ DOMAIN InKeyOrder(S) = 1 .. Cardinality(S)
         /\ InKeyOrder(S) \in Seq(S) /\ Len(InKeyOrder(S)) = Cardinality(S)
         /\ \A i \in 1 .. Cardinality(S) :
               /\ InKeyOrder(S)[i] \in S
               /\ Cardinality(Earlier(S, InKeyOrder(S)[i])) = i - 1
         /\ {InKeyOrder(S)[i] : i \in 1 .. Cardinality(S)} = S
         /\ \A i, j \in 1 .. Cardinality(S) :
               i < j => Before(InKeyOrder(S)[i], InKeyOrder(S)[j])
<1> DEFINE n == Cardinality(S)
           out == InKeyOrder(S)
           rank(r) == Cardinality(Earlier(S, r))
<1>1. /\ n \in Nat
      /\ \A r \in S : rank(r) \in 0 .. n - 1
      /\ \A r, s \in S : Before(r, s) => rank(r) < rank(s)
      /\ \A r, s \in S : rank(r) = rank(s) => r = s
      /\ \A i \in 1 .. n : \E r \in S : rank(r) = i - 1
  BY RanksAreAPermutation
<1>2. out = [i \in 1 .. n |-> CHOOSE r \in S : rank(r) = i - 1]
  BY DEF InKeyOrder, Earlier
<1> HIDE DEF out, rank
<1>3. DOMAIN out = 1 .. n /\ \A i \in 1 .. n : out[i] \in S /\ rank(out[i]) = i - 1
  BY <1>1, <1>2
<1>4. out \in Seq(S) /\ Len(out) = n
  <2>1. out \in [1 .. n -> S]
    BY <1>2, <1>3
  <2> HIDE DEF n
  <2> QED
    BY <1>1, <2>1
<1>5. {out[i] : i \in 1 .. n} = S
  <2>1. ASSUME NEW r \in S  PROVE \E i \in 1 .. n : out[i] = r
    <3>1. rank(r) + 1 \in 1 .. n /\ (rank(r) + 1) - 1 = rank(r)
      BY <1>1
    <3>2. rank(out[rank(r) + 1]) = rank(r) /\ out[rank(r) + 1] \in S
      BY <1>3, <3>1
    <3> QED
      BY <1>1, <3>1, <3>2
  <2> QED
    BY <1>3, <2>1
<1>6. ASSUME NEW i \in 1 .. n, NEW j \in 1 .. n, i < j
      PROVE  Before(out[i], out[j])
  <2>1. PICK r \in S, s \in S : r = out[i] /\ s = out[j] /\ rank(r) = i - 1 /\ rank(s) = j - 1
    BY <1>3
  <2>2. rank(r) < rank(s)
    BY <1>1, <1>6, <2>1
  <2>3. r # s /\ ~Before(s, r)
    BY <1>1, <2>2
  <2>4. /\ r.ts \in Nat /\ r.id \in Nat /\ s.ts \in Nat /\ s.id \in Nat
        /\ r.ts # s.ts \/ r.id # s.id
    BY <2>3 DEF Keyed, Key
  <2> QED
    BY <2>1, <2>3, <2>4 DEF Before
<1> QED
  BY <1>1, <1>3, <1>4, <1>5, <1>6 DEF out, rank

\* A subset of keyed rows is keyed.
LEMMA KeyedSubset ==
  ASSUME NEW S, Keyed(S), NEW T \in SUBSET S
  PROVE  Keyed(T)
  BY FS_Subset DEF Keyed

\* Seeking to the start and stopping at the first row at or after the end visits
\* the rows between: what the database iterates over is what the map holds there.
LEMMA ScanIsSlice ==
  ASSUME Keyed(Stored), NEW start \in Nat, NEW end \in Nat
  PROVE  Visited(start, end)
            = InKeyOrder({r \in Stored : start <= r.ts /\ r.ts < end})
<1> DEFINE A == {r \in Stored : r.ts >= start}
           B == {r \in Stored : start <= r.ts /\ r.ts < end}
           n == Cardinality(A)
           m == Cardinality(B)
           from == InKeyOrder(A)
           out == InKeyOrder(B)
           past == {i \in DOMAIN from : from[i].ts >= end}
<1>1. \A r \in Stored : r.ts \in Nat /\ r.id \in Nat
  BY DEF Keyed
<1>2. B \subseteq A /\ A \subseteq Stored
  BY <1>1
<1>3. Keyed(A) /\ Keyed(B)
  BY <1>2, KeyedSubset
<1>4. \A r \in B : Earlier(A, r) = Earlier(B, r)
  BY <1>1 DEF Earlier, Before
<1>5. \A r \in A : r \notin B => r.ts >= end
  BY <1>1
<1>6. \A r \in B : ~(r.ts >= end)
  BY <1>1
<1>7. Visited(start, end)
         = IF past = {} THEN from
           ELSE SubSeq(from, 1, (CHOOSE i \in past : \A j \in past : i <= j) - 1)
  BY DEF Visited
<1> HIDE DEF A, B
<1>8. n \in Nat /\ m \in Nat /\ m <= n
  BY <1>2, <1>3, FS_Subset, FS_CardinalityType DEF Keyed
<1>9. /\ DOMAIN from = 1 .. n /\ from \in Seq(A) /\ Len(from) = n
      /\ \A i \in 1 .. n : from[i] \in A /\ Cardinality(Earlier(A, from[i])) = i - 1
  BY <1>3, KeyOrderLists
<1>10. /\ DOMAIN out = 1 .. m /\ out \in Seq(B) /\ Len(out) = m
       /\ \A i \in 1 .. m : out[i] \in B /\ Cardinality(Earlier(B, out[i])) = i - 1
  BY <1>3, KeyOrderLists
<1>11. /\ \A r, s \in A :
             Cardinality(Earlier(A, r)) = Cardinality(Earlier(A, s)) => r = s
       /\ \A r \in B : Cardinality(Earlier(B, r)) \in 0 .. m - 1
  BY <1>3, RanksAreAPermutation
<1> HIDE DEF n, m, from, out
<1>12. \A i \in 1 .. m : from[i] = out[i]
  <2> SUFFICES ASSUME NEW i \in 1 .. m PROVE from[i] = out[i]
    OBVIOUS
  <2>1. i \in 1 .. n
    BY <1>8
  <2>2. out[i] \in A /\ Cardinality(Earlier(A, out[i])) = i - 1
    BY <1>2, <1>4, <1>10
  <2> QED
    BY <1>9, <1>11, <2>1, <2>2
<1>13. \A i \in 1 .. n : i \in past <=> i > m
  <2> SUFFICES ASSUME NEW i \in 1 .. n PROVE i \in past <=> i > m
    OBVIOUS
  <2>1. CASE i > m
    <3>1. from[i] \notin B
      <4> SUFFICES ASSUME from[i] \in B PROVE FALSE
        OBVIOUS
      <4>1. Cardinality(Earlier(B, from[i])) = i - 1
        BY <1>4, <1>9
      <4>2. i - 1 \in 0 .. m - 1
        BY <1>11, <4>1
      <4> QED
        BY <1>8, <2>1, <4>2
    <3> QED
      BY <1>5, <1>9, <2>1, <3>1
  <2>2. CASE ~(i > m)
    <3>1. i \in 1 .. m
      BY <1>8, <2>2
    <3>2. from[i] \in B
      BY <1>10, <1>12, <3>1
    <3> QED
      BY <1>6, <2>2, <3>2
  <2> QED
    BY <2>1, <2>2
<1>14. CASE m = n
  <2>1. past = {}
    BY <1>8, <1>9, <1>13, <1>14
  <2>2. from = out
    <3>1. from = [i \in 1 .. n |-> from[i]] /\ out = [i \in 1 .. n |-> out[i]]
      BY <1>9, <1>10, <1>14
    <3> QED
      BY <1>12, <1>14, <3>1
  <2> QED
    BY <1>7, <2>1, <2>2 DEF out, B
<1>15. CASE m # n
  <2>1. m + 1 \in past /\ \A i \in past : m + 1 <= i /\ i \in Nat
    <3>1. past \subseteq 1 .. n
      BY <1>9
    <3>2. m + 1 \in 1 .. n /\ m + 1 > m
      BY <1>8, <1>15
    <3> HIDE DEF past
    <3> QED
      BY <1>8, <1>13, <3>1, <3>2
  <2> HIDE DEF past
  <2>2. (CHOOSE i \in past : \A j \in past : i <= j) = m + 1
    <3>1. \A i \in past : (\A j \in past : i <= j) => i = m + 1
      BY <1>8, <2>1
    <3>2. \A j \in past : m + 1 <= j
      BY <2>1
    <3> QED
      BY <2>1, <3>1, <3>2
  <2>3. Visited(start, end) = SubSeq(from, 1, m)
    BY <1>7, <1>8, <2>1, <2>2
  <2>4. SubSeq(from, 1, m) = [i \in 1 .. m |-> from[i]]
    BY <1>8, <1>9
  <2>5. out = [i \in 1 .. m |-> out[i]]
    BY <1>10
  <2>6. SubSeq(from, 1, m) = out
    BY <1>12, <2>4, <2>5
  <2> QED
    BY <2>3, <2>6 DEF out, B
<1> QED
  BY <1>14, <1>15

-----------------------------------------------------------------------------
(* Both sinks side by side.                                                *)

\* What the last put may have returned, and the row it was about.
AnswerInv == /\ answer \in {"none", "Ok", "DuplicateKey", "RocksDb"}
             /\ pending = {} \/ \E r \in Row : pending = {r}

MemoryInv == MapInv /\ IsFiniteSet(M!Held) /\ M!Held \subseteq Row

\* In the first life of the process memory is behind by at most the row that is
\* written and not yet acknowledged.
TeeInv ==
    firstLife =>
        /\ state # "written" => M!Held = Stored
        /\ state = "written" =>
              \E r \in Row :
                  /\ pending = {r} /\ Stored = M!Held \cup {r}
                  /\ \A s \in M!Held : Key(s) # Key(r)
        /\ state = "ready" /\ answer \in {"Ok", "DuplicateKey"} => memory = answer

SinksInv == DbInv /\ AnswerInv /\ MemoryInv /\ TeeInv

LEMMA SinksInvInit == SinksInit => SinksInv
<1> SUFFICES ASSUME SinksInit PROVE SinksInv
  OBVIOUS
<1>1. DbInv
  BY DbInvInit DEF SinksInit
<1>2. AnswerInv
  BY DEF SinksInit, Init, AnswerInv
<1>3. M!Held = {} /\ Stored = {}
  BY DEF SinksInit, Init, M!Init, M!Held, Stored
<1>4. MemoryInv
  BY <1>3, FS_EmptySet DEF SinksInit, M!Init, MemoryInv, MapInv
<1>5. TeeInv
  BY <1>3 DEF SinksInit, Init, TeeInv
<1> QED
  BY <1>1, <1>2, <1>4, <1>5 DEF SinksInv

LEMMA AnswerStep == AnswerInv /\ [Next]_vars => AnswerInv'
<1> SUFFICES ASSUME AnswerInv, [Next]_vars PROVE AnswerInv'
  OBVIOUS
<1>1. CASE Open
  BY <1>1 DEF AnswerInv, Open
<1>2. ASSUME NEW r \in Row, PutDuplicate(r)  PROVE AnswerInv'
  BY <1>2 DEF AnswerInv, PutDuplicate
<1>3. ASSUME NEW r \in Row, PutCheck(r)  PROVE AnswerInv'
  BY <1>3 DEF AnswerInv, PutCheck
<1>4. CASE PutWrite
  BY <1>4 DEF AnswerInv, PutWrite
<1>5. CASE PutCount
  BY <1>5 DEF AnswerInv, PutCount
<1>6. CASE PutFails
  BY <1>6 DEF AnswerInv, PutFails
<1>7. CASE Crash
  BY <1>7 DEF AnswerInv, Crash
<1>8. CASE PowerCut
  BY <1>8 DEF AnswerInv, PowerCut
<1>9. CASE UNCHANGED vars
  BY <1>9 DEF AnswerInv, vars
<1> QED
  BY <1>1, <1>2, <1>3, <1>4, <1>5, <1>6, <1>7, <1>8, <1>9 DEF Next

\* What a put into the map does to the rows it holds.
LEMMA MapPut ==
  ASSUME MemoryInv, NEW r \in Row, M!Put(r)
  PROVE  /\ MemoryInv'
         /\ (\E s \in M!Held : Key(s) = Key(r)) =>
                M!Held' = M!Held /\ memory' = "DuplicateKey"
         /\ ~(\E s \in M!Held : Key(s) = Key(r)) =>
                M!Held' = M!Held \cup {r} /\ memory' = "Ok"
<1>1. MapInv'
  BY MapStep DEF MemoryInv
<1>2. (\E s \in M!Held : Key(s) = Key(r)) <=> M!Key(r) \in DOMAIN rows
  BY DEF MemoryInv, MapInv, M!Held, M!Key, Key
<1>3. CASE M!Key(r) \in DOMAIN rows
  <2>1. rows' = rows /\ memory' = "DuplicateKey"
    BY <1>3 DEF M!Put
  <2>2. M!Held' = M!Held
    BY <2>1 DEF M!Held
  <2> QED
    BY <1>1, <1>2, <1>3, <2>1, <2>2 DEF MemoryInv
<1>4. CASE M!Key(r) \notin DOMAIN rows
  <2>1. /\ rows' = [k \in DOMAIN rows \cup {M!Key(r)} |->
                       IF k = M!Key(r) THEN r ELSE rows[k]]
        /\ memory' = "Ok"
    BY <1>4 DEF M!Put
  <2>2. /\ DOMAIN rows' = DOMAIN rows \cup {M!Key(r)} /\ rows'[M!Key(r)] = r
        /\ \A k \in DOMAIN rows : rows'[k] = rows[k]
    BY <1>4, <2>1
  <2>3. M!Held' = M!Held \cup {r}
    BY <2>2 DEF M!Held
  <2>4. IsFiniteSet(M!Held') /\ M!Held' \subseteq Row
    BY <2>3, FS_AddElement DEF MemoryInv
  <2> QED
    BY <1>1, <1>2, <1>4, <2>1, <2>3, <2>4 DEF MemoryInv
<1> QED
  BY <1>3, <1>4

\* Both sinks reject the row, or memory repeats what the database acknowledged.
LEMMA TeeDuplicateKeeps ==
  ASSUME SinksInv, NEW r \in Row, TeeDuplicate(r)
  PROVE  MemoryInv' /\ TeeInv'
<1>1. /\ state = "ready" /\ Has(r) /\ answer' = "DuplicateKey" /\ state' = state
      /\ log' = log /\ pending' = pending /\ firstLife' = firstLife /\ M!Put(r)
  BY DEF TeeDuplicate, PutDuplicate
<1>2. Stored' = Stored
  BY <1>1, SameLog
<1>3. MemoryInv'
  BY <1>1, MapPut DEF SinksInv
<1>4. TeeInv'
  <2> SUFFICES ASSUME firstLife PROVE TeeInv'
    BY <1>1 DEF TeeInv
  <2>1. M!Held = Stored
    BY <1>1 DEF SinksInv, TeeInv
  <2>2. M!Held' = M!Held /\ memory' = "DuplicateKey"
    BY <1>1, <2>1, MapPut DEF SinksInv, Has
  <2> QED
    BY <1>1, <1>2, <2>1, <2>2 DEF TeeInv
<1> QED
  BY <1>3, <1>4

LEMMA TeeAcknowledgedKeeps ==
  ASSUME SinksInv, TeeAcknowledged
  PROVE  MemoryInv' /\ TeeInv'
<1>1. PICK r \in pending : M!Put(r)
  BY DEF TeeAcknowledged
<1>2. /\ state = "written" /\ state' = "ready" /\ answer' = "Ok" /\ log' = log
      /\ firstLife' = firstLife /\ r \in Row
  BY <1>1 DEF TeeAcknowledged, PutCount, SinksInv, DbInv, Types
<1>3. Stored' = Stored
  BY <1>2, SameLog
<1>4. MemoryInv'
  BY <1>1, <1>2, MapPut DEF SinksInv
<1>5. TeeInv'
  <2> SUFFICES ASSUME firstLife PROVE TeeInv'
    BY <1>2 DEF TeeInv
  <2>1. Stored = M!Held \cup {r} /\ \A s \in M!Held : Key(s) # Key(r)
    BY <1>1, <1>2 DEF SinksInv, TeeInv
  <2>2. M!Held' = M!Held \cup {r} /\ memory' = "Ok"
    BY <1>1, <1>2, <2>1, MapPut DEF SinksInv
  <2> QED
    BY <1>2, <1>3, <2>1, <2>2 DEF TeeInv
<1> QED
  BY <1>4, <1>5

LEMMA DatabaseOnlyKeeps ==
  ASSUME SinksInv, DatabaseOnly
  PROVE  MemoryInv' /\ TeeInv'
<1>1. rows' = rows /\ memory' = memory /\ firstLife' = firstLife
  BY DEF DatabaseOnly
<1>2. M!Held' = M!Held
  BY <1>1 DEF M!Held
<1>3. MemoryInv'
  BY <1>1, <1>2 DEF SinksInv, MemoryInv, MapInv
<1>4. CASE PutWrite
  <2>1. PICK r \in Row : pending = {r} /\ ~Has(r)
    BY <1>4 DEF SinksInv, DbInv, PutSoFar, PutWrite
  <2>2. /\ state = "checked" /\ state' = "written" /\ pending' = pending
        /\ log' = Append(log, r) /\ log \in Seq(Row)
    BY <1>4, <2>1 DEF SinksInv, DbInv, Types, PutWrite
  <2>3. Stored' = Stored \cup {r}
    BY <2>2, WriteStores
  <2> QED
    BY <1>1, <1>2, <1>3, <2>1, <2>2, <2>3 DEF SinksInv, TeeInv, Has
<1>5. CASE Open \/ (\E r \in Row : PutCheck(r)) \/ PutFails
  <2>1. /\ log' = log /\ state # "written" /\ state' # "written"
        /\ answer' \notin {"Ok", "DuplicateKey"}
    BY <1>5 DEF Open, PutCheck, PutFails
  <2>2. Stored' = Stored
    BY <2>1, SameLog
  <2> QED
    BY <1>1, <1>2, <1>3, <2>1, <2>2 DEF SinksInv, TeeInv
<1> QED
  BY <1>4, <1>5 DEF DatabaseOnly

LEMMA DieKeeps == Die => MemoryInv' /\ TeeInv'
<1> SUFFICES ASSUME Die PROVE MemoryInv' /\ TeeInv'
  OBVIOUS
<1>1. rows' = << >> /\ firstLife' = FALSE
  BY DEF Die
<1>2. M!Held' = {}
  BY <1>1 DEF M!Held
<1> QED
  BY <1>1, <1>2, FS_EmptySet DEF MemoryInv, MapInv, TeeInv

LEMMA SinksInvStep == SinksInv /\ [SinksNext]_allVars => SinksInv'
<1> SUFFICES ASSUME SinksInv, [SinksNext]_allVars PROVE SinksInv'
  OBVIOUS
<1>1. DbInv' /\ AnswerInv'
  BY SinksStep, DbInvStep, AnswerStep DEF SinksInv
<1>2. MemoryInv' /\ TeeInv'
  <2>1. CASE UNCHANGED allVars
    <3>1. M!Held' = M!Held /\ Stored' = Stored
      BY <2>1 DEF allVars, vars, M!Held, Stored
    <3> QED
      BY <2>1, <3>1 DEF SinksInv, MemoryInv, MapInv, TeeInv, allVars, vars
  <2> QED
    BY <2>1, TeeDuplicateKeeps, TeeAcknowledgedKeeps, DatabaseOnlyKeeps, DieKeeps
       DEF SinksNext
<1> QED
  BY <1>1, <1>2 DEF SinksInv

LEMMA SinksInvAlways == SinksSpec => []SinksInv
  BY SinksInvInit, SinksInvStep, PTL DEF SinksSpec

-----------------------------------------------------------------------------
(* Theorems about both.                                                    *)

\* Types of the database sink's variables; at most one row is being put.
THEOREM DbTypeCorrect == SinksSpec => []TypeOK
<1>1. SinksInv => TypeOK
  <2> SUFFICES ASSUME SinksInv PROVE TypeOK
    OBVIOUS
  <2>1. Cardinality(pending) <= 1
    BY FS_EmptySet, FS_Singleton DEF SinksInv, AnswerInv
  <2> QED
    BY <2>1 DEF SinksInv, AnswerInv, DbInv, Types, TypeOK
<1> QED
  BY SinksInvAlways, <1>1, PTL

\* No two rows of either sink share a key.
LEMMA StoredKeyed == DbInv => Keyed(Stored)
<1> SUFFICES ASSUME DbInv PROVE Keyed(Stored)
  OBVIOUS
<1>1. log \in Seq(Row) /\ Stored = {log[i] : i \in 1 .. Len(log)} /\ Len(log) \in Nat
  BY DEF DbInv, Types, Stored
<1>2. \A r \in Stored : r.ts \in Nat /\ r.id \in Nat
  BY <1>1, RowAssumption
<1>3. IsFiniteSet(Stored)
  <2> DEFINE f == [i \in 1 .. Len(log) |-> log[i]]
  <2>1. f \in Surjection(1 .. Len(log), Stored)
    BY <1>1 DEF Surjection
  <2>2. IsFiniteSet(1 .. Len(log))
    BY <1>1, FS_Interval
  <2> HIDE DEF f
  <2> QED
    BY <2>1, <2>2, FS_Surjection
<1>4. \A r, s \in Stored : Key(r) = Key(s) => r = s
  BY <1>1 DEF DbInv, KeysDistinct
<1> QED
  BY <1>2, <1>3, <1>4 DEF Keyed

LEMMA HeldKeyed == MemoryInv => Keyed(M!Held)
  BY RowAssumption DEF MemoryInv, MapInv, M!Held, M!Key, Key, Keyed

\* The instance's copies of these operators are the operators.
LEMMA SameCardinality == \A S : M!Cardinality(S) = Cardinality(S)
  BY DEF M!Cardinality, Cardinality

LEMMA SameKeyOrder == \A S : M!InKeyOrder(S) = InKeyOrder(S)
  BY Zenon DEF M!InKeyOrder, InKeyOrder, M!Before, Before,
               M!Cardinality, Cardinality

\* "All rows with trip_ts_ns in [start, end), chronological": a scan of the
\* in-memory sink returns each of them once, later trips never first.
THEOREM MemoryScanComplete == SinksSpec => []ScanComplete
<1>1. SinksInv => ScanComplete
  <2> SUFFICES ASSUME SinksInv, NEW s \in Instant, NEW e \in Instant, s <= e
               PROVE  LET out == M!RangeOf(M!Held, s, e)
                      IN  /\ {out[i] : i \in DOMAIN out}
                                = {r \in M!Held : r.ts \in s .. e - 1}
                          /\ Len(out) = Cardinality({r \in M!Held : r.ts \in s .. e - 1})
                          /\ \A i, j \in DOMAIN out : i < j => out[i].ts <= out[j].ts
    BY SameCardinality DEF ScanComplete, M!ScanComplete
  <2> DEFINE T == {r \in M!Held : s <= r.ts /\ r.ts < e}
             out == InKeyOrder(T)
  <2>1. s \in Nat /\ e \in Nat /\ Keyed(M!Held)
    BY RowAssumption, HeldKeyed DEF SinksInv
  <2>2. T = {r \in M!Held : r.ts \in s .. e - 1}
    BY <2>1 DEF Keyed
  <2>3. M!RangeOf(M!Held, s, e) = out
    <3>1. M!InKeyOrder(T) = InKeyOrder(T)
      BY SameKeyOrder
    <3> QED
      BY <2>1, <3>1 DEF M!RangeOf, M!Slice
  <2>4. Keyed(T)
    BY <2>1, KeyedSubset
  <2>5. \A r \in T : r.ts \in Nat
    BY <2>4 DEF Keyed
  <2> HIDE DEF T
  <2>6. /\ DOMAIN out = 1 .. Cardinality(T) /\ Len(out) = Cardinality(T)
        /\ \A i \in DOMAIN out : out[i] \in T
        /\ {out[i] : i \in DOMAIN out} = T
        /\ \A i, j \in DOMAIN out : i < j => Before(out[i], out[j])
    BY <2>4, KeyOrderLists
  <2> HIDE DEF out
  <2>7. \A i, j \in DOMAIN out : i < j => out[i].ts <= out[j].ts
    BY <2>5, <2>6 DEF Before
  <2> QED
    BY <2>2, <2>3, <2>6, <2>7
<1> QED
  BY SinksInvAlways, <1>1, PTL

\* "Both backends scan identically", if the rows of the interval are as from_trace
\* makes them; evidence that is no trace fails the database's scan.  Until the
\* process dies they hold the same rows, count the same number of them and
\* answer alike.
THEOREM BothSinksAgree == SinksSpec => []SinksAgree
<1>1. ASSUME SinksInv, NEW s \in Instant, NEW e \in Instant, s <= e
      PROVE  LET inside == {r \in Stored : r.ts \in s .. e - 1}
                 read == {a \in DbRange(s, e) : a.result # "RocksDb"}
             IN  /\ (\A r \in inside : MadeFromTrace(r)) =>
                       read = {Answer("Ok", M!RangeOf(Stored, s, e))}
                 /\ (\E r \in inside : r.evidence \notin Trace) =>
                       read = {Answer("Serde", << >>)}
  <2> DEFINE inside == {r \in Stored : r.ts \in s .. e - 1}
             read == {a \in DbRange(s, e) : a.result # "RocksDb"}
             seen == Visited(s, e)
             rebuilt == [i \in DOMAIN seen |-> FromTrace(seen[i].evidence)]
             parses == \A i \in DOMAIN seen : seen[i].evidence \in Trace
  <2>1. s \in Nat /\ e \in Nat /\ Keyed(Stored)
    BY <1>1, RowAssumption, StoredKeyed DEF SinksInv
  <2>2. inside = {r \in Stored : s <= r.ts /\ r.ts < e}
    BY <2>1 DEF Keyed
  <2>3. M!RangeOf(Stored, s, e) = seen
    <3>1. M!RangeOf(Stored, s, e) = M!Slice(Stored, s, e)
      BY <1>1, <2>1 DEF M!RangeOf
    <3>2. M!Slice(Stored, s, e) = InKeyOrder(inside)
      BY <2>2, SameKeyOrder DEF M!Slice
    <3>3. seen = InKeyOrder(inside)
      BY <2>1, <2>2, ScanIsSlice
    <3> QED
      BY <3>1, <3>2, <3>3
  <2>4. Keyed(inside)
    BY <2>1, KeyedSubset
  <2>5. /\ seen = InKeyOrder(inside)
        /\ \A i \in DOMAIN seen : seen[i] \in inside
        /\ \A r \in inside : \E i \in DOMAIN seen : seen[i] = r
        /\ seen = [i \in DOMAIN seen |-> seen[i]]
    <3>1. seen = InKeyOrder(inside)
      BY <2>1, <2>2, ScanIsSlice
    <3> HIDE DEF inside, seen
    <3>2. seen \in [DOMAIN seen -> inside]
      BY <2>4, <3>1, KeyOrderLists
    <3>3. /\ DOMAIN seen = 1 .. Cardinality(inside)
          /\ \A i \in 1 .. Cardinality(inside) : seen[i] \in inside
          /\ {seen[i] : i \in 1 .. Cardinality(inside)} = inside
      BY <2>4, <3>1, KeyOrderLists
    <3> QED
      BY <3>1, <3>2, <3>3
  <2>6. /\ parses => read = {Answer("Ok", rebuilt)}
        /\ ~parses => read = {Answer("Serde", << >>)}
    <3>1. DbRange(s, e) = {Answer("RocksDb", << >>),
                           IF parses THEN Answer("Ok", rebuilt) ELSE Answer("Serde", << >>)}
      BY DEF DbRange
    <3>2. /\ Answer("RocksDb", << >>).result = "RocksDb"
          /\ Answer("Ok", rebuilt).result = "Ok"
          /\ Answer("Serde", << >>).result = "Serde"
      BY DEF Answer
    <3> HIDE DEF parses, rebuilt
    <3> QED
      BY <3>1, <3>2
  <2>7. (\A r \in inside : MadeFromTrace(r)) => parses /\ rebuilt = seen
    <3> SUFFICES ASSUME \A r \in inside : MadeFromTrace(r)
                 PROVE  parses /\ rebuilt = seen
      OBVIOUS
    <3> HIDE DEF inside, seen
    <3>1. \A i \in DOMAIN seen :
             seen[i].evidence \in Trace /\ FromTrace(seen[i].evidence) = seen[i]
      BY <2>5 DEF MadeFromTrace
    <3> QED
      BY <2>5, <3>1
  <2>8. (\E r \in inside : r.evidence \notin Trace) => ~parses
    <3> HIDE DEF inside, seen
    <3> QED
      BY <2>5
  <2> HIDE DEF inside, read, seen, rebuilt, parses
  <2>9. /\ (\A r \in inside : MadeFromTrace(r)) =>
              read = {Answer("Ok", M!RangeOf(Stored, s, e))}
        /\ (\E r \in inside : r.evidence \notin Trace) =>
              read = {Answer("Serde", << >>)}
    BY <2>3, <2>6, <2>7, <2>8
  <2> QED
    BY <2>9 DEF inside, read
<1>2. ASSUME SinksInv, state = "ready", firstLife
      PROVE  /\ M!Held = Stored
             /\ Cardinality(DOMAIN rows) = count
             /\ answer \in {"Ok", "DuplicateKey"} => memory = answer
  <2>1. M!Held = Stored /\ (answer \in {"Ok", "DuplicateKey"} => memory = answer)
    BY <1>2 DEF SinksInv, TeeInv
  <2>2. count = Cardinality(M!Held)
    BY <1>2, <2>1, RowsCounted DEF SinksInv, DbInv, Types, PutSoFar
  <2> DEFINE byKey == {M!Key(r) : r \in M!Held}
             f == [r \in M!Held |-> M!Key(r)]
  <2>3. DOMAIN rows = byKey
    BY <1>2 DEF SinksInv, MemoryInv, MapInv, M!Held
  <2>4. f \in Bijection(M!Held, DOMAIN rows)
    <3>1. f \in [M!Held -> DOMAIN rows]
      BY <2>3
    <3>2. \A r, q \in M!Held : f[r] = f[q] => r = q
      BY <1>2 DEF SinksInv, MemoryInv, MapInv, M!Held
    <3>3. \A k \in DOMAIN rows : \E r \in M!Held : f[r] = k
      BY <2>3
    <3> QED
      BY <3>1, <3>2, <3>3 DEF Bijection, Injection, Surjection, IsInjective
  <2>5. Cardinality(DOMAIN rows) = Cardinality(M!Held)
    <3>1. IsFiniteSet(M!Held)
      BY <1>2 DEF SinksInv, MemoryInv
    <3> HIDE DEF f
    <3> QED
      BY <2>4, <3>1, FS_Bijection DEF ExistsBijection
  <2> QED
    BY <2>1, <2>2, <2>5
<1>3. SinksInv => SinksAgree
  BY <1>1, <1>2 DEF SinksAgree
<1> QED
  BY SinksInvAlways, <1>3, PTL
=============================================================================
