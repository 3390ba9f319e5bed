--------------------------- MODULE LeastPositions ---------------------------
(* Every non-empty set of numbers has a least one, which stands in for     *)
(* induction, and what follows for the lists that loops build and for sums *)
(* over finite sets.                                                       *)
EXTENDS Grouping, Functions, FiniteSetTheorems, WellFoundedInduction, TLAPS

\* A non-empty set of positions has a least one.
LEMMA LeastPosition ==
  ASSUME NEW M \in SUBSET Nat, M # {}
  PROVE  \E i \in M : \A j \in M : i <= j
<1> DEFINE R == {ss \in Nat \X Nat : ss[1] < ss[2]}
<1>1. R = OpToRel(<, Nat)
  BY Zenon DEF OpToRel
<1>2. IsWellFoundedOn(R, Nat)
  BY <1>1, NatLessThanWellFounded, Zenon
<1> HIDE DEF R
<1>3. \E i \in M : \A j \in M : <<j, i>> \notin R
  BY <1>2, WFMin, Zenon
<1>4. \A i, j \in Nat : j < i => <<j, i>> \in R
  BY DEF R
<1>5. PICK i \in M : \A j \in M : <<j, i>> \notin R
  BY <1>3
<1>6. ASSUME NEW j \in M  PROVE i <= j
  <2>1. ~(j < i)
    BY <1>4, <1>5
  <2> QED
    BY <2>1
<1> QED
  BY <1>6

-----------------------------------------------------------------------------
(* Grouping.                                                               *)

\* One turn of the loop.
Turn(vals, hits, list, k) == IF k \in hits THEN Append(list, vals[k]) ELSE list

\* The loop is well defined ...
LEMMA PushesDefined ==
  ASSUME NEW S, NEW vals \in Seq(S), NEW hits
  PROVE  /\ DOMAIN Pushes(vals, hits) = 0 .. Len(vals)
         /\ Pushes(vals, hits)[0] = << >>
         /\ \A k \in 1 .. Len(vals) :
               Pushes(vals, hits)[k] = Turn(vals, hits, Pushes(vals, hits)[k - 1], k)
<1> DEFINE L == Len(vals)
           Fits(G, b) ==
              G = [k \in 0 .. b |-> IF k = 0 THEN << >>
                                    ELSE IF k \in hits
                                         THEN Append(G[k - 1], vals[k])
                                         ELSE G[k - 1]]
           Missing == {b \in Nat : b <= L /\ ~(\E G : Fits(G, b))}
<1>0. L \in Nat
  OBVIOUS
<1>1. Missing = {}
  <2> SUFFICES ASSUME Missing # {}  PROVE FALSE
    OBVIOUS
  <2>1. Missing \in SUBSET Nat
    OBVIOUS
  <2>2. PICK b \in Missing : \A c \in Missing : b <= c
    <3> HIDE DEF Missing
    <3> QED
      BY <2>1, LeastPosition
  <2>3. b # 0
    <3>1. Fits([k \in 0 .. 0 |-> << >>], 0)
      OBVIOUS
    <3> QED
      BY <3>1, <2>2
  <2>4. b - 1 \in Nat /\ b - 1 <= L /\ b \in Nat
    BY <1>0, <2>2, <2>3
  <2>5. PICK G : Fits(G, b - 1)
    <3>1. b - 1 \notin Missing
      <4>1. ~(b <= b - 1)
        BY <2>4
      <4> HIDE DEF Missing
      <4> QED
        BY <2>2, <4>1
    <3> QED
      BY <3>1, <2>4
  <2> DEFINE H == [k \in 0 .. b |->
                      IF k = b THEN Turn(vals, hits, G[b - 1], b) ELSE G[k]]
  <2>6. DOMAIN G = 0 .. b - 1
    BY <2>5
  <2>7. \A k \in 0 .. b :
           H[k] = IF k = 0 THEN << >>
                  ELSE IF k \in hits THEN Append(H[k - 1], vals[k])
                                       ELSE H[k - 1]
    <3> SUFFICES ASSUME NEW k \in 0 .. b
                 PROVE  H[k] = IF k = 0 THEN << >>
                               ELSE IF k \in hits THEN Append(H[k - 1], vals[k])
                                                    ELSE H[k - 1]
      OBVIOUS
    <3>1. CASE k = b
      <4>1. H[k - 1] = G[b - 1] /\ k # 0
        BY <2>4, <3>1, <2>3
      <4> QED
        BY <3>1, <4>1 DEF Turn
    <3>2. CASE k # b
      <4>1. k \in 0 .. b - 1 /\ (k # 0 => k - 1 \in 0 .. b - 1 /\ k - 1 # b)
        BY <2>4, <3>2
      <4>2. H[k] = G[k] /\ (k # 0 => H[k - 1] = G[k - 1])
        BY <2>4, <3>2, <4>1
      <4>3. G[k] = IF k = 0 THEN << >>
                   ELSE IF k \in hits THEN Append(G[k - 1], vals[k])
                                        ELSE G[k - 1]
        BY <2>5, <4>1
      <4> HIDE DEF H
      <4> QED
        BY <4>2, <4>3
    <3> QED
      BY <3>1, <3>2
  <2>8. DOMAIN H = 0 .. b
    OBVIOUS
  <2>9. Fits(H, b)
    <3>1. H = [k \in 0 .. b |-> H[k]]
      OBVIOUS
    <3> HIDE DEF H
    <3> QED
      BY <2>7, <3>1
  <2> QED
    BY <2>2, <2>9
<1>2. PICK G : Fits(G, L)
  <2>1. L \notin Missing
    BY <1>1
  <2> HIDE DEF Fits
  <2> QED
    BY <1>0, <2>1
<1>3. Pushes(vals, hits) = CHOOSE G1 : Fits(G1, L)
  BY DEF Pushes
<1> DEFINE F == Pushes(vals, hits)
<1>4. Fits(F, L)
  <2> HIDE DEF Fits
  <2> QED
    BY <1>2, <1>3
<1> HIDE DEF F
<1>5. DOMAIN F = 0 .. L
  BY <1>4
<1>6. F[0] = << >>
  BY <1>0, <1>4
<1>7. \A k \in 1 .. L : F[k] = Turn(vals, hits, F[k - 1], k)
  <2> SUFFICES ASSUME NEW k \in 1 .. L
               PROVE  F[k] = Turn(vals, hits, F[k - 1], k)
    OBVIOUS
  <2>1. k \in 0 .. L /\ k # 0
    BY <1>0
  <2>2. F[k] = IF k = 0 THEN << >>
               ELSE IF k \in hits THEN Append(F[k - 1], vals[k]) ELSE F[k - 1]
    BY <1>4, <2>1
  <2> HIDE DEF Fits
  <2> QED
    BY <2>1, <2>2 DEF Turn
<1> QED
  BY <1>5, <1>6, <1>7 DEF F

\* ... and the list of a key holds the values of its turns, and no other.
LEMMA GroupedTyped ==
  ASSUME NEW S, NEW vals \in Seq(S), NEW hits
  PROVE  /\ Grouped(vals, hits) \in Seq(S)
         /\ {Grouped(vals, hits)[k] : k \in DOMAIN Grouped(vals, hits)}
               = {vals[k] : k \in hits \cap DOMAIN vals}
<1> DEFINE F == Pushes(vals, hits)
           L == Len(vals)
           Good(list, b) ==
              /\ list \in Seq(S)
              /\ {list[k] : k \in DOMAIN list} = {vals[k] : k \in hits \cap 1 .. b}
           Bad == {b \in Nat : b <= L /\ ~Good(F[b], b)}
<1>1. F[0] = << >> /\ \A k \in 1 .. L : F[k] = Turn(vals, hits, F[k - 1], k)
  BY PushesDefined
<1>2. L \in Nat /\ DOMAIN vals = 1 .. L
  OBVIOUS
<1> HIDE DEF F
<1>3. ASSUME NEW list, NEW k \in 1 .. L, Good(list, k - 1)
      PROVE  Good(Turn(vals, hits, list, k), k)
  <2>1. vals[k] \in S /\ list \in Seq(S)
    BY <1>3
  <2>2. 1 .. k = (1 .. k - 1) \cup {k}
    BY <1>2
  <2>3. CASE k \in hits
    <3> DEFINE new == Append(list, vals[k])
    <3>1. /\ new \in Seq(S) /\ DOMAIN new = DOMAIN list \cup {Len(list) + 1}
          /\ \A j \in DOMAIN list : new[j] = list[j]
          /\ new[Len(list) + 1] = vals[k]
      BY <2>1
    <3> HIDE DEF new
    <3>2. {new[j] : j \in DOMAIN new} = {list[j] : j \in DOMAIN list} \cup {vals[k]}
      BY <3>1
    <3>3. {vals[j] : j \in hits \cap 1 .. k}
             = {vals[j] : j \in hits \cap 1 .. k - 1} \cup {vals[k]}
      BY <2>2, <2>3
    <3>4. Turn(vals, hits, list, k) = new
      BY <2>3 DEF Turn, new
    <3>5. {new[j] : j \in DOMAIN new} = {vals[j] : j \in hits \cap 1 .. k}
      BY <1>3, <3>2, <3>3
    <3>6. Good(new, k)
      BY <3>1, <3>5
    <3> HIDE DEF Good
    <3> QED
      BY <3>4, <3>6
  <2>4. CASE k \notin hits
    <3>1. hits \cap 1 .. k = hits \cap 1 .. k - 1
      BY <2>2, <2>4
    <3>2. Turn(vals, hits, list, k) = list
      BY <2>4 DEF Turn
    <3> QED
      BY <1>3, <3>1, <3>2
  <2> QED
    BY <2>3, <2>4
<1>4. Bad = {}
  <2> SUFFICES ASSUME Bad # {}  PROVE FALSE
    OBVIOUS
  <2>1. Bad \in SUBSET Nat
    OBVIOUS
  <2>2. PICK b \in Bad : \A c \in Bad : b <= c
    <3> HIDE DEF Bad
    <3> QED
      BY <2>1, LeastPosition
  <2>3. b # 0
    <3>1. Good(<< >>, 0)
      <4>1. 1 .. 0 = {} /\ DOMAIN << >> = {} /\ << >> \in Seq(S)
        OBVIOUS
      <4> QED
        BY <4>1
    <3>2. ~Good(F[b], b)
      BY <2>2
    <3> HIDE DEF Good
    <3> QED
      BY <1>1, <3>1, <3>2
  <2>4. b - 1 \in Nat /\ b - 1 <= L /\ b \in 1 .. L
    BY <1>2, <2>2, <2>3
  <2>5. Good(F[b - 1], b - 1)
    <3>1. ~(b <= b - 1)
      BY <2>4
    <3>2. b - 1 \notin Bad
      <4> HIDE DEF Bad
      <4> QED
        BY <2>2, <3>1
    <3> HIDE DEF Good
    <3> QED
      BY <3>2, <2>4
  <2>6. F[b] = Turn(vals, hits, F[b - 1], b)
    BY <1>1, <2>4
  <2> HIDE DEF Good
  <2>7. Good(F[b], b)
    BY <1>3, <2>4, <2>5, <2>6
  <2> QED
    BY <2>2, <2>7
<1>5. Good(F[L], L)
  <2> HIDE DEF Good
  <2> QED
    BY <1>2, <1>4
<1> QED
  BY <1>2, <1>5 DEF F, Grouped

-----------------------------------------------------------------------------
(* Sums of a function over a finite set: SumFunctionOnSet takes the indices *)
(* in an order of its own.                                                  *)

Pick(s) == CHOOSE y \in s : TRUE

\* The sums of all subsets of S, as MapThenFoldSet computes them.
SumsUpTo(fun, S, G, b) ==
    G = [s \in {t \in SUBSET S : Cardinality(t) <= b} |->
            IF s = {} THEN 0 ELSE fun[Pick(s)] + G[s \ {Pick(s)}]]

SumsOf(fun, S) ==
    CHOOSE G : G = [s \in SUBSET S |->
                       IF s = {} THEN 0 ELSE fun[Pick(s)] + G[s \ {Pick(s)}]]

LEMMA SumUnfolds == \A fun, S : SumFunctionOnSet(fun, S) = SumsOf(fun, S)[S]
  BY Zenon DEF SumFunctionOnSet, FoldFunctionOnSet, MapThenFoldSet, SumsOf, Pick

\* An element less.
LEMMA PickShrinks ==
  ASSUME NEW S, IsFiniteSet(S), NEW s \in SUBSET S, s # {}
  PROVE  /\ Pick(s) \in s /\ s \ {Pick(s)} \in SUBSET S
         /\ Cardinality(s) \in Nat \ {0}
         /\ Cardinality(s \ {Pick(s)}) = Cardinality(s) - 1
<1>1. Pick(s) \in s
  BY DEF Pick
<1>2. IsFiniteSet(s)
  BY FS_Subset
<1>3. Cardinality(s) \in Nat /\ Cardinality(s) # 0
  BY <1>2, FS_CardinalityType, FS_EmptySet
<1> QED
  BY <1>1, <1>2, <1>3, FS_RemoveElement

LEMMA SumsExist ==
  ASSUME NEW fun, NEW S, IsFiniteSet(S), NEW n \in Nat
  PROVE  \E G : SumsUpTo(fun, S, G, n)
<1> DEFINE Missing == {b \in Nat : ~(\E G : SumsUpTo(fun, S, G, b))}
           Up(b) == {t \in SUBSET S : Cardinality(t) <= b}
<1>1. Missing = {}
  <2> SUFFICES ASSUME Missing # {}  PROVE FALSE
    OBVIOUS
  <2>1. PICK b \in Missing : \A c \in Missing : b <= c
    <3>1. Missing \in SUBSET Nat
      OBVIOUS
    <3> HIDE DEF Missing
    <3> QED
      BY <3>1, LeastPosition
  <2>2. b \in Nat /\ ~(\E G : SumsUpTo(fun, S, G, b))
    OBVIOUS
  <2>3. b # 0
    <3> SUFFICES ASSUME b = 0 PROVE FALSE
      OBVIOUS
    <3> DEFINE H == [s \in Up(0) |-> 0]
    <3>1. \A s \in Up(0) : s = {}
      <4> SUFFICES ASSUME NEW s \in SUBSET S, Cardinality(s) <= 0, s # {} PROVE FALSE
        OBVIOUS
      <4>1. Cardinality(s) \in Nat \ {0}
        BY PickShrinks
      <4> QED
        BY <4>1
    <3>2. H = [s \in Up(0) |-> IF s = {} THEN 0 ELSE fun[Pick(s)] + H[s \ {Pick(s)}]]
      BY <3>1
    <3> HIDE DEF H
    <3>3. SumsUpTo(fun, S, H, 0)
      BY <3>2 DEF SumsUpTo
    <3> QED
      BY <2>2, <3>3
  <2>4. b - 1 \in Nat /\ ~(b <= b - 1)
    BY <2>2, <2>3
  <2>5. PICK G : SumsUpTo(fun, S, G, b - 1)
    <3>1. b - 1 \notin Missing
      <4> HIDE DEF Missing
      <4> QED
        BY <2>1, <2>4
    <3> QED
      BY <2>4, <3>1
  <2>6. /\ DOMAIN G = Up(b - 1)
        /\ \A s \in Up(b - 1) :
              G[s] = IF s = {} THEN 0 ELSE fun[Pick(s)] + G[s \ {Pick(s)}]
    BY <2>5 DEF SumsUpTo
  <2> DEFINE H == [s \in Up(b) |-> IF s = {} THEN 0 ELSE fun[Pick(s)] + G[s \ {Pick(s)}]]
  <2>7. \A s \in Up(b - 1) : s \in Up(b) /\ H[s] = G[s]
    <3>1. ASSUME NEW s \in Up(b - 1)  PROVE s \in Up(b)
      <4>1. Cardinality(s) \in Nat
        BY FS_Subset, FS_CardinalityType
      <4> QED
        BY <2>2, <4>1
    <3> HIDE DEF Up
    <3> QED
      BY <2>6, <3>1
  <2>8. \A s \in Up(b) : s # {} => s \ {Pick(s)} \in Up(b - 1)
    <3> SUFFICES ASSUME NEW s \in SUBSET S, Cardinality(s) <= b, s # {}
                 PROVE  s \ {Pick(s)} \in SUBSET S /\ Cardinality(s \ {Pick(s)}) <= b - 1
      OBVIOUS
    <3> QED
      BY <2>2, PickShrinks
  <2>9. H = [s \in Up(b) |-> IF s = {} THEN 0 ELSE fun[Pick(s)] + H[s \ {Pick(s)}]]
    <3>1. \A s \in Up(b) : s # {} => H[s \ {Pick(s)}] = G[s \ {Pick(s)}]
      <4> HIDE DEF H, Up
      <4> QED
        BY <2>7, <2>8
    <3>2. \A s \in Up(b) : H[s] = IF s = {} THEN 0 ELSE fun[Pick(s)] + G[s \ {Pick(s)}]
      <4> HIDE DEF Up
      <4> QED
        OBVIOUS
    <3>3. H = [s \in Up(b) |-> H[s]]
      <4> HIDE DEF Up
      <4> QED
        OBVIOUS
    <3> HIDE DEF H, Up
    <3> QED
      BY <3>1, <3>2, <3>3
  <2>10. SumsUpTo(fun, S, H, b)
    <3> HIDE DEF H
    <3> QED
      BY <2>9 DEF SumsUpTo
  <2> QED
    BY <2>2, <2>10
<1> QED
  BY <1>1

\* The recursion is well founded: SumsOf satisfies it.
LEMMA SumsDefined ==
  ASSUME NEW fun, NEW S, IsFiniteSet(S)
  PROVE  \A s \in SUBSET S :
            SumsOf(fun, S)[s] = IF s = {} THEN 0
                                ELSE fun[Pick(s)] + SumsOf(fun, S)[s \ {Pick(s)}]
<1> DEFINE n == Cardinality(S)
           Def(G) == G = [s \in SUBSET S |->
                             IF s = {} THEN 0 ELSE fun[Pick(s)] + G[s \ {Pick(s)}]]
<1>1. n \in Nat
  BY FS_CardinalityType
<1>2. {t \in SUBSET S : Cardinality(t) <= n} = SUBSET S
  BY FS_Subset
<1>3. PICK G : Def(G)
  <2>1. PICK G : SumsUpTo(fun, S, G, n)
    BY <1>1, SumsExist
  <2>2. Def(G)
    <3> HIDE DEF n
    <3> QED
      BY <1>2, <2>1 DEF SumsUpTo
  <2> QED
    BY <2>2
<1>4. SumsOf(fun, S) = CHOOSE G1 : Def(G1)
  BY DEF SumsOf
<1>5. Def(SumsOf(fun, S))
  <2> HIDE DEF Def
  <2> QED
    BY <1>3, <1>4
<1> DEFINE F == SumsOf(fun, S)
<1>6. F = [s \in SUBSET S |-> IF s = {} THEN 0 ELSE fun[Pick(s)] + F[s \ {Pick(s)}]]
  BY <1>5
<1> HIDE DEF F
<1>7. \A s \in SUBSET S : F[s] = IF s = {} THEN 0 ELSE fun[Pick(s)] + F[s \ {Pick(s)}]
  BY <1>6
<1> QED
  BY <1>7 DEF F

LEMMA SumEmpty == \A fun : SumFunctionOnSet(fun, {}) = 0
<1> SUFFICES ASSUME NEW fun PROVE SumsOf(fun, {})[{}] = 0
  BY SumUnfolds
<1>1. IsFiniteSet({}) /\ {} \in SUBSET {}
  BY FS_EmptySet
<1> QED
  BY <1>1, SumsDefined

\* The sum of a set is part of the sums of every larger one.
LEMMA SumsAgree ==
  ASSUME NEW fun, NEW U, IsFiniteSet(U)
  PROVE  \A S \in SUBSET U : \A t \in SUBSET S :
            SumsOf(fun, S)[t] = SumFunctionOnSet(fun, t)
<1> DEFINE Bad == {b \in Nat : \E S \in SUBSET U : \E t \in SUBSET S :
                      /\ Cardinality(t) = b
                      /\ SumsOf(fun, S)[t] # SumFunctionOnSet(fun, t)}
<1>1. \A S \in SUBSET U : IsFiniteSet(S)
  BY FS_Subset
<1>2. Bad = {}
  <2> SUFFICES ASSUME Bad # {}  PROVE FALSE
    OBVIOUS
  <2>1. PICK b \in Bad : \A c \in Bad : b <= c
    <3>1. Bad \in SUBSET Nat
      OBVIOUS
    <3> HIDE DEF Bad
    <3> QED
      BY <3>1, LeastPosition
  <2>2. PICK S \in SUBSET U : \E t \in SUBSET S :
           Cardinality(t) = b /\ SumsOf(fun, S)[t] # SumFunctionOnSet(fun, t)
    OBVIOUS
  <2>2b. PICK t \in SUBSET S :
           Cardinality(t) = b /\ SumsOf(fun, S)[t] # SumFunctionOnSet(fun, t)
    BY <2>2
  <2>3. IsFiniteSet(S) /\ IsFiniteSet(t) /\ b \in Nat /\ t \in SUBSET t /\ t \in SUBSET U
    BY <1>1, <2>2, <2>2b
  <2>4. SumFunctionOnSet(fun, t) = SumsOf(fun, t)[t]
    BY SumUnfolds
  <2>5. /\ SumsOf(fun, S)[t] = IF t = {} THEN 0
                               ELSE fun[Pick(t)] + SumsOf(fun, S)[t \ {Pick(t)}]
        /\ SumsOf(fun, t)[t] = IF t = {} THEN 0
                               ELSE fun[Pick(t)] + SumsOf(fun, t)[t \ {Pick(t)}]
    <3>1. \A s \in SUBSET S :
             SumsOf(fun, S)[s] = IF s = {} THEN 0
                                 ELSE fun[Pick(s)] + SumsOf(fun, S)[s \ {Pick(s)}]
      BY <2>3, SumsDefined
    <3>2. \A s \in SUBSET t :
             SumsOf(fun, t)[s] = IF s = {} THEN 0
                                 ELSE fun[Pick(s)] + SumsOf(fun, t)[s \ {Pick(s)}]
      BY <2>3, SumsDefined
    <3> QED
      BY <2>3, <3>1, <3>2
  <2>6. t # {}
    BY <2>2b, <2>4, <2>5
  <2> DEFINE r == t \ {Pick(t)}
  <2>7. /\ r \in SUBSET S /\ r \in SUBSET t /\ Cardinality(r) = b - 1
        /\ b - 1 \in Nat /\ ~(b <= b - 1)
    BY <2>2b, <2>3, <2>6, PickShrinks
  <2>8. b - 1 \notin Bad
    <3> HIDE DEF Bad
    <3> QED
      BY <2>1, <2>7
  <2> HIDE DEF r
  <2>9. SumsOf(fun, S)[r] = SumFunctionOnSet(fun, r)
    BY <2>7, <2>8
  <2>10. SumsOf(fun, t)[r] = SumFunctionOnSet(fun, r)
    BY <2>3, <2>7, <2>8
  <2> QED
    BY <2>2b, <2>4, <2>5, <2>6, <2>9, <2>10 DEF r
<1> SUFFICES ASSUME NEW S \in SUBSET U, NEW t \in SUBSET S
             PROVE  SumsOf(fun, S)[t] = SumFunctionOnSet(fun, t)
  OBVIOUS
<1>3. Cardinality(t) \in Nat
  BY <1>1, FS_CardinalityType
<1> QED
  BY <1>2, <1>3

LEMMA OneLess ==
  ASSUME NEW S, IsFiniteSet(S), NEW x \in S
  PROVE  /\ IsFiniteSet(S \ {x}) /\ Cardinality(S) \in Nat \ {0}
         /\ Cardinality(S \ {x}) = Cardinality(S) - 1
<1>1. Cardinality(S) \in Nat /\ Cardinality(S) # 0
  BY FS_CardinalityType, FS_EmptySet
<1> QED
  BY <1>1, FS_RemoveElement

\* Any element of the set may be taken out first, and sums are numbers.
LEMMA SumTakeOut ==
  ASSUME NEW fun, NEW U, IsFiniteSet(U), \A u \in U : fun[u] \in Nat
  PROVE  \A S \in SUBSET U :
            /\ SumFunctionOnSet(fun, S) \in Nat
            /\ \A x \in S : SumFunctionOnSet(fun, S)
                               = fun[x] + SumFunctionOnSet(fun, S \ {x})
<1> DEFINE sum(S) == SumFunctionOnSet(fun, S)
           Good(S) == sum(S) \in Nat /\ \A x \in S : sum(S) = fun[x] + sum(S \ {x})
           Bad == {b \in Nat : \E S \in SUBSET U : Cardinality(S) = b /\ ~Good(S)}
<1>1. \A S \in SUBSET U : IsFiniteSet(S) /\ Cardinality(S) \in Nat
  BY FS_Subset, FS_CardinalityType
<1>2. ASSUME NEW S \in SUBSET U, S # {}
      PROVE  /\ Pick(S) \in S /\ sum(S) = fun[Pick(S)] + sum(S \ {Pick(S)})
  <2>1. S \in SUBSET S /\ IsFiniteSet(S) /\ Pick(S) \in S /\ S \ {Pick(S)} \in SUBSET S
    BY <1>1, <1>2, PickShrinks
  <2>2. sum(S) = SumsOf(fun, S)[S]
    BY SumUnfolds
  <2>3. SumsOf(fun, S)[S] = fun[Pick(S)] + SumsOf(fun, S)[S \ {Pick(S)}]
    BY <1>2, <2>1, SumsDefined
  <2>4. SumsOf(fun, S)[S \ {Pick(S)}] = sum(S \ {Pick(S)})
    BY <2>1, SumsAgree
  <2> QED
    BY <2>1, <2>2, <2>3, <2>4
<1>3. sum({}) = 0
  BY SumEmpty
<1> HIDE DEF sum
<1>4. Bad = {}
  <2> SUFFICES ASSUME Bad # {}  PROVE FALSE
    OBVIOUS
  <2>1. PICK b \in Bad : \A c \in Bad : b <= c
    <3>1. Bad \in SUBSET Nat
      OBVIOUS
    <3> HIDE DEF Bad
    <3> QED
      BY <3>1, LeastPosition
  <2>2. PICK S \in SUBSET U : Cardinality(S) = b /\ ~Good(S)
    OBVIOUS
  <2>3. S # {}
    <3>1. Good({})
      BY <1>3
    <3> HIDE DEF Good
    <3> QED
      BY <2>2, <3>1
  <2>4. \A x \in S : /\ S \ {x} \in SUBSET U /\ Cardinality(S \ {x}) = b - 1
                     /\ fun[x] \in Nat
    <3> SUFFICES ASSUME NEW x \in S
                 PROVE  S \ {x} \in SUBSET U /\ Cardinality(S \ {x}) = b - 1
      OBVIOUS
    <3>1. IsFiniteSet(S) /\ Cardinality(S) = b
      BY <1>1, <2>2
    <3> QED
      BY <3>1, FS_RemoveElement
  <2>5. b - 1 \in Nat /\ ~(b <= b - 1)
    <3>1. IsFiniteSet(S) /\ Cardinality(S) = b
      BY <1>1, <2>2
    <3>2. PICK x : x \in S
      BY <2>3
    <3> HIDE DEF Bad
    <3>3. b \in Nat \ {0}
      BY <3>1, <3>2, OneLess
    <3> QED
      BY <3>3
  <2>6. \A x \in S : Good(S \ {x})
    <3>1. b - 1 \notin Bad
      <4> HIDE DEF Bad
      <4> QED
        BY <2>1, <2>5
    <3> HIDE DEF Good
    <3> QED
      BY <2>4, <2>5, <3>1
  <2> DEFINE p == Pick(S)
  <2>7. p \in S /\ sum(S) = fun[p] + sum(S \ {p}) /\ sum(S) \in Nat
    <3>1. p \in S /\ sum(S) = fun[p] + sum(S \ {p})
      BY <1>2, <2>3
    <3>2. sum(S \ {p}) \in Nat /\ fun[p] \in Nat
      BY <2>4, <2>6, <3>1
    <3> QED
      BY <3>1, <3>2
  <2> HIDE DEF p
  <2>8. ASSUME NEW x \in S  PROVE sum(S) = fun[x] + sum(S \ {x})
    <3>1. CASE x = p
      BY <2>7, <3>1
    <3>2. CASE x # p
      <4> DEFINE both == S \ {x, p}
      <4>1. (S \ {x}) \ {p} = both /\ (S \ {p}) \ {x} = both
        OBVIOUS
      <4>2. x \in S \ {p} /\ p \in S \ {x}
        BY <2>7, <3>2
      <4>3. sum(S \ {p}) = fun[x] + sum(both) /\ sum(S \ {x}) = fun[p] + sum(both)
        <5>1. Good(S \ {p}) /\ Good(S \ {x})
          <6> HIDE DEF Good
          <6> QED
            BY <2>6, <2>7
        <5>2. \A y \in S \ {p} : sum(S \ {p}) = fun[y] + sum((S \ {p}) \ {y})
          BY <5>1
        <5>3. \A y \in S \ {x} : sum(S \ {x}) = fun[y] + sum((S \ {x}) \ {y})
          BY <5>1
        <5> HIDE DEF both, Good
        <5> QED
          BY <4>1, <4>2, <5>2, <5>3
      <4>4. both \in SUBSET U /\ sum(both) \in Nat
        <5>1. sum(S \ {p}) \in Nat /\ fun[x] \in Nat /\ fun[p] \in Nat
          BY <2>4, <2>6, <2>7
        <5>2. both \in SUBSET U /\ Cardinality(both) = b - 2
          <6>1. S \ {p} \in SUBSET U /\ Cardinality(S \ {p}) = b - 1
            BY <2>4, <2>7
          <6>2. Cardinality((S \ {p}) \ {x}) = b - 1 - 1
            <7>1. IsFiniteSet(S \ {p})
              BY <1>1, <6>1
            <7> HIDE DEF Bad, both
            <7> QED
              BY <4>2, <6>1, <7>1, OneLess
          <6> HIDE DEF both
          <6> QED
            BY <2>5, <4>1, <6>1, <6>2
        <5> HIDE DEF both
        <5>3. b - 2 \in Nat /\ ~(b <= b - 2)
          BY <1>1, <2>5, <5>2
        <5>4. b - 2 \notin Bad
          <6> HIDE DEF Bad
          <6> QED
            BY <2>1, <5>3
        <5>5. Good(both)
          <6> HIDE DEF Good
          <6> QED
            BY <5>2, <5>3, <5>4
        <5> QED
          BY <5>2, <5>5
      <4> HIDE DEF both
      <4>5. fun[x] \in Nat /\ fun[p] \in Nat
        BY <2>4, <2>7
      <4> QED
        BY <2>7, <4>3, <4>4, <4>5
    <3> QED
      BY <3>1, <3>2
  <2> QED
    BY <2>2, <2>7, <2>8
<1> SUFFICES ASSUME NEW S \in SUBSET U PROVE Good(S)
  BY DEF sum
<1> QED
  BY <1>1, <1>4

\* Functions that agree on a set have the same sum over it.
LEMMA SumSame ==
  ASSUME NEW f, NEW g, NEW U, IsFiniteSet(U),
         \A u \in U : f[u] \in Nat /\ g[u] = f[u]
  PROVE  SumFunctionOnSet(g, U) = SumFunctionOnSet(f, U)
<1> DEFINE Bad == {b \in Nat : \E S \in SUBSET U :
                      /\ Cardinality(S) = b
                      /\ SumFunctionOnSet(g, S) # SumFunctionOnSet(f, S)}
<1>1. \A S \in SUBSET U : IsFiniteSet(S) /\ Cardinality(S) \in Nat
  BY FS_Subset, FS_CardinalityType
<1>2. Bad = {}
  <2> SUFFICES ASSUME Bad # {}  PROVE FALSE
    OBVIOUS
  <2>1. PICK b \in Bad : \A c \in Bad : b <= c
    <3>1. Bad \in SUBSET Nat
      OBVIOUS
    <3> HIDE DEF Bad
    <3> QED
      BY <3>1, LeastPosition
  <2>2. PICK S \in SUBSET U :
           Cardinality(S) = b /\ SumFunctionOnSet(g, S) # SumFunctionOnSet(f, S)
    OBVIOUS
  <2>3. S # {}
    BY <2>2, SumEmpty
  <2>4. PICK x : x \in S
    BY <2>3
  <2>5. S \ {x} \in SUBSET U /\ Cardinality(S \ {x}) = b - 1 /\ b \in Nat
    BY <1>1, <2>2, <2>4, FS_RemoveElement
  <2>6. b - 1 \in Nat /\ ~(b <= b - 1)
    BY <1>1, <2>5
  <2>7. b - 1 \notin Bad
    <3> HIDE DEF Bad
    <3> QED
      BY <2>1, <2>6
  <2>8. SumFunctionOnSet(g, S \ {x}) = SumFunctionOnSet(f, S \ {x})
    BY <2>5, <2>6, <2>7
  <2>9. SumFunctionOnSet(f, S) = f[x] + SumFunctionOnSet(f, S \ {x})
    BY <2>4, SumTakeOut
  <2>10. SumFunctionOnSet(g, S) = g[x] + SumFunctionOnSet(g, S \ {x})
    <3>1. \A u \in U : g[u] \in Nat
      OBVIOUS
    <3> QED
      BY <2>4, <3>1, SumTakeOut
  <2>11. g[x] = f[x]
    BY <2>2, <2>4
  <2> QED
    BY <2>2, <2>8, <2>9, <2>10, <2>11
<1> QED
  BY <1>1, <1>2

\* One entry of a tally grows by one, or is new and one.
LEMMA SumGrows ==
  ASSUME NEW f, NEW g, NEW x, IsFiniteSet(DOMAIN f),
         \A k \in DOMAIN f : f[k] \in Nat,
         DOMAIN g = DOMAIN f \cup {x},
         g[x] = (IF x \in DOMAIN f THEN f[x] ELSE 0) + 1,
         \A k \in DOMAIN f : k # x => g[k] = f[k]
  PROVE  SumFunction(g) = SumFunction(f) + 1
<1> DEFINE D == DOMAIN f
           rest == D \ {x}
<1>1. /\ SumFunction(f) = SumFunctionOnSet(f, D)
      /\ SumFunction(g) = SumFunctionOnSet(g, D \cup {x})
  BY DEF SumFunction
<1>2. /\ IsFiniteSet(D \cup {x}) /\ IsFiniteSet(rest)
      /\ (D \cup {x}) \ {x} = rest /\ rest \in SUBSET D
  BY FS_AddElement, FS_RemoveElement
<1>3. \A k \in D \cup {x} : g[k] \in Nat
  OBVIOUS
<1> HIDE DEF D, rest
<1>4. SumFunctionOnSet(g, D \cup {x}) = g[x] + SumFunctionOnSet(g, rest)
  BY <1>2, <1>3, SumTakeOut
<1>5. SumFunctionOnSet(g, rest) = SumFunctionOnSet(f, rest)
  <2>1. \A u \in rest : f[u] \in Nat /\ g[u] = f[u]
    BY DEF rest, D
  <2> QED
    BY <1>2, <2>1, SumSame
<1>6. SumFunctionOnSet(f, rest) \in Nat
  <2>1. \A u \in rest : f[u] \in Nat
    BY DEF rest, D
  <2> QED
    BY <1>2, <2>1, SumTakeOut
<1>7. CASE x \in D
  <2>1. SumFunctionOnSet(f, D) = f[x] + SumFunctionOnSet(f, rest)
    <3>1. \A u \in D : f[u] \in Nat
      BY DEF D
    <3>2. IsFiniteSet(D)
      BY DEF D
    <3> QED
      BY <1>7, <3>1, <3>2, SumTakeOut DEF rest
  <2>2. g[x] = f[x] + 1 /\ f[x] \in Nat
    BY <1>7 DEF D
  <2> QED
    BY <1>1, <1>4, <1>5, <1>6, <2>1, <2>2
<1>8. CASE x \notin D
  <2>1. rest = D /\ g[x] = 1
    BY <1>8 DEF rest, D
  <2> QED
    BY <1>1, <1>4, <1>5, <1>6, <2>1
<1> QED
  BY <1>7, <1>8
=============================================================================
