----------------------- MODULE SequentialSkiplistProofs -----------------------
(***************************************************************************)
(* Proofs about SequentialSkiplist: searches are right after every         *)
(* sequence of calls, and a node dangles only after a refused insertion,   *)
(* for any number of levels, nodes and keys.                               *)
(***************************************************************************)
EXTENDS SequentialSkiplist, FiniteSetTheorems, SequenceTheorems, TLAPS

On(i) == ToSet(levels[i])
Low == -1..MaxLevel - 1

\* The rings are in the order of the keys.
Sorted(s, keyOf) == \A j, k \in 1..Len(s) : j < k => keyOf[s[j]].key < keyOf[s[k]].key

TypeInv ==
  /\ Used \subseteq Nodes
  /\ node \in [Used -> [key : Keys, val : Vals]]
  /\ levels \in [Levels -> Seq(Used)]
  /\ level \in Low

\* A node is on all the levels below the ones it is on.
RingsInv ==
  /\ \A i \in Levels : Sorted(levels[i], node)
  /\ \A i, j \in Levels : j <= i => On(i) \subseteq On(j)
  /\ On(0) = Used

\* A walk that starts at list->level misses nothing.
LevelInv == \A i \in Levels : i > level => levels[i] = <<>>

ContentInv ==
  /\ DOMAIN content = {node[n].key : n \in Used}
  /\ \A n \in Used : content[node[n].key] = node[n].val
  /\ IsFiniteSet(DOMAIN content) /\ size = Cardinality(DOMAIN content)

ShapeInv == TypeInv /\ RingsInv /\ LevelInv /\ ContentInv

SeqInv ==
  dangling = {} => IF gone THEN Used = {} ELSE ShapeInv

-----------------------------------------------------------------------------
(* Least and greatest *)

\* From the sets 0..n, which strict inclusion orders.
LEMMA LeastNatural ==
  ASSUME NEW T, T \subseteq Nat, T # {}
  PROVE  \E n \in T : \A m \in T : n <= m
<1> DEFINE R == StrictSubsetOrdering(Nat)
           S == FiniteSubsetsOf(Nat)
           U == {0..k : k \in T}
<1>1. IsWellFoundedOn(R, S)
  BY FS_StrictSubsetOrderingWellFounded
<1>2. U \subseteq S /\ U # {}
  <2>1. ASSUME NEW k \in T PROVE IsFiniteSet(0..k) /\ 0..k \subseteq Nat
    BY FS_Interval
  <2>2. QED
    BY <2>1 DEF FiniteSubsetsOf
<1>3. PICK x \in U : \A y \in U : ~ (<<y, x>> \in R)
  <2> HIDE DEF R, S, U
  <2>1. QED BY <1>1, <1>2, WFMin
<1>4. PICK n \in T : x = 0..n
  OBVIOUS
<1>5. ASSUME NEW m \in T, m < n
      PROVE  FALSE
  <2>1. 0..m \in U
    OBVIOUS
  <2>2. 0..m \subseteq 0..n /\ 0..m # 0..n
    BY <1>5
  <2>3. <<0..m, x>> \in R
    BY <2>2, <1>4 DEF StrictSubsetOrdering
  <2>4. QED
    BY <2>1, <2>3, <1>3
<1>6. QED
  BY <1>5

LEMMA LeastOf ==
  ASSUME NEW T, T \subseteq Nat, T # {}
  PROVE  Min(T) \in T /\ \A n \in T : Min(T) <= n
BY LeastNatural DEF Min

LEMMA GreatestOf ==
  ASSUME NEW b \in Int, NEW T, T \subseteq 0..b, T # {}
  PROVE  Max(T) \in T /\ \A n \in T : n <= Max(T)
<1> DEFINE U == {b - n : n \in T}
<1>1. \A n \in T : n \in Int /\ b - n \in Nat
  OBVIOUS
<1>2. U \subseteq Nat /\ U # {}
  BY <1>1
<1>3. PICK u \in U : \A m \in U : u <= m
  <2> HIDE DEF U
  <2> QED
    BY <1>2, LeastNatural
<1>4. PICK g \in T : u = b - g
  OBVIOUS
<1>5. ASSUME NEW n \in T PROVE g >= n
  <2>1. b - g <= b - n
    BY <1>3, <1>4
  <2>2. b \in Int /\ n \in Int /\ g \in Int
    BY <1>1
  <2> HIDE DEF U
  <2> QED
    BY <2>1, <2>2
<1>6. Max(T) \in T /\ \A n \in T : Max(T) >= n
  BY <1>4, <1>5 DEF Max
<1> QED
  BY <1>1, <1>6

-----------------------------------------------------------------------------
(* Walks *)

LEMMA RingIs ==
  ASSUME ShapeInv, NEW i \in Levels
  PROVE  /\ levels[i] \in Seq(Used) /\ Len(levels[i]) \in Nat
         /\ DOMAIN levels[i] = 1..Len(levels[i])
         /\ \A j \in 1..Len(levels[i]) :
              /\ levels[i][j] \in Used /\ levels[i][j] \in On(i)
              /\ levels[i][j] # HeadNode /\ node[levels[i][j]].key \in Int
         /\ \A n \in On(i) : n \in Used /\ n # HeadNode /\
              \E j \in 1..Len(levels[i]) : levels[i][j] = n
         /\ \A j, k \in 1..Len(levels[i]) :
              j < k => node[levels[i][j]].key < node[levels[i][k]].key
<1>1. levels[i] \in Seq(Used) /\ Len(levels[i]) \in Nat /\ DOMAIN levels[i] = 1..Len(levels[i])
  BY DEF ShapeInv, TypeInv
<1>2. \A n \in Used : n # HeadNode /\ node[n].key \in Int
  BY SequentialAssumption DEF ShapeInv, TypeInv
<1>3. \A j \in 1..Len(levels[i]) : levels[i][j] \in Used /\ levels[i][j] \in On(i)
  BY <1>1 DEF On, ToSet
<1>4. \A n \in On(i) : \E j \in 1..Len(levels[i]) : levels[i][j] = n
  BY <1>1 DEF On, ToSet
<1>5. \A j, k \in 1..Len(levels[i]) :
        j < k => node[levels[i][j]].key < node[levels[i][k]].key
  BY DEF ShapeInv, RingsInv, Sorted
<1> QED
  BY <1>1, <1>2, <1>3, <1>4, <1>5

\* A node is in a ring once.
LEMMA PlaceIs ==
  ASSUME ShapeInv, NEW i \in Levels, NEW j \in 1..Len(levels[i])
  PROVE  Place(levels[i][j], i) = j
<1>1. Place(levels[i][j], i) \in 1..Len(levels[i]) /\ levels[i][Place(levels[i][j], i)] = levels[i][j]
  BY RingIs DEF Place
<1>2. ASSUME NEW k \in 1..Len(levels[i]), levels[i][k] = levels[i][j] PROVE k = j
  <2>1. node[levels[i][j]].key \in Int /\ node[levels[i][k]].key = node[levels[i][j]].key
    BY <1>2, RingIs
  <2>2. ~ (k < j) /\ ~ (j < k)
    BY <2>1, RingIs
  <2> QED
    BY <2>2
<1> QED
  BY <1>1, <1>2

\* p is the head, or a node that comes before key.
Below(p, i, key) == p = HeadNode \/ (p \in On(i) /\ node[p].key < key)

LEMMA StopIs ==
  ASSUME ShapeInv, NEW i \in Levels, NEW key \in Keys, NEW p, Below(p, i, key)
  PROVE  /\ Stop(p, i, key) \in 1..Len(levels[i]) + 1
         /\ \A j \in 1..Stop(p, i, key) - 1 : node[levels[i][j]].key < key
         /\ \A j \in Stop(p, i, key)..Len(levels[i]) : node[levels[i][j]].key >= key
<1> DEFINE s == Stop(p, i, key)
           q == Place(p, i)
           ends == {j \in q + 1..Len(levels[i]) : node[levels[i][j]].key >= key}
           T == ends \cup {Len(levels[i]) + 1}
<1>1. key \in Int /\ Len(levels[i]) \in Nat
  BY RingIs, SequentialAssumption
<1>2. /\ q \in 0..Len(levels[i])
      /\ \A j \in 1..q : node[levels[i][j]].key < key
  <2>1. CASE p = HeadNode
    BY <1>1, <2>1 DEF Place
  <2>2. CASE p # HeadNode
    <3>1. p \in On(i) /\ node[p].key < key
      BY <2>2 DEF Below
    <3>2. PICK j \in 1..Len(levels[i]) : levels[i][j] = p
      BY <3>1, RingIs
    <3>3. q = j
      BY <3>2, PlaceIs
    <3>4. ASSUME NEW k \in 1..j PROVE node[levels[i][k]].key < key
      <4>1. k \in 1..Len(levels[i]) /\ (k = j \/ k < j)
        BY <1>1
      <4>2. node[levels[i][k]].key \in Int /\ node[levels[i][j]].key \in Int
        BY <4>1, RingIs
      <4>3. k < j => node[levels[i][k]].key < node[levels[i][j]].key
        BY <4>1, RingIs
      <4> QED
        BY <1>1, <3>1, <3>2, <4>1, <4>2, <4>3
    <3> QED
      BY <1>1, <3>3, <3>4
  <2> QED
    BY <2>1, <2>2
<1> HIDE DEF q
<1>3. s = Min(T)
  BY DEF Stop, q
<1>4. T \subseteq Nat /\ T # {}
  BY <1>1, <1>2
<1>5. s \in T /\ \A j \in T : s <= j
  <2> HIDE DEF s, T
  <2> QED
    BY <1>3, <1>4, LeastOf
<1> HIDE DEF s
<1>6. s \in q + 1..Len(levels[i]) + 1
  BY <1>1, <1>2, <1>5
<1>7. ASSUME NEW j \in 1..s - 1 PROVE node[levels[i][j]].key < key
  <2>1. j \in 1..Len(levels[i])
    BY <1>1, <1>2, <1>6
  <2>2. node[levels[i][j]].key \in Int
    BY <2>1, RingIs
  <2>3. CASE j <= q
    <3>1. j \in 1..q
      BY <1>2, <2>3
    <3> QED
      BY <1>2, <3>1
  <2>4. CASE j > q
    <3>1. j \in q + 1..Len(levels[i])
      BY <1>2, <2>1, <2>4
    <3>2. j \notin T
      BY <1>1, <1>2, <1>5, <1>6
    <3> QED
      BY <1>1, <2>2, <3>1, <3>2
  <2> QED
    BY <1>2, <2>3, <2>4
<1>8. ASSUME NEW j \in s..Len(levels[i]) PROVE node[levels[i][j]].key >= key
  <2>1. s \in 1..Len(levels[i]) /\ j \in 1..Len(levels[i]) /\ (j = s \/ s < j)
    BY <1>1, <1>2, <1>6
  <2>2. node[levels[i][s]].key >= key
    BY <1>1, <1>5, <2>1
  <2>3. node[levels[i][s]].key \in Int /\ node[levels[i][j]].key \in Int
    BY <2>1, RingIs
  <2>4. s < j => node[levels[i][s]].key < node[levels[i][j]].key
    BY <2>1, RingIs
  <2> QED
    BY <1>1, <2>1, <2>2, <2>3, <2>4
<1> QED
  BY <1>1, <1>2, <1>6, <1>7, <1>8 DEF s

\* Where a walk stops does not depend on where it comes in.
First(i, key) == Stop(HeadNode, i, key)
Left(i, key) == Pred(HeadNode, i, key)

LEMMA StopSame ==
  ASSUME ShapeInv, NEW i \in Levels, NEW key \in Keys, NEW p, Below(p, i, key)
  PROVE  Stop(p, i, key) = First(i, key) /\ Pred(p, i, key) = Left(i, key)
<1> DEFINE s == Stop(p, i, key)
           t == Stop(HeadNode, i, key)
           len == Len(levels[i])
<1>1. /\ s \in 1..len + 1
      /\ \A j \in 1..s - 1 : node[levels[i][j]].key < key
      /\ \A j \in s..len : node[levels[i][j]].key >= key
  BY StopIs
<1>2. /\ t \in 1..len + 1
      /\ \A j \in 1..t - 1 : node[levels[i][j]].key < key
      /\ \A j \in t..len : node[levels[i][j]].key >= key
  <2>1. Below(HeadNode, i, key)
    BY DEF Below
  <2> QED
    BY <2>1, StopIs
<1>3. key \in Int /\ len \in Nat
  BY RingIs, SequentialAssumption
<1>4. \A j \in 1..len : node[levels[i][j]].key \in Int
  BY RingIs
<1> HIDE DEF s, t, len
<1>5. ~ (s < t)
  <2>1. SUFFICES ASSUME s < t PROVE FALSE
    OBVIOUS
  <2>2. s \in 1..t - 1 /\ s \in s..len /\ s \in 1..len
    BY <1>1, <1>2, <1>3, <2>1
  <2> QED
    BY <1>1, <1>2, <1>3, <1>4, <2>2
<1>6. ~ (t < s)
  <2>1. SUFFICES ASSUME t < s PROVE FALSE
    OBVIOUS
  <2>2. t \in 1..s - 1 /\ t \in t..len /\ t \in 1..len
    BY <1>1, <1>2, <1>3, <2>1
  <2> QED
    BY <1>1, <1>2, <1>3, <1>4, <2>2
<1>7. s = t
  BY <1>1, <1>2, <1>3, <1>5, <1>6
<1> QED
  BY <1>7 DEF s, t, First, Left, Pred

\* What a walk leaves a level at is a place to go on from one level below.
LEMMA LeftIs ==
  ASSUME ShapeInv, NEW i \in Levels, NEW key \in Keys
  PROVE  /\ Place(Left(i, key), i) = First(i, key) - 1
         /\ \A j \in Levels : j <= i => Below(Left(i, key), j, key)
<1>1. /\ First(i, key) \in 1..Len(levels[i]) + 1
      /\ \A j \in 1..First(i, key) - 1 : node[levels[i][j]].key < key
  <2>1. Below(HeadNode, i, key)
    BY DEF Below
  <2> QED
    BY <2>1, StopIs DEF First
<1>2. CASE First(i, key) = 1
  BY <1>2 DEF Left, First, Pred, Place, Below
<1>3. CASE First(i, key) # 1
  <2> DEFINE k == First(i, key) - 1
  <2>1. k \in 1..Len(levels[i]) /\ k \in 1..First(i, key) - 1
    BY <1>1, <1>3, RingIs
  <2>2. Left(i, key) = levels[i][k]
    BY <1>3 DEF Left, First, Pred
  <2>3. Place(levels[i][k], i) = k
    BY <2>1, PlaceIs
  <2>4. node[levels[i][k]].key < key /\ levels[i][k] \in On(i)
    BY <1>1, <2>1, RingIs
  <2>5. \A j \in Levels : j <= i => levels[i][k] \in On(j)
    BY <2>4 DEF ShapeInv, RingsInv
  <2> HIDE DEF k
  <2> QED
    BY <2>2, <2>3, <2>4, <2>5 DEF k, Below
<1> QED
  BY <1>2, <1>3

LEMMA EntryIs ==
  ASSUME ShapeInv, NEW top \in Levels, NEW key \in Keys, NEW i \in 0..top
  PROVE  /\ Below(Entry(top, key)[i], i, key)
         /\ Stop(Entry(top, key)[i], i, key) = First(i, key)
         /\ Pred(Entry(top, key)[i], i, key) = Left(i, key)
<1> DEFINE g == [l \in 0..top |-> IF l = top THEN HeadNode ELSE Left(l + 1, key)]
           Is(f) == f = [l \in 0..top |->
                           IF l = top THEN HeadNode ELSE Pred(f[l + 1], l + 1, key)]
           f == CHOOSE h : Is(h)
<1>1. top \in Nat /\ \A l \in 0..top : l \in Levels /\ l \in Nat
  BY SequentialAssumption DEF Levels
<1>2. \A l \in 0..top : l # top => l + 1 \in 0..top /\ l + 1 \in Levels
  BY <1>1
<1>3. ASSUME NEW l \in 0..top PROVE Below(g[l], l, key)
  <2>1. CASE l = top
    BY <2>1 DEF Below
  <2>2. CASE l # top
    BY <1>1, <1>2, <2>2, LeftIs
  <2> QED
    BY <2>1, <2>2
<1>4. \A l \in 0..top : l # top => Pred(g[l + 1], l + 1, key) = Left(l + 1, key)
  BY <1>2, <1>3, StopSame
<1>5. Is(g)
  BY <1>4
<1>6. Is(f)
  <2> HIDE DEF g, Is
  <2> QED
    BY <1>5
<1>7. Entry(top, key) = f
  BY DEF Entry
<1> DEFINE Wrong == {l \in 0..top : f[l] # g[l]}
<1> HIDE DEF f
<1>8. Wrong = {}
  <2>1. SUFFICES ASSUME Wrong # {} PROVE FALSE
    OBVIOUS
  <2>2. PICK l \in Wrong : \A k \in Wrong : k <= l
    <3>1. Wrong \subseteq 0..top /\ top \in Int
      BY <1>1
    <3> HIDE DEF Wrong
    <3> QED
      BY <2>1, <3>1, GreatestOf
  <2>3. l \in 0..top /\ f[l] # g[l] /\ l \in Nat
    BY <1>1
  <2>4. l # top
    BY <1>6, <2>3
  <2>5. l + 1 \in 0..top /\ ~ (l + 1 <= l)
    BY <1>2, <2>3, <2>4
  <2>6. f[l + 1] = g[l + 1]
    BY <2>2, <2>5
  <2> QED
    BY <1>4, <1>6, <2>3, <2>4, <2>6
<1>9. Entry(top, key)[i] = g[i] /\ i \in Levels
  BY <1>1, <1>7, <1>8
<1> HIDE DEF g
<1> QED
  BY <1>3, <1>9, StopSame

\* A walk meets the key on level i exactly when a node on that level has it.
Has(i, key) == \E n \in On(i) : node[n].key = key

LEMMA HitIs ==
  ASSUME ShapeInv, NEW i \in Levels, NEW key \in Keys
  PROVE  /\ Hit(HeadNode, i, key) <=> Has(i, key)
         /\ Has(i, key) => /\ First(i, key) \in 1..Len(levels[i])
                           /\ node[levels[i][First(i, key)]].key = key
<1> DEFINE s == First(i, key)
           len == Len(levels[i])
<1>1. /\ s \in 1..len + 1
      /\ \A j \in 1..s - 1 : node[levels[i][j]].key < key
      /\ \A j \in s..len : node[levels[i][j]].key >= key
  <2>1. Below(HeadNode, i, key)
    BY DEF Below
  <2> QED
    BY <2>1, StopIs DEF First
<1>2. key \in Int /\ len \in Nat
  BY RingIs, SequentialAssumption
<1>3. Hit(HeadNode, i, key) <=> s <= len /\ node[levels[i][s]].key = key
  BY DEF Hit, First
<1> HIDE DEF s, len
<1>4. ASSUME s <= len /\ node[levels[i][s]].key = key PROVE Has(i, key)
  <2>1. s \in 1..len
    BY <1>1, <1>2, <1>4
  <2> QED
    BY <1>4, <2>1, RingIs DEF Has, len
<1>5. ASSUME Has(i, key) PROVE s \in 1..len /\ node[levels[i][s]].key = key
  <2>1. PICK j \in 1..len : node[levels[i][j]].key = key
    BY <1>5, RingIs DEF Has, len
  <2>2. ~ (j \in 1..s - 1)
    BY <1>1, <1>2, <2>1
  <2>3. s \in 1..len /\ (s = j \/ s < j)
    BY <1>1, <1>2, <2>2
  <2>4. node[levels[i][s]].key >= key /\ node[levels[i][s]].key \in Int
    BY <1>1, <1>2, <2>3, RingIs DEF len
  <2>5. s < j => node[levels[i][s]].key < node[levels[i][j]].key
    BY <2>3, RingIs DEF len
  <2> QED
    BY <1>2, <2>1, <2>3, <2>4, <2>5
<1> QED
  BY <1>2, <1>3, <1>4, <1>5 DEF s, len

LEMMA MeetsIs ==
  ASSUME ShapeInv, NEW top \in Levels, NEW key \in Keys
  PROVE  LET m == Meets(top, key)
             n == Met(top, key)
         IN  /\ m \in -1..top
             /\ \A i \in m + 1..top : ~ Has(i, key)
             /\ m >= 0 => /\ m \in Levels /\ n \in On(m) /\ n \in Used
                          /\ node[n].key = key /\ n = levels[m][First(m, key)]
<1> DEFINE met == {i \in 0..top : Hit(Entry(top, key)[i], i, key)}
           m == Meets(top, key)
<1>1. top \in Nat /\ top \in Int /\ \A i \in 0..top : i \in Levels /\ i \in Nat
  BY SequentialAssumption DEF Levels
<1>2. ASSUME NEW i \in 0..top PROVE i \in met <=> Has(i, key)
  <2>1. Stop(Entry(top, key)[i], i, key) = Stop(HeadNode, i, key)
    BY EntryIs DEF First
  <2>2. Hit(Entry(top, key)[i], i, key) <=> Hit(HeadNode, i, key)
    BY <2>1 DEF Hit
  <2> QED
    BY <1>1, <2>2, HitIs
<1>3. m = IF met = {} THEN -1 ELSE Max(met)
  BY DEF Meets
<1>4. met \subseteq 0..top
  OBVIOUS
<1> HIDE DEF met, m
<1>5. CASE met = {}
  <2>1. m = -1
    BY <1>3, <1>5
  <2>2. \A i \in 0..top : ~ Has(i, key)
    BY <1>2, <1>5
  <2>3. m \in -1..top /\ m + 1 = 0 /\ ~ (m >= 0)
    BY <1>1, <2>1
  <2> QED
    BY <2>2, <2>3 DEF m
<1>6. CASE met # {}
  <2>1. m \in met /\ \A i \in met : i <= m
    BY <1>1, <1>3, <1>4, <1>6, GreatestOf
  <2>2. m \in 0..top /\ m \in Levels /\ Has(m, key)
    BY <1>1, <1>2, <1>4, <2>1
  <2>3. ASSUME NEW i \in m + 1..top PROVE ~ Has(i, key)
    <3>1. i \in 0..top /\ ~ (i <= m)
      BY <1>1, <2>2
    <3> QED
      BY <1>2, <2>1, <3>1
  <2>4. Met(top, key) = levels[m][First(m, key)]
    BY <2>2, EntryIs DEF Met, m
  <2>5. Met(top, key) \in On(m) /\ Met(top, key) \in Used /\ node[Met(top, key)].key = key
    BY <2>2, <2>4, HitIs, RingIs
  <2> QED
    BY <1>1, <2>2, <2>3, <2>4, <2>5 DEF m
<1> QED
  BY <1>5, <1>6

\* No two nodes have the same key.
LEMMA OneNodeAKey ==
  ASSUME ShapeInv, NEW n \in Used, NEW o \in Used, node[n].key = node[o].key
  PROVE  n = o
<1>1. 0 \in Levels /\ n \in On(0) /\ o \in On(0)
  BY SequentialAssumption DEF ShapeInv, RingsInv, Levels
<1>2. PICK j \in 1..Len(levels[0]) : levels[0][j] = n
  BY <1>1, RingIs
<1>3. PICK k \in 1..Len(levels[0]) : levels[0][k] = o
  BY <1>1, RingIs
<1>4. /\ node[n].key \in Int
      /\ j < k => node[levels[0][j]].key < node[levels[0][k]].key
      /\ k < j => node[levels[0][k]].key < node[levels[0][j]].key
  <2>1. node[levels[0][j]].key \in Int
    BY <1>1, RingIs
  <2> QED
    BY <1>1, <1>2, <2>1, RingIs
<1>5. ~ (j < k) /\ ~ (k < j)
  BY <1>2, <1>3, <1>4
<1> QED
  BY <1>2, <1>3, <1>5

LEMMA SearchOfShape ==
  ASSUME ShapeInv, NEW key \in Keys
  PROVE  Search(key) = IF key \in DOMAIN content THEN content[key] ELSE Null
<1> DEFINE m == Meets(level, key)
<1>1. 0 \in Levels /\ On(0) = Used
  BY SequentialAssumption DEF ShapeInv, RingsInv, Levels
<1>2. Has(0, key) <=> key \in DOMAIN content
  BY <1>1 DEF ShapeInv, ContentInv, Has
<1>3. CASE level \in Levels
  <2>1. /\ m \in -1..level
        /\ \A i \in m + 1..level : ~ Has(i, key)
        /\ m >= 0 => Met(level, key) \in Used /\ node[Met(level, key)].key = key
    BY <1>3, MeetsIs
  <2>2. Search(key) = IF m < 0 THEN Null ELSE node[Met(level, key)].val
    BY DEF Search
  <2>3. level \in Nat
    BY <1>3 DEF Levels
  <2> HIDE DEF m
  <2>4. CASE m < 0
    <3>1. 0 \in m + 1..level
      BY <2>1, <2>3, <2>4
    <3> QED
      BY <1>2, <2>1, <2>2, <2>4, <3>1
  <2>5. CASE ~ (m < 0)
    <3>1. Met(level, key) \in Used /\ node[Met(level, key)].key = key
      BY <2>1, <2>3, <2>5
    <3> QED
      BY <2>2, <2>5, <3>1 DEF ShapeInv, ContentInv
  <2> QED
    BY <2>4, <2>5
<1>4. CASE level \notin Levels
  <2>1. level = -1
    BY <1>4, SequentialAssumption DEF ShapeInv, TypeInv, Low, Levels
  <2>2. levels[0] = <<>>
    BY <1>1, <2>1 DEF ShapeInv, LevelInv
  <2>3. On(0) = {}
    BY <2>2 DEF On, ToSet
  <2>4. m = -1
    <3>1. {i \in 0..level : Hit(Entry(level, key)[i], i, key)} = {}
      BY <2>1
    <3> QED
      BY <3>1 DEF Meets
  <2>5. key \notin DOMAIN content
    BY <1>2, <2>3 DEF Has
  <2> HIDE DEF m
  <2> QED
    BY <2>4, <2>5 DEF Search, m
<1> QED
  BY <1>3, <1>4

-----------------------------------------------------------------------------
(* What linking and unlinking make of a ring *)

LEMMA InsertAtIs ==
  ASSUME NEW s \in Seq(Nodes), NEW e \in Nodes, NEW i \in 1..Len(s) + 1
  PROVE  /\ InsertAt(s, i, e) \in Seq(Nodes)
         /\ Len(InsertAt(s, i, e)) = Len(s) + 1
         /\ \A j \in 1..i - 1 : InsertAt(s, i, e)[j] = s[j]
         /\ InsertAt(s, i, e)[i] = e
         /\ \A j \in i + 1..Len(s) + 1 : InsertAt(s, i, e)[j] = s[j - 1]
<1> DEFINE a == SubSeq(s, 1, i - 1)
           b == SubSeq(s, i, Len(s))
           c == a \o <<e>>
           d == c \o b
<1>1. Len(s) \in Nat /\ i \in Nat /\ i >= 1 /\ i <= Len(s) + 1
  OBVIOUS
<1>2. a \in Seq(Nodes) /\ Len(a) = i - 1 /\ \A j \in 1..i - 1 : a[j] = s[j]
  BY <1>1
<1>3. b \in Seq(Nodes) /\ Len(b) = Len(s) - i + 1 /\ \A j \in 1..Len(s) - i + 1 : b[j] = s[i + j - 1]
  BY <1>1
<1>4. <<e>> \in Seq(Nodes) /\ Len(<<e>>) = 1 /\ <<e>>[1] = e
  OBVIOUS
<1>5. InsertAt(s, i, e) = d
  BY DEF InsertAt
<1>6. /\ c \in Seq(Nodes) /\ Len(c) = Len(a) + Len(<<e>>)
      /\ \A j \in 1..Len(a) + Len(<<e>>) : c[j] = IF j <= Len(a) THEN a[j] ELSE <<e>>[j - Len(a)]
  <2> HIDE DEF a
  <2> QED
    BY <1>2, <1>4, ConcatProperties
<1>7. Len(c) = i /\ c[i] = e /\ \A j \in 1..i - 1 : c[j] = s[j]
  <2> HIDE DEF a, c
  <2>1. Len(c) = i
    BY <1>1, <1>2, <1>4, <1>6
  <2>2. c[i] = e
    <3>1. i \in 1..Len(a) + Len(<<e>>) /\ ~ (i <= Len(a)) /\ i - Len(a) = 1
      BY <1>1, <1>2, <1>4
    <3> QED
      BY <1>4, <1>6, <3>1
  <2>3. ASSUME NEW j \in 1..i - 1 PROVE c[j] = s[j]
    <3>1. j \in 1..Len(a) + Len(<<e>>) /\ j <= Len(a)
      BY <1>1, <1>2, <1>4
    <3> QED
      BY <1>2, <1>6, <3>1
  <2> QED
    BY <2>1, <2>2, <2>3
<1>8. /\ d \in Seq(Nodes) /\ Len(d) = Len(c) + Len(b)
      /\ \A j \in 1..Len(c) + Len(b) : d[j] = IF j <= Len(c) THEN c[j] ELSE b[j - Len(c)]
  <2>1. c \in Seq(Nodes) /\ b \in Seq(Nodes)
    BY <1>3, <1>6
  <2> HIDE DEF a, b, c
  <2> QED
    BY <2>1, ConcatProperties
<1> HIDE DEF a, b, c, d
<1>9. Len(d) = Len(s) + 1
  BY <1>1, <1>3, <1>7, <1>8
<1>10. ASSUME NEW j \in 1..i PROVE d[j] = c[j]
  <2>1. j \in 1..Len(c) + Len(b) /\ j <= Len(c)
    BY <1>1, <1>3, <1>7
  <2> QED
    BY <1>8, <2>1
<1>11. ASSUME NEW j \in i + 1..Len(s) + 1 PROVE d[j] = s[j - 1]
  <2>1. j \in 1..Len(c) + Len(b) /\ ~ (j <= Len(c)) /\ j - Len(c) = j - i
    BY <1>1, <1>3, <1>7
  <2>2. j - i \in 1..Len(s) - i + 1 /\ i + (j - i) - 1 = j - 1
    BY <1>1
  <2>3. b[j - i] = s[j - 1]
    BY <1>3, <2>2
  <2> QED
    BY <1>8, <2>1, <2>3
<1>12. i \in 1..i /\ \A j \in 1..i - 1 : j \in 1..i
  BY <1>1
<1> QED
  BY <1>5, <1>7, <1>8, <1>9, <1>10, <1>11, <1>12

LEMMA RemoveAtIs ==
  ASSUME NEW s \in Seq(Nodes), NEW i \in 1..Len(s)
  PROVE  /\ RemoveAt(s, i) \in Seq(Nodes)
         /\ Len(RemoveAt(s, i)) = Len(s) - 1
         /\ \A j \in 1..i - 1 : RemoveAt(s, i)[j] = s[j]
         /\ \A j \in i..Len(s) - 1 : RemoveAt(s, i)[j] = s[j + 1]
<1> DEFINE a == SubSeq(s, 1, i - 1)
           b == SubSeq(s, i + 1, Len(s))
           c == a \o b
<1>1. Len(s) \in Nat /\ i \in Nat /\ i >= 1 /\ i <= Len(s)
  OBVIOUS
<1>2. a \in Seq(Nodes) /\ Len(a) = i - 1 /\ \A j \in 1..i - 1 : a[j] = s[j]
  BY <1>1
<1>3. b \in Seq(Nodes) /\ Len(b) = Len(s) - i /\ \A j \in 1..Len(s) - i : b[j] = s[i + j]
  BY <1>1
<1>4. RemoveAt(s, i) = c
  BY DEF RemoveAt
<1>5. /\ c \in Seq(Nodes) /\ Len(c) = Len(a) + Len(b)
      /\ \A j \in 1..Len(a) + Len(b) : c[j] = IF j <= Len(a) THEN a[j] ELSE b[j - Len(a)]
  <2> HIDE DEF a, b
  <2> QED
    BY <1>2, <1>3, ConcatProperties
<1> HIDE DEF a, b, c
<1>6. Len(c) = Len(s) - 1
  BY <1>1, <1>2, <1>3, <1>5
<1>7. ASSUME NEW j \in 1..i - 1 PROVE c[j] = s[j]
  <2>1. j \in 1..Len(a) + Len(b) /\ j <= Len(a)
    BY <1>1, <1>2, <1>3
  <2> QED
    BY <1>2, <1>5, <2>1
<1>8. ASSUME NEW j \in i..Len(s) - 1 PROVE c[j] = s[j + 1]
  <2>1. j \in 1..Len(a) + Len(b) /\ ~ (j <= Len(a)) /\ j - Len(a) = j - (i - 1)
    BY <1>1, <1>2, <1>3
  <2>2. j - (i - 1) \in 1..Len(s) - i /\ i + (j - (i - 1)) = j + 1
    BY <1>1
  <2>3. b[j - (i - 1)] = s[j + 1]
    BY <1>3, <2>2
  <2> QED
    BY <1>5, <2>1, <2>3
<1> QED
  BY <1>4, <1>5, <1>6, <1>7, <1>8

\* A node put into a ring before the first key above its own.
LEMMA InsertInOrder ==
  ASSUME NEW s \in Seq(Nodes), NEW e \in Nodes, NEW i \in 1..Len(s) + 1, NEW keyOf,
         \A n \in ToSet(s) \cup {e} : keyOf[n].key \in Int,
         Sorted(s, keyOf),
         \A j \in 1..i - 1 : keyOf[s[j]].key < keyOf[e].key,
         \A j \in i..Len(s) : keyOf[e].key < keyOf[s[j]].key
  PROVE  /\ InsertAt(s, i, e) \in Seq(Nodes) /\ ToSet(InsertAt(s, i, e)) = ToSet(s) \cup {e}
         /\ Sorted(InsertAt(s, i, e), keyOf)
<1> DEFINE t == InsertAt(s, i, e)
           from(j) == IF j < i THEN j ELSE j - 1
           to(j) == IF j < i THEN j ELSE j + 1
<1>1. /\ t \in Seq(Nodes) /\ Len(t) = Len(s) + 1
      /\ \A j \in 1..i - 1 : t[j] = s[j]
      /\ t[i] = e
      /\ \A j \in i + 1..Len(s) + 1 : t[j] = s[j - 1]
  <2>1. ASSUME NEW q \in Seq(Nodes), NEW k \in 1..Len(q) + 1
        PROVE  /\ InsertAt(q, k, e) \in Seq(Nodes) /\ Len(InsertAt(q, k, e)) = Len(q) + 1
               /\ \A j \in 1..k - 1 : InsertAt(q, k, e)[j] = q[j]
               /\ InsertAt(q, k, e)[k] = e
               /\ \A j \in k + 1..Len(q) + 1 : InsertAt(q, k, e)[j] = q[j - 1]
    BY InsertAtIs
  <2> QED
    BY <2>1
<1> HIDE DEF t
<1>2. Len(s) \in Nat /\ i \in Nat /\ 1 <= i /\ i <= Len(s) + 1
  OBVIOUS
<1>3. ASSUME NEW j \in 1..Len(s) + 1, j # i
      PROVE  t[j] = s[from(j)] /\ from(j) \in 1..Len(s)
  BY <1>1, <1>2, <1>3
<1>4. ASSUME NEW j \in 1..Len(s)
      PROVE  t[to(j)] = s[j] /\ to(j) \in 1..Len(s) + 1
  <2>1. CASE j < i
    BY <1>1, <1>2, <2>1
  <2>2. CASE ~ (j < i)
    <3>1. j + 1 \in i + 1..Len(s) + 1 /\ (j + 1) - 1 = j /\ to(j) = j + 1
      BY <1>2, <2>2
    <3> QED
      BY <1>1, <1>2, <3>1
  <2> QED
    BY <2>1, <2>2
<1>5. ToSet(s) = {s[j] : j \in 1..Len(s)} /\ ToSet(t) = {t[j] : j \in 1..Len(s) + 1}
  BY <1>1 DEF ToSet
<1>6. ToSet(t) \subseteq ToSet(s) \cup {e}
  <2>1. ASSUME NEW j \in 1..Len(s) + 1 PROVE t[j] \in ToSet(s) \cup {e}
    <3> HIDE DEF from
    <3>1. CASE j = i
      BY <1>1, <3>1
    <3>2. CASE j # i
      BY <1>3, <1>5, <3>2
    <3> QED
      BY <3>1, <3>2
  <2> QED
    BY <1>5, <2>1
<1>7. ToSet(s) \cup {e} \subseteq ToSet(t)
  <2>1. i \in 1..Len(s) + 1
    OBVIOUS
  <2> HIDE DEF to
  <2> QED
    BY <1>1, <1>4, <1>5, <2>1
<1>8. ASSUME NEW j \in 1..Len(s) + 1, NEW k \in 1..Len(s) + 1, j < k
      PROVE  keyOf[t[j]].key < keyOf[t[k]].key
  <2>1. CASE j # i /\ k # i
    <3>1. from(j) < from(k)
      BY <1>2, <1>8, <2>1
    <3>2. /\ t[j] = s[from(j)] /\ from(j) \in 1..Len(s)
          /\ t[k] = s[from(k)] /\ from(k) \in 1..Len(s)
      BY <1>3, <2>1
    <3> HIDE DEF from
    <3> QED
      BY <3>1, <3>2 DEF Sorted
  <2>2. CASE k = i
    <3>1. j \in 1..i - 1
      BY <1>2, <1>8, <2>2
    <3> QED
      BY <1>1, <2>2, <3>1
  <2>3. CASE j = i
    <3>1. k \in i + 1..Len(s) + 1 /\ k - 1 \in i..Len(s)
      BY <1>2, <1>8, <2>3
    <3> QED
      BY <1>1, <2>3, <3>1
  <2> QED
    BY <2>1, <2>2, <2>3
<1>9. Sorted(t, keyOf)
  BY <1>1, <1>8 DEF Sorted
<1> QED
  BY <1>1, <1>6, <1>7, <1>9 DEF t

LEMMA RemoveInOrder ==
  ASSUME NEW s \in Seq(Nodes), NEW i \in 1..Len(s), NEW keyOf,
         \A n \in ToSet(s) : keyOf[n].key \in Int,
         Sorted(s, keyOf)
  PROVE  /\ RemoveAt(s, i) \in Seq(Nodes) /\ ToSet(RemoveAt(s, i)) = ToSet(s) \ {s[i]}
         /\ Sorted(RemoveAt(s, i), keyOf)
<1> DEFINE t == RemoveAt(s, i)
           from(j) == IF j < i THEN j ELSE j + 1
           to(j) == IF j < i THEN j ELSE j - 1
<1>1. /\ t \in Seq(Nodes) /\ Len(t) = Len(s) - 1
      /\ \A j \in 1..i - 1 : t[j] = s[j]
      /\ \A j \in i..Len(s) - 1 : t[j] = s[j + 1]
  <2>1. ASSUME NEW q \in Seq(Nodes), NEW k \in 1..Len(q)
        PROVE  /\ RemoveAt(q, k) \in Seq(Nodes) /\ Len(RemoveAt(q, k)) = Len(q) - 1
               /\ \A j \in 1..k - 1 : RemoveAt(q, k)[j] = q[j]
               /\ \A j \in k..Len(q) - 1 : RemoveAt(q, k)[j] = q[j + 1]
    BY RemoveAtIs
  <2> QED
    BY <2>1
<1> HIDE DEF t
<1>2. Len(s) \in Nat /\ i \in Nat /\ 1 <= i /\ i <= Len(s)
  OBVIOUS
<1>3. ASSUME NEW j \in 1..Len(s) - 1
      PROVE  t[j] = s[from(j)] /\ from(j) \in 1..Len(s) /\ from(j) # i
  BY <1>1, <1>2
<1>4. ASSUME NEW j \in 1..Len(s), j # i
      PROVE  t[to(j)] = s[j] /\ to(j) \in 1..Len(s) - 1
  <2>1. CASE j < i
    BY <1>1, <1>2, <2>1
  <2>2. CASE ~ (j < i)
    <3>1. j - 1 \in i..Len(s) - 1 /\ (j - 1) + 1 = j /\ to(j) = j - 1
      BY <1>2, <1>4, <2>2
    <3> QED
      BY <1>1, <1>2, <3>1
  <2> QED
    BY <2>1, <2>2
<1>5. ASSUME NEW j \in 1..Len(s), NEW k \in 1..Len(s), j < k
      PROVE  keyOf[s[j]].key < keyOf[s[k]].key
  BY <1>5 DEF Sorted
<1>6. ASSUME NEW j \in 1..Len(s), j # i PROVE s[j] # s[i]
  <2>1. keyOf[s[j]].key \in Int
    BY DEF ToSet
  <2>2. j < i \/ i < j
    BY <1>2, <1>6
  <2> QED
    BY <1>5, <2>1, <2>2
<1>7. ToSet(s) = {s[j] : j \in 1..Len(s)} /\ ToSet(t) = {t[j] : j \in 1..Len(s) - 1}
  BY <1>1 DEF ToSet
<1>8. ToSet(t) \subseteq ToSet(s) \ {s[i]}
  <2> HIDE DEF from
  <2> QED
    BY <1>3, <1>6, <1>7
<1>9. ToSet(s) \ {s[i]} \subseteq ToSet(t)
  <2> HIDE DEF to
  <2> QED
    BY <1>4, <1>7
<1>10. ASSUME NEW j \in 1..Len(s) - 1, NEW k \in 1..Len(s) - 1, j < k
       PROVE  keyOf[t[j]].key < keyOf[t[k]].key
  <2>1. from(j) < from(k)
    BY <1>2, <1>10
  <2> HIDE DEF from
  <2> QED
    BY <1>3, <1>5, <2>1
<1>11. Sorted(t, keyOf)
  BY <1>1, <1>10 DEF Sorted
<1> QED
  BY <1>1, <1>8, <1>9, <1>11 DEF t

LEMMA SeqOver ==
  ASSUME NEW V, NEW s \in Seq(Nodes), ToSet(s) \subseteq V
  PROVE  s \in Seq(V)
<1>1. Len(s) \in Nat /\ s \in [1..Len(s) -> Nodes]
  OBVIOUS
<1>2. \A j \in 1..Len(s) : s[j] \in V
  BY <1>1 DEF ToSet
<1>3. s \in [1..Len(s) -> V]
  BY <1>1, <1>2
<1> QED
  BY <1>1, <1>3

LEMMA SortedSame ==
  ASSUME NEW s \in Seq(Nodes), NEW f, NEW g, Sorted(s, f),
         \A n \in ToSet(s) : g[n].key = f[n].key
  PROVE  Sorted(s, g)
<1>1. \A j \in 1..Len(s) : s[j] \in ToSet(s)
  BY DEF ToSet
<1> QED
  BY <1>1 DEF Sorted

LEMMA RingOver ==
  ASSUME ShapeInv, NEW i \in Levels
  PROVE  levels[i] \in Seq(Nodes) /\ Sorted(levels[i], node) /\ On(i) \subseteq Used
<1>1. levels[i] \in Seq(Used) /\ Used \subseteq Nodes /\ On(i) \subseteq Used
  BY RingIs DEF ShapeInv, TypeInv
<1>2. levels[i] \in [1..Len(levels[i]) -> Used] /\ Len(levels[i]) \in Nat
  BY <1>1
<1>3. levels[i] \in [1..Len(levels[i]) -> Nodes]
  BY <1>1, <1>2
<1> QED
  BY <1>1, <1>2, <1>3 DEF ShapeInv, RingsInv

\* Level i with new linked where the walk leaves it.
Into(top, key, i, new) == Linked(i, new, Pred(Entry(top, key)[i], i, key))

LEMMA LinkedIs ==
  ASSUME ShapeInv, NEW top \in Levels, NEW key \in Keys, NEW i \in 0..top,
         NEW new \in Nodes \ Used, ~ Has(i, key),
         NEW keyOf, keyOf[new].key = key, \A n \in Used : keyOf[n].key = node[n].key
  PROVE  /\ Into(top, key, i, new) \in Seq(Nodes)
         /\ ToSet(Into(top, key, i, new)) = On(i) \cup {new}
         /\ Sorted(Into(top, key, i, new), keyOf)
<1> DEFINE s == levels[i]
           p == First(i, key)
<1>1. i \in Levels /\ key \in Int
  BY SequentialAssumption DEF Levels
<1>2. Into(top, key, i, new) = InsertAt(s, p, new)
  <2>1. Place(Left(i, key), i) = p - 1 /\ p \in 1..Len(s) + 1
    <3>1. Below(HeadNode, i, key)
      BY DEF Below
    <3> QED
      BY <1>1, <3>1, LeftIs, StopIs DEF First
  <2>2. (p - 1) + 1 = p
    BY <2>1
  <2> QED
    BY <2>1, <2>2, EntryIs DEF Linked, Into
<1>3. /\ p \in 1..Len(s) + 1
      /\ \A j \in 1..p - 1 : node[s[j]].key < key
      /\ \A j \in p..Len(s) : node[s[j]].key >= key
  <2>1. Below(HeadNode, i, key)
    BY DEF Below
  <2> QED
    BY <1>1, <2>1, StopIs DEF First
<1>4. \A j \in 1..Len(s) :
        /\ s[j] \in On(i) /\ node[s[j]].key \in Int
        /\ keyOf[s[j]].key = node[s[j]].key /\ node[s[j]].key # key
  <2>1. ASSUME NEW j \in 1..Len(s)
        PROVE  s[j] \in On(i) /\ s[j] \in Used /\ node[s[j]].key \in Int
    BY <1>1, RingIs
  <2> QED
    BY <2>1 DEF Has
<1>5. s \in Seq(Nodes) /\ Sorted(s, node) /\ On(i) = ToSet(s) /\ Len(s) \in Nat
  BY <1>1, RingOver DEF On
<1> HIDE DEF s, p
<1>6. \A n \in ToSet(s) \cup {new} : keyOf[n].key \in Int
  <2>1. \A n \in ToSet(s) : \E j \in 1..Len(s) : n = s[j]
    BY <1>5 DEF ToSet
  <2> QED
    BY <1>1, <1>4, <2>1
<1>7. Sorted(s, keyOf)
  BY <1>4, <1>5 DEF Sorted
<1>8. \A j \in 1..p - 1 : keyOf[s[j]].key < keyOf[new].key
  BY <1>3, <1>4, <1>5
<1>9. \A j \in p..Len(s) : keyOf[new].key < keyOf[s[j]].key
  <2>1. ASSUME NEW j \in p..Len(s) PROVE key < keyOf[s[j]].key
    <3>1. j \in 1..Len(s) /\ node[s[j]].key >= key
      BY <1>3, <1>5
    <3> QED
      BY <1>1, <1>4, <3>1
  <2> QED
    BY <2>1
<1> QED
  BY <1>2, <1>3, <1>5, <1>6, <1>7, <1>8, <1>9, InsertInOrder

LEMMA UnlinkedIs ==
  ASSUME ShapeInv, NEW i \in Levels, NEW old \in On(i)
  PROVE  /\ Unlinked(i, old) \in Seq(Nodes) /\ ToSet(Unlinked(i, old)) = On(i) \ {old}
         /\ Sorted(Unlinked(i, old), node)
<1>1. PICK j \in 1..Len(levels[i]) : levels[i][j] = old
  BY RingIs
<1>2. Unlinked(i, old) = RemoveAt(levels[i], j)
  BY <1>1, PlaceIs DEF Unlinked
<1>3. levels[i] \in Seq(Nodes) /\ Sorted(levels[i], node) /\ On(i) = ToSet(levels[i])
  BY RingOver DEF On
<1>4. \A n \in ToSet(levels[i]) : node[n].key \in Int
  BY <1>3, RingIs
<1> QED
  BY <1>1, <1>2, <1>3, <1>4, RemoveInOrder

-----------------------------------------------------------------------------
(* Calls *)

LEMMA InitShape == Init => SeqInv
<1>1. SUFFICES ASSUME Init PROVE ShapeInv
  BY DEF Init, SeqInv
<1>2. /\ levels = [i \in Levels |-> <<>>] /\ level = 0 /\ size = 0 /\ node = <<>> /\ content = <<>>
  BY <1>1 DEF Init
<1>3. DOMAIN node = {} /\ DOMAIN content = {}
  BY <1>2
<1>4. \A i \in Levels : levels[i] = <<>> /\ On(i) = {}
  BY <1>2 DEF On, ToSet
<1>5. 0 \in Levels /\ 0 \in Low
  BY SequentialAssumption DEF Levels, Low
<1>6. TypeInv
  <2>1. levels \in [Levels -> Seq(Used)]
    BY <1>2
  <2>2. node \in [Used -> [key : Keys, val : Vals]]
    BY <1>2, <1>3 DEF Used
  <2> QED
    BY <1>2, <1>3, <1>5, <2>1, <2>2 DEF TypeInv, Used
<1>7. RingsInv
  BY <1>3, <1>4, <1>5 DEF RingsInv, Sorted, Used
<1>8. LevelInv
  BY <1>4 DEF LevelInv
<1>9. ContentInv
  BY <1>2, <1>3, FS_EmptySet DEF ContentInv, Used
<1> QED
  BY <1>6, <1>7, <1>8, <1>9 DEF ShapeInv

\* Insertion of a key that is not there.
LEMMA InsertNew ==
  ASSUME ShapeInv, NEW key \in Keys, NEW val \in Vals, NEW top \in Levels,
         Insert(key, val, top), Meets(top, key) < 0
  PROVE  ShapeInv' /\ dangling' = dangling /\ gone' = gone
<1> DEFINE new == CHOOSE n \in Nodes : n \notin Used
           pred == [i \in 0..top |-> Pred(Entry(top, key)[i], i, key)]
<1>1. top \in Nat /\ level \in Int /\ key \in Int /\ \A i \in 0..top : i \in Levels
  BY SequentialAssumption DEF Levels, ShapeInv, TypeInv, Low
<1>2. Meets(top, key) = -1
  BY <1>1, MeetsIs
<1>3. /\ Used # Nodes
      /\ level' = Raised(top)
      /\ levels' = [i \in Levels |-> IF i \in 0..top THEN Linked(i, new, pred[i]) ELSE levels[i]]
      /\ size' = size + 1
      /\ node' = [n \in Used \cup {new} |-> IF n = new THEN [key |-> key, val |-> val] ELSE node[n]]
      /\ content' = [k \in DOMAIN content \cup {key} |-> IF k = key THEN val ELSE content[k]]
      /\ UNCHANGED <<dangling, gone>>
  BY <1>2 DEF Insert
<1>4. new \in Nodes \ Used /\ Used \subseteq Nodes
  BY <1>3 DEF ShapeInv, TypeInv
<1>5. \A i \in 0..top : ~ Has(i, key)
  BY <1>1, <1>2, MeetsIs
<1> HIDE DEF new
<1>6. /\ Used' = Used \cup {new} /\ node'[new] = [key |-> key, val |-> val]
      /\ \A n \in Used : node'[n] = node[n]
  BY <1>3, <1>4 DEF Used
<1>7. ASSUME NEW i \in Levels
      PROVE  /\ levels'[i] \in Seq(Nodes) /\ Sorted(levels'[i], node')
             /\ On(i)' = IF i <= top THEN On(i) \cup {new} ELSE On(i)
             /\ i > top => levels'[i] = levels[i]
  <2>1. CASE i <= top
    <3>1. i \in 0..top
      BY <2>1 DEF Levels
    <3>2. levels'[i] = Into(top, key, i, new)
      BY <1>3, <3>1 DEF Into
    <3>3. node'[new].key = key /\ \A n \in Used : node'[n].key = node[n].key
      BY <1>6
    <3>4. /\ levels'[i] \in Seq(Nodes) /\ ToSet(levels'[i]) = On(i) \cup {new}
          /\ Sorted(levels'[i], node')
      BY <1>4, <1>5, <3>1, <3>2, <3>3, LinkedIs
    <3> QED
      BY <1>1, <2>1, <3>4 DEF On, Levels
  <2>2. CASE ~ (i <= top)
    <3>1. levels'[i] = levels[i]
      BY <1>3, <2>2
    <3>2. levels[i] \in Seq(Nodes) /\ Sorted(levels[i], node) /\ On(i) \subseteq Used
      BY RingOver
    <3>3. \A n \in ToSet(levels[i]) : node'[n].key = node[n].key
      BY <1>6, <3>2 DEF On
    <3> QED
      BY <2>2, <3>1, <3>2, <3>3, SortedSame DEF On
  <2> QED
    BY <2>1, <2>2
<1>8. \A i \in Levels : On(i)' \subseteq Used'
  BY <1>6, <1>7, RingOver
<1>9. TypeInv'
  <2>1. Used' \subseteq Nodes
    BY <1>4, <1>6
  <2>2. node' \in [Used' -> [key : Keys, val : Vals]]
    BY <1>3, <1>6 DEF ShapeInv, TypeInv
  <2>3. ASSUME NEW i \in Levels PROVE levels'[i] \in Seq(Used')
    BY <1>7, <1>8, SeqOver DEF On
  <2>4. levels' \in [Levels -> Seq(Used')]
    <3>1. levels' = [i \in Levels |-> levels'[i]]
      BY <1>3
    <3> QED
      BY <2>3, <3>1
  <2>5. level' \in Low
    BY <1>1, <1>3 DEF Raised, Low, Levels, ShapeInv, TypeInv
  <2> QED
    BY <2>1, <2>2, <2>4, <2>5 DEF TypeInv
<1>10. RingsInv'
  <2>1. \A i, j \in Levels : j <= i => On(i) \subseteq On(j)
    BY DEF ShapeInv, RingsInv
  <2>2. ASSUME NEW i \in Levels, NEW j \in Levels, j <= i PROVE On(i)' \subseteq On(j)'
    <3>1. On(i) \subseteq On(j) /\ (i <= top => j <= top)
      BY <1>1, <2>1, <2>2 DEF Levels
    <3> QED
      BY <1>7, <3>1
  <2>3. On(0)' = Used'
    <3>1. 0 \in Levels /\ 0 <= top /\ On(0) = Used
      BY <1>1, SequentialAssumption DEF Levels, ShapeInv, RingsInv
    <3> QED
      BY <1>6, <1>7, <3>1
  <2> QED
    BY <1>7, <2>2, <2>3 DEF RingsInv
<1>11. LevelInv'
  <2>1. ASSUME NEW i \in Levels, i > level' PROVE levels'[i] = <<>>
    <3>1. i > top /\ i > level /\ i \in Int
      BY <1>1, <1>3, <2>1 DEF Raised, Levels
    <3> QED
      BY <1>7, <3>1 DEF ShapeInv, LevelInv
  <2> QED
    BY <2>1 DEF LevelInv
<1>12. ContentInv'
  <2>1. key \notin DOMAIN content
    <3>1. 0 \in 0..top /\ On(0) = Used
      BY <1>1, SequentialAssumption DEF Levels, ShapeInv, RingsInv
    <3> QED
      BY <1>5, <3>1 DEF Has, ShapeInv, ContentInv
  <2>2. DOMAIN content' = DOMAIN content \cup {key}
    BY <1>3
  <2>3. DOMAIN content = {node[n].key : n \in Used} /\ \A n \in Used : content[node[n].key] = node[n].val
    BY DEF ShapeInv, ContentInv
  <2>4. {node'[n].key : n \in Used'} = {node[n].key : n \in Used} \cup {key}
    BY <1>6
  <2>5. ASSUME NEW n \in Used' PROVE content'[node'[n].key] = node'[n].val
    <3>1. CASE n = new
      BY <1>3, <1>6, <3>1
    <3>2. CASE n # new
      <4>1. n \in Used /\ node'[n] = node[n]
        BY <1>6, <3>2
      <4>2. node[n].key \in DOMAIN content /\ node[n].key # key
        BY <2>1, <2>3, <4>1
      <4> QED
        BY <1>3, <2>3, <4>1, <4>2
    <3> QED
      BY <3>1, <3>2
  <2>6. IsFiniteSet(DOMAIN content') /\ size' = Cardinality(DOMAIN content')
    <3>1. IsFiniteSet(DOMAIN content) /\ size = Cardinality(DOMAIN content)
      BY DEF ShapeInv, ContentInv
    <3> QED
      BY <1>3, <2>1, <2>2, <3>1, FS_AddElement
  <2> QED
    BY <2>2, <2>3, <2>4, <2>5, <2>6 DEF ContentInv
<1> QED
  BY <1>3, <1>9, <1>10, <1>11, <1>12 DEF ShapeInv

\* Insertion of a key that is there: nothing changes if it is met on the first
\* level, and elsewhere the node that is freed is in the rings above.
LEMMA InsertRefused ==
  ASSUME ShapeInv, NEW key \in Keys, NEW val \in Vals, NEW top \in Levels,
         Insert(key, val, top), ~ (Meets(top, key) < 0)
  PROVE  /\ content' = content /\ gone' = gone
         /\ dangling' = {} => UNCHANGED <<list, node>>
         /\ dangling' # {} => \E i \in Levels \ {0} :
              /\ dangling' \subseteq ToSet(levels'[i])
              /\ \E n \in Used : n \in ToSet(levels[0]) \ ToSet(levels[i])
<1> DEFINE new == CHOOSE n \in Nodes : n \notin Used
           pred == [i \in 0..top |-> Pred(Entry(top, key)[i], i, key)]
           m == Meets(top, key)
<1>1. top \in Nat /\ level \in Int /\ \A i \in 0..top : i \in Levels
  BY SequentialAssumption DEF Levels, ShapeInv, TypeInv, Low
<1>2. /\ m \in 0..top /\ m \in Levels
      /\ \A i \in m + 1..top : ~ Has(i, key)
      /\ Met(top, key) \in On(m) /\ Met(top, key) \in Used /\ node[Met(top, key)].key = key
  BY <1>1, MeetsIs
<1>3. /\ Used # Nodes
      /\ level' = Raised(top)
      /\ levels' = [i \in Levels |->
           IF i \in (m + 1)..top THEN Linked(i, new, pred[i]) ELSE levels[i]]
      /\ dangling' = IF m < top THEN {new} ELSE {}
      /\ UNCHANGED <<size, node, content, gone>>
  BY DEF Insert
<1>4. new \in Nodes \ Used
  BY <1>3 DEF ShapeInv, TypeInv
<1> HIDE DEF new, m
<1>5. ASSUME ~ (m < top) PROVE UNCHANGED <<list, node>>
  <2>1. m = top
    BY <1>1, <1>2, <1>5
  <2>2. levels' = [i \in Levels |-> levels[i]]
    BY <1>1, <1>3, <2>1
  <2>3. levels' = levels
    BY <2>2 DEF ShapeInv, TypeInv
  <2>4. levels[top] # <<>>
    BY <1>2, <2>1 DEF On, ToSet
  <2>5. ~ (top > level)
    BY <2>4 DEF ShapeInv, LevelInv
  <2> QED
    BY <1>3, <2>3, <2>5 DEF Raised, list
<1>6. ASSUME m < top
      PROVE  \E i \in Levels \ {0} :
               /\ {new} \subseteq ToSet(levels'[i])
               /\ \E n \in Used : n \in ToSet(levels[0]) \ ToSet(levels[i])
  <2>1. top \in m + 1..top /\ top \in 0..top /\ top # 0 /\ 0 <= m /\ 0 \in Levels
    BY <1>1, <1>2, <1>6
  <2>2. ~ Has(top, key)
    BY <1>2, <2>1
  <2>3. levels'[top] = Into(top, key, top, new)
    BY <1>1, <1>3, <2>1 DEF Into
  <2>4. new \in ToSet(levels'[top])
    <3> DEFINE keyOf == [n \in Used \cup {new} |->
                           IF n = new THEN [key |-> key, val |-> val] ELSE node[n]]
    <3>1. keyOf[new].key = key /\ \A n \in Used : keyOf[n].key = node[n].key
      BY <1>4
    <3> HIDE DEF keyOf
    <3> QED
      BY <1>4, <2>1, <2>2, <2>3, <3>1, LinkedIs
  <2>5. Met(top, key) \in On(0) /\ Met(top, key) \notin On(top)
    BY <1>2, <2>1, <2>2 DEF ShapeInv, RingsInv, Has
  <2> QED
    BY <1>1, <1>2, <2>1, <2>4, <2>5 DEF On
<1> QED
  BY <1>3, <1>5, <1>6

LEMMA EraseStep ==
  ASSUME ShapeInv, NEW key \in Keys, Erase(key)
  PROVE  ShapeInv' /\ dangling' = {} /\ gone' = gone
<1> DEFINE m == Meets(level, key)
           old == Met(level, key)
           empty == {i \in 0..m : levels'[i] = <<>>}
<1>1. /\ m >= 0
      /\ levels' = [i \in Levels |-> IF i \in 0..m THEN Unlinked(i, old) ELSE levels[i]]
      /\ level' = level - Cardinality(empty)
      /\ size' = size - 1
      /\ node' = [n \in Used \ {old} |-> node[n]]
      /\ dangling' = {n \in {old} : \E i \in Levels : n \in ToSet(levels'[i])}
      /\ content' = [k \in DOMAIN content \ {key} |-> content[k]]
      /\ gone' = gone
  BY DEF Erase
<1>2. level \in Levels /\ level \in Nat /\ 0 \in Levels
  <2>1. CASE level \in Nat
    BY <2>1, SequentialAssumption DEF ShapeInv, TypeInv, Low, Levels
  <2>2. CASE level \notin Nat
    <3>1. level = -1
      BY <2>2, SequentialAssumption DEF ShapeInv, TypeInv, Low
    <3>2. {i \in 0..level : Hit(Entry(level, key)[i], i, key)} = {}
      BY <3>1
    <3> QED
      BY <1>1, <3>2 DEF Meets
  <2> QED
    BY <2>1, <2>2
<1>3. /\ m \in 0..level /\ m \in Nat
      /\ \A i \in m + 1..level : ~ Has(i, key)
      /\ m \in Levels /\ old \in On(m) /\ old \in Used /\ node[old].key = key
  BY <1>1, <1>2, MeetsIs
<1> HIDE DEF m, old
<1>4. \A i \in Levels : i \in Int /\ 0 <= i
  BY SequentialAssumption DEF Levels
<1>5. ASSUME NEW i \in Levels PROVE old \in On(i) <=> i <= m
  <2>1. CASE i <= m
    BY <1>3, <2>1 DEF ShapeInv, RingsInv
  <2>2. CASE i > m /\ i <= level
    <3>1. i \in m + 1..level
      BY <1>3, <1>4, <2>2
    <3> QED
      BY <1>3, <1>4, <2>2, <3>1 DEF Has
  <2>3. CASE i > level
    <3>1. levels[i] = <<>>
      BY <2>3 DEF ShapeInv, LevelInv
    <3>2. On(i) = {} /\ ~ (i <= m)
      BY <1>2, <1>3, <1>4, <2>3, <3>1 DEF On, ToSet
    <3> QED
      BY <3>2
  <2> QED
    BY <1>2, <1>3, <1>4, <2>1, <2>2, <2>3
<1>6. Used' = Used \ {old} /\ \A n \in Used \ {old} : node'[n] = node[n]
  BY <1>1 DEF Used
<1>7. ASSUME NEW i \in Levels
      PROVE  /\ levels'[i] \in Seq(Nodes) /\ Sorted(levels'[i], node')
             /\ On(i)' = On(i) \ {old}
             /\ i > m => levels'[i] = levels[i]
  <2>1. /\ levels'[i] \in Seq(Nodes) /\ Sorted(levels'[i], node)
        /\ ToSet(levels'[i]) = On(i) \ {old}
        /\ i > m => levels'[i] = levels[i]
    <3>1. CASE i <= m
      <4>1. i \in 0..m /\ ~ (i > m)
        BY <1>3, <1>4, <3>1
      <4>2. levels'[i] = Unlinked(i, old)
        BY <1>1, <4>1
      <4> QED
        BY <1>5, <3>1, <4>1, <4>2, UnlinkedIs
    <3>2. CASE ~ (i <= m)
      <4>1. levels'[i] = levels[i]
        BY <1>1, <3>2
      <4>2. ToSet(levels[i]) = On(i) \ {old}
        BY <1>5, <3>2 DEF On
      <4> QED
        BY <4>1, <4>2, RingOver
    <3> QED
      BY <3>1, <3>2
  <2>2. \A n \in ToSet(levels'[i]) : node'[n].key = node[n].key
    BY <1>6, <2>1, RingOver
  <2> QED
    BY <2>1, <2>2, SortedSame DEF On
<1>8. dangling' = {}
  BY <1>1, <1>7 DEF On
<1>9. TypeInv'
  <2>1. Used' \subseteq Nodes
    BY <1>6 DEF ShapeInv, TypeInv
  <2>2. node' \in [Used' -> [key : Keys, val : Vals]]
    BY <1>1, <1>6 DEF ShapeInv, TypeInv
  <2>3. ASSUME NEW i \in Levels PROVE levels'[i] \in Seq(Used')
    <3>1. ToSet(levels'[i]) \subseteq Used'
      BY <1>6, <1>7, RingOver DEF On
    <3> QED
      BY <1>7, <3>1, SeqOver
  <2>4. levels' \in [Levels -> Seq(Used')]
    <3>1. levels' = [i \in Levels |-> levels'[i]]
      BY <1>1
    <3> QED
      BY <2>3, <3>1
  <2>5. level' \in Low
    <3>1. empty \in SUBSET (0..m) /\ IsFiniteSet(0..m) /\ Cardinality(0..m) = m + 1
      BY <1>3, FS_Interval
    <3>2. IsFiniteSet(empty) /\ Cardinality(empty) <= m + 1
      <4> HIDE DEF empty
      <4> QED
        BY <3>1, FS_Subset
    <3>3. Cardinality(empty) \in Nat
      BY <3>2, FS_CardinalityType
    <3> HIDE DEF empty
    <3> QED
      BY <1>1, <1>2, <1>3, <3>2, <3>3, SequentialAssumption DEF Low, Levels
  <2> QED
    BY <2>1, <2>2, <2>4, <2>5 DEF TypeInv
<1>10. \A i, j \in Levels : j <= i => On(i)' \subseteq On(j)'
  BY <1>7 DEF ShapeInv, RingsInv
<1>11. RingsInv'
  <2>1. On(0)' = Used'
    BY <1>2, <1>6, <1>7 DEF ShapeInv, RingsInv
  <2> QED
    BY <1>7, <1>10, <2>1 DEF RingsInv
<1>12. ASSUME NEW i \in Levels, levels'[i] # <<>> PROVE i <= level'
  <2>1. i <= level
    <3>1. SUFFICES ASSUME i > level PROVE FALSE
      BY <1>2, <1>4
    <3>2. i > m /\ levels[i] = <<>>
      BY <1>2, <1>3, <1>4, <3>1 DEF ShapeInv, LevelInv
    <3> QED
      BY <1>7, <1>12, <3>2
  <2>2. On(i)' # {}
    <3>1. Len(levels'[i]) \in Nat /\ Len(levels'[i]) # 0
      BY <1>7, <1>12
    <3>2. 1 \in DOMAIN levels'[i]
      BY <1>7, <3>1
    <3> QED
      BY <3>2 DEF On, ToSet
  <2>3. \A j \in 0..m : j <= i => j \notin empty
    <3>1. ASSUME NEW j \in 0..m, j <= i PROVE levels'[j] # <<>>
      <4>1. j \in Levels
        BY <1>2, <1>3, <1>4, SequentialAssumption DEF Levels
      <4>2. On(j)' # {}
        BY <1>10, <2>2, <3>1, <4>1
      <4> QED
        BY <4>2 DEF On, ToSet
    <3> QED
      BY <3>1
  <2>4. empty \in SUBSET (i + 1..m)
    BY <1>3, <1>4, <2>3
  <2>5. /\ IsFiniteSet(i + 1..m)
        /\ Cardinality(i + 1..m) = IF i + 1 > m THEN 0 ELSE m - (i + 1) + 1
    BY <1>3, <1>4, FS_Interval
  <2> HIDE DEF empty
  <2>6. Cardinality(empty) \in Nat /\ Cardinality(empty) <= Cardinality(i + 1..m)
    BY <2>4, <2>5, FS_Subset, FS_CardinalityType
  <2> QED
    BY <1>1, <1>2, <1>3, <1>4, <2>1, <2>5, <2>6
<1>13. LevelInv'
  <2>1. level' \in Int
    BY <1>9, SequentialAssumption DEF TypeInv, Low
  <2> QED
    BY <1>4, <1>12, <2>1 DEF LevelInv
<1>14. ContentInv'
  <2>1. /\ DOMAIN content = {node[n].key : n \in Used}
        /\ \A n \in Used : content[node[n].key] = node[n].val
        /\ IsFiniteSet(DOMAIN content) /\ size = Cardinality(DOMAIN content)
    BY DEF ShapeInv, ContentInv
  <2>2. \A n \in Used \ {old} : node[n].key # key
    BY <1>3, OneNodeAKey
  <2>3. DOMAIN content' = DOMAIN content \ {key}
    BY <1>1
  <2>4. DOMAIN content' = {node'[n].key : n \in Used'}
    BY <1>3, <1>6, <2>1, <2>2, <2>3
  <2>5. \A n \in Used' : content'[node'[n].key] = node'[n].val
    BY <1>1, <1>6, <2>1, <2>2
  <2>6. IsFiniteSet(DOMAIN content') /\ size' = Cardinality(DOMAIN content')
    <3>1. key \in DOMAIN content
      BY <1>3, <2>1
    <3> QED
      BY <1>1, <2>1, <2>3, <3>1, FS_RemoveElement
  <2> QED
    BY <2>4, <2>5, <2>6 DEF ContentInv
<1> QED
  BY <1>1, <1>8, <1>9, <1>11, <1>13, <1>14 DEF ShapeInv

LEMMA StillShape == ShapeInv /\ UNCHANGED <<list, node, content>> => ShapeInv'
<1>1. SUFFICES ASSUME ShapeInv, UNCHANGED <<levels, level, size, node, content>> PROVE ShapeInv'
  BY DEF list
<1> QED
  BY <1>1 DEF ShapeInv, TypeInv, RingsInv, LevelInv, ContentInv, On, Used

\* What dangles, and why.
Refusal ==
  \E i \in Levels \ {0} :
    /\ content' = content
    /\ dangling' \subseteq ToSet(levels'[i])
    /\ \E n \in Used : n \in ToSet(levels[0]) \ ToSet(levels[i])

LEMMA StepShape ==
  ASSUME SeqInv, [Next]_vars
  PROVE  SeqInv' /\ (dangling' # {} => Refusal \/ UNCHANGED vars)
<1>1. CASE \E key \in Keys, val \in Vals, top \in Levels : Insert(key, val, top)
  <2>1. PICK key \in Keys, val \in Vals, top \in Levels : Insert(key, val, top)
    BY <1>1
  <2>2. dangling = {} /\ ~ gone
    BY <2>1 DEF Insert
  <2>3. ShapeInv
    BY <2>2 DEF SeqInv
  <2>4. CASE Meets(top, key) < 0
    BY <2>1, <2>2, <2>3, <2>4, InsertNew DEF SeqInv
  <2>5. CASE ~ (Meets(top, key) < 0)
    <3>1. /\ content' = content /\ gone' = gone
          /\ dangling' = {} => UNCHANGED <<list, node>>
          /\ dangling' # {} => Refusal
      <4>1. content' = content
        BY <2>1, <2>3, <2>5, InsertRefused
      <4> QED
        BY <2>1, <2>3, <2>5, <4>1, InsertRefused DEF Refusal
    <3>2. CASE dangling' = {}
      BY <2>2, <2>3, <3>1, <3>2, StillShape DEF SeqInv
    <3>3. CASE dangling' # {}
      BY <3>1, <3>3 DEF SeqInv
    <3> QED
      BY <3>2, <3>3
  <2> QED
    BY <2>4, <2>5
<1>2. CASE \E key \in Keys : Erase(key)
  <2>1. PICK key \in Keys : Erase(key)
    BY <1>2
  <2>2. dangling = {} /\ ~ gone
    BY <2>1 DEF Erase
  <2> QED
    BY <2>1, <2>2, EraseStep DEF SeqInv
<1>3. CASE Delete
  <2>1. /\ dangling = {} /\ ~ gone /\ gone' = TRUE /\ dangling' = dangling
        /\ node' = [n \in Used \ ToSet(levels[0]) |-> node[n]]
    BY <1>3 DEF Delete
  <2>2. ToSet(levels[0]) = Used
    BY <2>1 DEF SeqInv, ShapeInv, RingsInv, On
  <2>3. Used' = {}
    BY <2>1, <2>2 DEF Used
  <2> QED
    BY <2>1, <2>3 DEF SeqInv
<1>4. CASE Stopped \/ UNCHANGED vars
  <2>1. UNCHANGED <<list, node, gone, content, dangling>>
    BY <1>4 DEF Stopped, vars
  <2>2. Used' = Used
    BY <2>1 DEF Used
  <2> QED
    BY <2>1, <2>2, StillShape DEF SeqInv, vars
<1> QED
  BY <1>1, <1>2, <1>3, <1>4 DEF Next

-----------------------------------------------------------------------------
(* Theorems *)

LEMMA SeqInvHolds == Spec => []SeqInv
<1>1. SeqInv /\ [Next]_vars => SeqInv'
  BY StepShape
<1> QED
  BY InitShape, <1>1, PTL DEF Spec

\* After every sequence of calls sl_search() finds what has been inserted and
\* not erased and nothing else, size counts it, and sl_delete() frees all.
THEOREM SearchesRight == Spec => []SearchIsRight
<1>1. SeqInv => SearchIsRight
  BY SearchOfShape DEF SeqInv, SearchIsRight, ShapeInv, ContentInv
<1> QED
  BY SeqInvHolds, <1>1, PTL

\* However list->level has been raised by insertions and lowered by erasures, it
\* is not below a level that holds nodes, and every ring holds, in the order of
\* the keys, nodes that are in the rings below as well.
THEOREM LevelCoversRings == Spec => [](dangling = {} /\ ~ gone => RingsInv /\ LevelInv)
<1>1. SeqInv => (dangling = {} /\ ~ gone => RingsInv /\ LevelInv)
  BY DEF SeqInv, ShapeInv
<1> QED
  BY SeqInvHolds, <1>1, PTL

\* A node is freed while it is linked only by an sl_insert() that returns
\* -EEXIST from a level below the one it began on.
THEOREM DanglesOnRefusal == Spec => DanglesOnlyOnRefusal
<1>1. ASSUME SeqInv, [Next]_vars
      PROVE  [dangling' # {} => \E i \in Levels \ {0} :
                /\ content' = content
                /\ dangling' \subseteq ToSet(levels'[i])
                /\ \E n \in Used : n \in ToSet(levels[0]) \ ToSet(levels[i])]_vars
  BY <1>1, StepShape DEF Refusal
<1> QED
  BY SeqInvHolds, <1>1, PTL DEF Spec, DanglesOnlyOnRefusal

=============================================================================
