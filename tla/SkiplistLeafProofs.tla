-------------------------- MODULE SkiplistLeafProofs --------------------------
(***************************************************************************)
(* What the operators on a leaf return for every leaf, and the lemmas that *)
(* stand in for induction: a set of naturals has a least element, and a    *)
(* recursive function that walks on with a measure going down exists and   *)
(* has the value of the place its walk ends at.                            *)
(***************************************************************************)
EXTENDS SkiplistLeaf, FiniteSetTheorems, SequenceTheorems, TLAPS

(* Walks *)

\* From the sets 0..n, which strict inclusion orders.
LEMMA LeastNatural ==
  ASSUME NEW T, T \subseteq Nat, T # {}
  PROVE  \E n \in T : \A m \in T : n <= m
<1> DEFINE R == StrictSubsetOrdering(Nat)
           S == FiniteSubsetsOf(Nat)
           U == {0..k : k \in T}
<1>1. IsWellFoundedOn(R, S)
  BY FS_StrictSubsetOrderingWellFounded
<1>2. U \subseteq S /\ U # {}
  <2>1. ASSUME NEW k \in T PROVE IsFiniteSet(0..k) /\ 0..k \subseteq Nat
    BY FS_Interval
  <2>2. QED
    BY <2>1 DEF FiniteSubsetsOf
<1>3. PICK x \in U : \A y \in U : ~ (<<y, x>> \in R)
  <2> HIDE DEF R, S, U
  <2>1. QED BY <1>1, <1>2, WFMin
<1>4. PICK n \in T : x = 0..n
  OBVIOUS
<1>5. ASSUME NEW m \in T, m < n
      PROVE  FALSE
  <2>1. 0..m \in U
    OBVIOUS
  <2>2. 0..m \subseteq 0..n /\ 0..m # 0..n
    BY <1>5
  <2>3. <<0..m, x>> \in R
    BY <2>2, <1>4 DEF StrictSubsetOrdering
  <2>4. QED
    BY <2>1, <2>3, <1>3
<1>6. QED
  BY <1>5

LEMMA NatSetInduction ==
  ASSUME NEW T, 0 \in T, \A n \in T \cap Nat : n + 1 \in T
  PROVE  Nat \subseteq T
<1>1. SUFFICES ASSUME Nat \ T # {} PROVE FALSE
  OBVIOUS
<1>2. PICK n \in Nat \ T : \A m \in Nat \ T : n <= m
  BY <1>1, LeastNatural
<1>3. n # 0 /\ n - 1 \in Nat
  BY <1>2
<1>4. n - 1 \in T
  BY <1>2, <1>3
<1>5. (n - 1) + 1 \in T
  BY <1>3, <1>4
<1>6. (n - 1) + 1 = n
  BY <1>3
<1>7. QED
  BY <1>5, <1>6

\* A walk over D that ends in Stop, because every other step brings mu down; and
\* the function that answers out[x] where the walk stops, and elsewhere what it
\* answers one step on.
Descends(D, Stop, step, N, mu) ==
  /\ step \in [D -> D] /\ N \in Nat /\ mu \in [D -> 0..N]
  /\ \A x \in D \ Stop : mu[step[x]] < mu[x]

Follows(f, D, Stop, out, step) ==
  \A x \in D : f[x] = IF x \in Stop THEN out[x] ELSE f[step[x]]

\* Such a function exists.
LEMMA WalkExists ==
  ASSUME NEW D, NEW Stop, NEW out, NEW step, NEW N, NEW mu,
         Descends(D, Stop, step, N, mu)
  PROVE  \E f : Follows(f, D, Stop, out, step)
<1> DEFINE Eq(f, x) == f[x] = IF x \in Stop THEN out[x] ELSE f[step[x]]
           T == {n \in Nat : \E f : \A x \in D : mu[x] <= n => Eq(f, x)}
<1>0. /\ step \in [D -> D] /\ N \in Nat /\ mu \in [D -> 0..N]
      /\ \A x \in D \ Stop : mu[step[x]] < mu[x]
  BY DEF Descends
<1>1. 0 \in T
  <2>1. \A x \in D : mu[x] <= 0 => x \in Stop
    BY <1>0
  <2>2. \A x \in D : mu[x] <= 0 => Eq(out, x)
    BY <2>1
  <2>3. QED
    BY <2>2
<1>2. ASSUME NEW n \in T PROVE n + 1 \in T
  <2>1. PICK f : \A x \in D : mu[x] <= n => Eq(f, x)
    OBVIOUS
  <2>2. n \in Nat
    OBVIOUS
  <2> DEFINE g == [x \in D |-> IF mu[x] <= n THEN f[x]
                               ELSE IF x \in Stop THEN out[x] ELSE f[step[x]]]
  <2>3. ASSUME NEW x \in D, mu[x] <= n + 1 PROVE Eq(g, x)
    <3>1. CASE x \in Stop
      BY <3>1, <2>1, <1>0
    <3>2. CASE x \notin Stop
      <4>1. step[x] \in D /\ mu[step[x]] < mu[x] /\ mu[x] \in Nat /\ mu[step[x]] \in Nat
        BY <3>2, <1>0
      <4>2. mu[step[x]] <= n
        BY <4>1, <2>3
      <4>3. g[step[x]] = f[step[x]]
        BY <4>1, <4>2
      <4>4. QED
        BY <4>3, <3>2, <2>1, <4>1
    <3>3. QED
      BY <3>1, <3>2
  <2> HIDE DEF g, Eq
  <2>4. \A x \in D : mu[x] <= n + 1 => Eq(g, x)
    BY <2>3
  <2>5. QED
    BY <2>2, <2>4
<1>3. N \in T
  BY <1>0, <1>1, <1>2, NatSetInduction
<1>4. QED
  BY <1>0, <1>3 DEF Follows

\* What holds where the walk starts and is kept by its steps holds where it
\* ends.
LEMMA WalkEnds ==
  ASSUME NEW D, NEW Stop, NEW out, NEW step, NEW N, NEW mu, NEW f,
         Descends(D, Stop, step, N, mu),
         Follows(f, D, Stop, out, step),
         NEW P \in SUBSET D, \A x \in P \ Stop : step[x] \in P,
         NEW start \in P
  PROVE  \E y \in P \cap Stop : f[start] = out[y]
<1> DEFINE Good(x) == \E y \in P \cap Stop : f[x] = out[y]
           T == {n \in Nat : \E x \in P : mu[x] = n /\ ~ Good(x)}
<1>0. /\ step \in [D -> D] /\ N \in Nat /\ mu \in [D -> 0..N]
      /\ \A x \in D \ Stop : mu[step[x]] < mu[x]
      /\ \A x \in D : f[x] = IF x \in Stop THEN out[x] ELSE f[step[x]]
  BY DEF Descends, Follows
<1>1. SUFFICES ASSUME T # {} PROVE FALSE
  <2>1. T = {} => Good(start)
    BY <1>0
  <2>2. QED
    BY <2>1
<1>2. PICK n \in T : \A m \in T : n <= m
  BY <1>1, LeastNatural
<1>3. PICK x \in P : mu[x] = n /\ ~ Good(x)
  BY <1>2
<1>4. x \notin Stop
  BY <1>0, <1>3
<1>5. f[x] = f[step[x]] /\ step[x] \in P
  BY <1>0, <1>4
<1>6. ~ Good(step[x])
  BY <1>5, <1>3
<1>7. mu[step[x]] \in T
  BY <1>0, <1>5, <1>6
<1>8. mu[step[x]] < n /\ n \in Nat /\ mu[step[x]] \in Nat
  BY <1>0, <1>3, <1>4
<1>9. QED
  BY <1>7, <1>8, <1>2

-----------------------------------------------------------------------------
(* leaf_slot_locked() *)

\* The binary search ends inside the leaf or right behind it; what it finds
\* has its key in r, and otherwise it has come between the keys in front of r
\* and those behind.
LEMMA ProbeResult ==
  ASSUME NEW slots \in Seq(Slot), NEW r \in Slot,
         NEW hit, hit = Probe(slots, r)
  PROVE  /\ hit \in [found : BOOLEAN, slot : 1..Len(slots) + 1]
         /\ hit.found => /\ hit.slot <= Len(slots)
                         /\ slots[hit.slot].key >= r.key /\ slots[hit.slot].key < End(r)
         /\ Ordered(slots) /\ ~ hit.found =>
              /\ \A i \in 1..hit.slot - 1 : slots[i].key < r.key
              /\ \A i \in hit.slot..Len(slots) : slots[i].key >= End(r)
<1> DEFINE n == Len(slots)
           k == [i \in 1..n |-> slots[i].key]
           D == (1..n + 1) \X (0..n)
           mid(b) == b[1] + (b[2] - b[1]) \div 2
           Stop == {b \in D : b[1] > b[2] \/ (k[mid(b)] >= r.key /\ k[mid(b)] < End(r))}
           out == [b \in D |-> IF b[1] > b[2] THEN [found |-> FALSE, slot |-> b[1]]
                               ELSE [found |-> TRUE, slot |-> mid(b)]]
           step == [b \in D |-> IF b[1] > b[2] THEN b
                      ELSE IF k[mid(b)] < r.key THEN <<mid(b) + 1, b[2]>>
                      ELSE <<b[1], mid(b) - 1>>]
           mu == [b \in D |-> IF b[1] <= b[2] THEN b[2] - b[1] + 1 ELSE 0]
           walk(f, b) == IF b \in Stop THEN out[b] ELSE f[step[b]]
           body(f, b) ==
             IF b[1] > b[2] THEN [found |-> FALSE, slot |-> b[1]]
             ELSE IF slots[mid(b)].key < r.key THEN f[<<mid(b) + 1, b[2]>>]
             ELSE IF slots[mid(b)].key >= End(r) THEN f[<<b[1], mid(b) - 1>>]
             ELSE [found |-> TRUE, slot |-> mid(b)]
           probe == CHOOSE f : f = [b \in D |-> body(f, b)]
<1>1. n \in Nat
  OBVIOUS
<1>2. ASSUME NEW i \in 1..n
      PROVE  slots[i] \in Slot /\ k[i] = slots[i].key /\ k[i] \in Nat
  <2>1. slots[i] \in Slot
    OBVIOUS
  <2>2. QED
    BY <2>1 DEF Slot
<1>3. r.key \in Nat /\ End(r) \in Nat /\ r.key < End(r)
  BY DEF End, Slot
<1>4. hit = probe[<<1, n>>]
  BY DEF Probe
<1>5. Ordered(slots) => \A i, j \in 1..n : i < j => k[i] < k[j]
  <2>1. ASSUME NEW i \in 1..n PROVE slots[i].size \in Nat \ {0}
    BY <2>1, <1>2 DEF Slot
  <2>2. QED
    BY <2>1, <1>2 DEF Ordered, End
<1> HIDE DEF n, k
<1>6. ASSUME NEW b \in D, b[1] <= b[2]
      PROVE  /\ mid(b) \in 1..n /\ b[1] <= mid(b) /\ mid(b) <= b[2]
             /\ <<mid(b) + 1, b[2]>> \in D /\ <<b[1], mid(b) - 1>> \in D
  BY <1>1, <1>6
<1> HIDE DEF mid
<1>7. step \in [D -> D]
  <2>1. ASSUME NEW b \in D PROVE step[b] \in D
    <3>1. b[1] \in 1..n + 1 /\ b[2] \in 0..n
      OBVIOUS
    <3>2. CASE b[1] > b[2]
      BY <3>1, <3>2
    <3>3. CASE b[1] <= b[2]
      BY <1>1, <1>6, <3>3, <3>1
    <3>4. QED
      BY <3>1, <3>2, <3>3, <1>1
  <2>2. QED
    BY <2>1
<1>8. mu \in [D -> 0..n]
  BY <1>1
<1>9. ASSUME NEW b \in D \ Stop
      PROVE  /\ b[1] \in 1..n + 1 /\ b[2] \in 0..n /\ b[1] <= b[2] /\ mid(b) \in 1..n
             /\ \/ k[mid(b)] < r.key /\ step[b] = <<mid(b) + 1, b[2]>>
                \/ k[mid(b)] >= End(r) /\ step[b] = <<b[1], mid(b) - 1>>
             /\ mu[step[b]] < mu[b]
  <2>1. b[1] \in 1..n + 1 /\ b[2] \in 0..n /\ b[1] <= b[2]
    BY <1>1
  <2>2. /\ mid(b) \in 1..n /\ b[1] <= mid(b) /\ mid(b) <= b[2]
        /\ <<mid(b) + 1, b[2]>> \in D /\ <<b[1], mid(b) - 1>> \in D
    BY <2>1, <1>6
  <2>3. k[mid(b)] \in Nat
    BY <2>2, <1>2
  <2>4. CASE k[mid(b)] < r.key
    <3>1. step[b] = <<mid(b) + 1, b[2]>>
      BY <2>1, <2>4
    <3>2. QED
      BY <3>1, <2>1, <2>2, <2>4, <1>1
  <2>5. CASE ~ (k[mid(b)] < r.key)
    <3>1. step[b] = <<b[1], mid(b) - 1>>
      BY <2>1, <2>5, <1>1
    <3>2. k[mid(b)] >= End(r)
      BY <2>1, <2>3, <2>5, <1>3
    <3>3. QED
      BY <3>1, <3>2, <2>1, <2>2, <1>1
  <2>6. QED
    BY <2>4, <2>5
<1>10. ASSUME NEW f, NEW b \in D
       PROVE  body(f, b) = walk(f, b)
  <2>1. b[1] \in 1..n + 1 /\ b[2] \in 0..n
    OBVIOUS
  <2>2. CASE b[1] > b[2]
    BY <2>2
  <2>3. CASE b[1] <= b[2]
    <3>1. mid(b) \in 1..n
      BY <2>3, <1>6
    <3>2. slots[mid(b)].key = k[mid(b)] /\ k[mid(b)] \in Nat
      BY <3>1, <1>2
    <3>3. QED
      BY <2>1, <2>3, <3>2, <1>3
  <2>4. QED
    BY <2>1, <2>2, <2>3
<1>11. Descends(D, Stop, step, n, mu)
  <2>1. \A b \in D \ Stop : mu[step[b]] < mu[b]
    BY <1>9
  <2> HIDE DEF D, Stop, step, mu
  <2>2. QED
    BY <2>1, <1>1, <1>7, <1>8 DEF Descends
<1>12. Follows(probe, D, Stop, out, step)
  <2>1. PICK g : Follows(g, D, Stop, out, step)
    <3> HIDE DEF D, Stop, out, step, mu
    <3>1. QED
      BY <1>11, WalkExists
  <2> DEFINE f == [b \in D |-> g[b]]
  <2>2. ASSUME NEW b \in D PROVE f[b] = walk(f, b)
    <3>1. step[b] \in D
      BY <1>7
    <3> HIDE DEF D, Stop, out, step
    <3>2. QED
      BY <3>1, <2>1 DEF Follows
  <2>3. f = [b \in D |-> body(f, b)]
    <3> HIDE DEF D, body, walk
    <3>1. QED
      BY <2>2, <1>10
  <2>4. probe = [b \in D |-> body(probe, b)]
    <3> HIDE DEF D, body, f
    <3>1. QED
      BY <2>3
  <2>5. \A b \in D : probe[b] = walk(probe, b)
    <3> HIDE DEF D, body, walk, probe
    <3>1. QED
      BY <2>4, <1>10
  <2> HIDE DEF D, Stop, out, step, probe
  <2>6. QED
    BY <2>5 DEF Follows
<1> DEFINE P == {b \in D : /\ b[1] <= b[2] + 1
                           /\ Ordered(slots) =>
                                /\ \A i \in 1..b[1] - 1 : k[i] < r.key
                                /\ \A i \in b[2] + 1..n : k[i] >= End(r)}
<1>13. <<1, n>> \in P
  BY <1>1
<1>14. ASSUME NEW b \in P \ Stop PROVE step[b] \in P
  <2>1. /\ b[1] \in 1..n + 1 /\ b[2] \in 0..n /\ b[1] <= b[2]
        /\ mid(b) \in 1..n /\ b[1] <= mid(b) /\ mid(b) <= b[2]
        /\ step[b] \in D /\ b \in D
    BY <1>9, <1>6, <1>7
  <2>2. CASE k[mid(b)] < r.key /\ step[b] = <<mid(b) + 1, b[2]>>
    <3>1. Ordered(slots) => \A i \in 1..mid(b) : k[i] < r.key
      <4> HIDE DEF D, Stop, out, step, mu, probe, P, walk, body
      <4>1. SUFFICES ASSUME Ordered(slots), NEW i \in 1..mid(b) PROVE k[i] < r.key
        OBVIOUS
      <4>2. i \in 1..n /\ (i = mid(b) \/ i < mid(b))
        BY <1>1, <2>1
      <4>3. k[i] \in Nat /\ k[mid(b)] \in Nat
        BY <1>2, <2>1, <4>2
      <4>4. i = mid(b) \/ k[i] < k[mid(b)]
        BY <1>5, <2>1, <4>1, <4>2
      <4> QED
        BY <1>3, <2>2, <4>3, <4>4
    <3> HIDE DEF step
    <3>2. QED
      BY <3>1, <2>1, <2>2, <1>1
  <2>3. CASE k[mid(b)] >= End(r) /\ step[b] = <<b[1], mid(b) - 1>>
    <3>1. Ordered(slots) => \A i \in mid(b)..n : k[i] >= End(r)
      <4> HIDE DEF D, Stop, out, step, mu, probe, P, walk, body
      <4>1. SUFFICES ASSUME Ordered(slots), NEW i \in mid(b)..n PROVE k[i] >= End(r)
        OBVIOUS
      <4>2. i \in 1..n /\ (i = mid(b) \/ mid(b) < i)
        BY <1>1, <2>1
      <4>3. k[i] \in Nat /\ k[mid(b)] \in Nat
        BY <1>2, <2>1, <4>2
      <4>4. i = mid(b) \/ k[mid(b)] < k[i]
        BY <1>5, <2>1, <4>1, <4>2
      <4> QED
        BY <1>3, <2>3, <4>3, <4>4
    <3> HIDE DEF step
    <3>2. QED
      BY <3>1, <2>1, <2>3, <1>1
  <2>4. QED
    BY <1>9, <2>2, <2>3
<1>15. PICK b \in P \cap Stop : hit = out[b]
  <2>1. P \in SUBSET D
    OBVIOUS
  <2> HIDE DEF D, Stop, out, step, mu, P, probe
  <2>2. \E y \in P \cap Stop : probe[<<1, n>>] = out[y]
    BY <1>11, <1>12, <1>13, <1>14, <2>1, WalkEnds
  <2>3. QED
    BY <1>4, <2>2
<1>16. b[1] \in 1..n + 1 /\ b[2] \in 0..n /\ b[1] <= b[2] + 1 /\ b \in D
  OBVIOUS
<1>17. CASE b[1] > b[2]
  <2>1. hit = [found |-> FALSE, slot |-> b[1]] /\ b[2] = b[1] - 1
    BY <1>15, <1>16, <1>17
  <2>2. QED
    BY <2>1, <1>15, <1>16, <1>1, <1>2 DEF n
<1>18. CASE b[1] <= b[2]
  <2>1. hit = [found |-> TRUE, slot |-> mid(b)] /\ mid(b) \in 1..n
    <3> HIDE DEF P, Stop, D
    <3>1. ~ (b[1] > b[2])
      BY <1>16, <1>18, <1>1
    <3>2. mid(b) \in 1..n
      BY <1>16, <1>18, <1>6
    <3>3. QED
      BY <3>1, <3>2, <1>15, <1>16
  <2>2. k[mid(b)] >= r.key /\ k[mid(b)] < End(r)
    BY <1>15, <1>16, <1>18
  <2>3. QED
    BY <2>1, <2>2, <1>1, <1>2 DEF n
<1>19. QED
  BY <1>16, <1>17, <1>18

\* leaf_slot_locked() finds a range that overlaps r if the leaf has one, and
\* otherwise the place where r belongs: all ranges before it end in front of r,
\* all from there on start behind r.
THEOREM LeafSlotLockedRight ==
  ASSUME NEW slots \in Seq(Slot), Ordered(slots), NEW r \in Slot,
         NEW hit, hit = LeafSlotLocked(slots, r)
  PROVE  /\ hit \in [found : BOOLEAN, slot : 1..Len(slots) + 1]
         /\ hit.found => hit.slot <= Len(slots) /\ Overlap(slots[hit.slot], r)
         /\ ~ hit.found =>
              /\ \A i \in 1..hit.slot - 1 : End(slots[i]) <= r.key
              /\ \A i \in hit.slot..Len(slots) : End(r) <= slots[i].key
<1> DEFINE n == Len(slots)
           probe == Probe(slots, r)
<1>1. /\ probe \in [found : BOOLEAN, slot : 1..n + 1]
      /\ probe.found => /\ probe.slot <= n
                        /\ slots[probe.slot].key >= r.key /\ slots[probe.slot].key < End(r)
      /\ ~ probe.found => /\ \A i \in 1..probe.slot - 1 : slots[i].key < r.key
                          /\ \A i \in probe.slot..n : slots[i].key >= End(r)
  BY ProbeResult
<1>2. hit = IF probe.found \/ probe.slot = 1 THEN probe
            ELSE IF slots[probe.slot - 1].key < End(r) /\ End(slots[probe.slot - 1]) > r.key
                 THEN [found |-> TRUE, slot |-> probe.slot - 1] ELSE probe
  BY DEF LeafSlotLocked
<1>3. ASSUME NEW i \in 1..n
      PROVE  /\ slots[i].key \in Nat /\ slots[i].size \in Nat \ {0}
             /\ End(slots[i]) \in Nat /\ End(slots[i]) > slots[i].key
  <2>1. slots[i] \in Slot
    OBVIOUS
  <2>2. QED
    BY <2>1 DEF Slot, End
<1>4. n \in Nat /\ r.key \in Nat /\ End(r) \in Nat /\ r.key < End(r)
  BY DEF Slot, End
<1> HIDE DEF n, probe
<1>5. CASE probe.found
  <2>1. probe.slot \in 1..n /\ hit = probe
    BY <1>1, <1>2, <1>5, <1>4
  <2>2. Overlap(slots[probe.slot], r)
    BY <2>1, <1>1, <1>3, <1>4, <1>5 DEF Overlap
  <2>3. QED
    BY <2>1, <2>2, <1>1, <1>5 DEF n
<1>6. CASE ~ probe.found /\ probe.slot = 1
  BY <1>1, <1>2, <1>4, <1>6 DEF n
<1>7. CASE ~ probe.found /\ probe.slot # 1
  <2> DEFINE m == probe.slot - 1
  <2>1. m \in 1..n /\ probe.slot \in 1..n + 1
    BY <1>1, <1>4, <1>7
  <2>2. slots[m].key < r.key
    BY <2>1, <1>1, <1>7
  <2>3. CASE slots[m].key < End(r) /\ End(slots[m]) > r.key
    <3>1. hit = [found |-> TRUE, slot |-> m]
      BY <1>2, <1>7, <2>3
    <3>2. QED
      BY <3>1, <2>1, <2>3, <1>4 DEF n, Overlap
  <2>4. CASE ~ (slots[m].key < End(r) /\ End(slots[m]) > r.key)
    <3>1. hit = probe
      BY <1>2, <1>7, <2>4
    <3>2. End(slots[m]) <= r.key
      <4>1. slots[m].key \in Nat /\ End(slots[m]) \in Nat
        BY <2>1, <1>3
      <4>2. slots[m].key < End(r)
        BY <2>2, <4>1, <1>4
      <4> HIDE DEF m
      <4> QED
        BY <2>4, <4>1, <4>2, <1>4
    <3>3. ASSUME NEW i \in 1..probe.slot - 1 PROVE End(slots[i]) <= r.key
      <4>1. i \in 1..n /\ i <= m
        BY <2>1, <1>4
      <4>2. i = m \/ End(slots[i]) <= slots[m].key
        <5>1. i = m \/ i < m
          BY <2>1, <4>1, <1>4
        <5> HIDE DEF m
        <5> QED
          BY <4>1, <5>1, <2>1 DEF Ordered, n
      <4>3. slots[m].key \in Nat /\ End(slots[i]) \in Nat
        BY <2>1, <4>1, <1>3
      <4> HIDE DEF m
      <4> QED
        BY <4>2, <4>3, <3>2, <2>2, <1>4
    <3>4. QED
      BY <3>1, <3>3, <1>1, <1>7 DEF n
  <2>5. QED
    BY <2>3, <2>4
<1>8. QED
  BY <1>1, <1>5, <1>6, <1>7

\* Whatever the order, the place lies in the leaf or right behind it.
LEMMA LeafSlotLockedType ==
  ASSUME NEW slots \in Seq(Slot), NEW r \in Slot,
         NEW hit, hit = LeafSlotLocked(slots, r)
  PROVE  /\ hit \in [found : BOOLEAN, slot : 1..Len(slots) + 1]
         /\ hit.found => hit.slot <= Len(slots)
<1> DEFINE probe == Probe(slots, r)
<1>1. /\ probe \in [found : BOOLEAN, slot : 1..Len(slots) + 1]
      /\ probe.found => probe.slot <= Len(slots)
  BY ProbeResult
<1>2. hit = IF probe.found \/ probe.slot = 1 THEN probe
            ELSE IF slots[probe.slot - 1].key < End(r) /\ End(slots[probe.slot - 1]) > r.key
                 THEN [found |-> TRUE, slot |-> probe.slot - 1] ELSE probe
  BY DEF LeafSlotLocked
<1> HIDE DEF probe
<1>3. QED
  BY <1>1, <1>2
-----------------------------------------------------------------------------
(* Taking a leaf apart *)

LEMMA InsertAtIs ==
  ASSUME NEW s \in Seq(Slot), NEW e \in Slot, NEW i \in 1..Len(s) + 1
  PROVE  /\ InsertAt(s, i, e) \in Seq(Slot)
         /\ Len(InsertAt(s, i, e)) = Len(s) + 1
         /\ \A j \in 1..i - 1 : InsertAt(s, i, e)[j] = s[j]
         /\ InsertAt(s, i, e)[i] = e
         /\ \A j \in i + 1..Len(s) + 1 : InsertAt(s, i, e)[j] = s[j - 1]
<1> DEFINE a == SubSeq(s, 1, i - 1)
           b == SubSeq(s, i, Len(s))
           c == a \o <<e>>
           d == c \o b
<1>1. Len(s) \in Nat /\ i \in Nat /\ i >= 1 /\ i <= Len(s) + 1
  OBVIOUS
<1>2. a \in Seq(Slot) /\ Len(a) = i - 1 /\ \A j \in 1..i - 1 : a[j] = s[j]
  BY <1>1
<1>3. b \in Seq(Slot) /\ Len(b) = Len(s) - i + 1 /\ \A j \in 1..Len(s) - i + 1 : b[j] = s[i + j - 1]
  BY <1>1
<1>4. <<e>> \in Seq(Slot) /\ Len(<<e>>) = 1 /\ <<e>>[1] = e
  OBVIOUS
<1>5. InsertAt(s, i, e) = d
  BY DEF InsertAt
<1>6. /\ c \in Seq(Slot) /\ Len(c) = Len(a) + Len(<<e>>)
      /\ \A j \in 1..Len(a) + Len(<<e>>) : c[j] = IF j <= Len(a) THEN a[j] ELSE <<e>>[j - Len(a)]
  <2> HIDE DEF a
  <2> QED
    BY <1>2, <1>4, ConcatProperties
<1>7. Len(c) = i /\ c[i] = e /\ \A j \in 1..i - 1 : c[j] = s[j]
  <2> HIDE DEF a, c
  <2>1. Len(c) = i
    BY <1>1, <1>2, <1>4, <1>6
  <2>2. c[i] = e
    <3>1. i \in 1..Len(a) + Len(<<e>>) /\ ~ (i <= Len(a)) /\ i - Len(a) = 1
      BY <1>1, <1>2, <1>4
    <3> QED
      BY <1>4, <1>6, <3>1
  <2>3. ASSUME NEW j \in 1..i - 1 PROVE c[j] = s[j]
    <3>1. j \in 1..Len(a) + Len(<<e>>) /\ j <= Len(a)
      BY <1>1, <1>2, <1>4
    <3> QED
      BY <1>2, <1>6, <3>1
  <2> QED
    BY <2>1, <2>2, <2>3
<1>8. /\ d \in Seq(Slot) /\ Len(d) = Len(c) + Len(b)
      /\ \A j \in 1..Len(c) + Len(b) : d[j] = IF j <= Len(c) THEN c[j] ELSE b[j - Len(c)]
  <2>1. c \in Seq(Slot) /\ b \in Seq(Slot)
    BY <1>3, <1>6
  <2> HIDE DEF a, b, c
  <2> QED
    BY <2>1, ConcatProperties
<1> HIDE DEF a, b, c, d
<1>9. Len(d) = Len(s) + 1
  BY <1>1, <1>3, <1>7, <1>8
<1>10. ASSUME NEW j \in 1..i PROVE d[j] = c[j]
  <2>1. j \in 1..Len(c) + Len(b) /\ j <= Len(c)
    BY <1>1, <1>3, <1>7
  <2> QED
    BY <1>8, <2>1
<1>11. ASSUME NEW j \in i + 1..Len(s) + 1 PROVE d[j] = s[j - 1]
  <2>1. j \in 1..Len(c) + Len(b) /\ ~ (j <= Len(c)) /\ j - Len(c) = j - i
    BY <1>1, <1>3, <1>7
  <2>2. j - i \in 1..Len(s) - i + 1 /\ i + (j - i) - 1 = j - 1
    BY <1>1
  <2>3. b[j - i] = s[j - 1]
    BY <1>3, <2>2
  <2> QED
    BY <1>8, <2>1, <2>3
<1>12. i \in 1..i /\ \A j \in 1..i - 1 : j \in 1..i
  BY <1>1
<1> QED
  BY <1>5, <1>7, <1>8, <1>9, <1>10, <1>11, <1>12

LEMMA InsertIntoFull ==
  ASSUME NEW s \in Seq(Slot), Len(s) = Cap, NEW r \in Slot, NEW i \in 1..Cap
  PROVE  LET t == InsertAt(s, i, r)
         IN  /\ t \in Seq(Slot) /\ Len(t) = Cap + 1
             /\ \A j \in 1..i - 1 : t[j] = s[j]
             /\ t[i] = r
             /\ \A j \in i + 1..Cap + 1 : t[j] = s[j - 1]
<1>1. ASSUME NEW q \in Seq(Slot), NEW k \in 1..Len(q) + 1
      PROVE  /\ InsertAt(q, k, r) \in Seq(Slot)
             /\ Len(InsertAt(q, k, r)) = Len(q) + 1
             /\ \A j \in 1..k - 1 : InsertAt(q, k, r)[j] = q[j]
             /\ InsertAt(q, k, r)[k] = r
             /\ \A j \in k + 1..Len(q) + 1 : InsertAt(q, k, r)[j] = q[j - 1]
  BY InsertAtIs
<1>2. i \in 1..Cap + 1
  BY CapAssumption
<1>3. QED
  BY <1>1, <1>2

LEMMA RemoveAtIs ==
  ASSUME NEW s \in Seq(Slot), NEW i \in 1..Len(s)
  PROVE  /\ RemoveAt(s, i) \in Seq(Slot)
         /\ Len(RemoveAt(s, i)) = Len(s) - 1
         /\ \A j \in 1..i - 1 : RemoveAt(s, i)[j] = s[j]
         /\ \A j \in i..Len(s) - 1 : RemoveAt(s, i)[j] = s[j + 1]
<1> DEFINE a == SubSeq(s, 1, i - 1)
           b == SubSeq(s, i + 1, Len(s))
           c == a \o b
<1>1. Len(s) \in Nat /\ i \in Nat /\ i >= 1 /\ i <= Len(s)
  OBVIOUS
<1>2. a \in Seq(Slot) /\ Len(a) = i - 1 /\ \A j \in 1..i - 1 : a[j] = s[j]
  BY <1>1
<1>3. b \in Seq(Slot) /\ Len(b) = Len(s) - i /\ \A j \in 1..Len(s) - i : b[j] = s[i + j]
  BY <1>1
<1>4. RemoveAt(s, i) = c
  BY DEF RemoveAt
<1>5. /\ c \in Seq(Slot) /\ Len(c) = Len(a) + Len(b)
      /\ \A j \in 1..Len(a) + Len(b) : c[j] = IF j <= Len(a) THEN a[j] ELSE b[j - Len(a)]
  <2> HIDE DEF a, b
  <2> QED
    BY <1>2, <1>3, ConcatProperties
<1> HIDE DEF a, b, c
<1>6. Len(c) = Len(s) - 1
  BY <1>1, <1>2, <1>3, <1>5
<1>7. ASSUME NEW j \in 1..i - 1 PROVE c[j] = s[j]
  <2>1. j \in 1..Len(a) + Len(b) /\ j <= Len(a)
    BY <1>1, <1>2, <1>3
  <2> QED
    BY <1>2, <1>5, <2>1
<1>8. ASSUME NEW j \in i..Len(s) - 1 PROVE c[j] = s[j + 1]
  <2>1. j \in 1..Len(a) + Len(b) /\ ~ (j <= Len(a)) /\ j - Len(a) = j - (i - 1)
    BY <1>1, <1>2, <1>3
  <2>2. j - (i - 1) \in 1..Len(s) - i /\ i + (j - (i - 1)) = j + 1
    BY <1>1
  <2>3. b[j - (i - 1)] = s[j + 1]
    BY <1>3, <2>2
  <2> QED
    BY <1>5, <2>1, <2>3
<1> QED
  BY <1>4, <1>5, <1>6, <1>7, <1>8

(* What an ordered leaf becomes *)

LEMMA InsertKeepsOrder ==
  ASSUME NEW s \in Seq(Slot), Ordered(s), NEW r \in Slot, NEW i \in 1..Len(s) + 1,
         \A j \in 1..i - 1 : End(s[j]) <= r.key,
         \A j \in i..Len(s) : End(r) <= s[j].key
  PROVE  Ordered(InsertAt(s, i, r))
<1> DEFINE t == InsertAt(s, i, r)
<1>1. /\ Len(t) = Len(s) + 1
      /\ \A j \in 1..i - 1 : t[j] = s[j]
      /\ t[i] = r
      /\ \A j \in i + 1..Len(s) + 1 : t[j] = s[j - 1]
  <2>1. ASSUME NEW q \in Seq(Slot), NEW k \in 1..Len(q) + 1
        PROVE  /\ Len(InsertAt(q, k, r)) = Len(q) + 1
               /\ \A j \in 1..k - 1 : InsertAt(q, k, r)[j] = q[j]
               /\ InsertAt(q, k, r)[k] = r
               /\ \A j \in k + 1..Len(q) + 1 : InsertAt(q, k, r)[j] = q[j - 1]
    BY InsertAtIs
  <2> QED
    BY <2>1
<1> HIDE DEF t
<1>2. SUFFICES ASSUME NEW j \in 1..Len(t), NEW k \in 1..Len(t), j < k
               PROVE  End(t[j]) <= t[k].key
  BY DEF Ordered, t
<1>3. Len(s) \in Nat /\ i \in 1..Len(s) + 1
  OBVIOUS
<1>4. CASE k < i
  BY <1>1, <1>2, <1>3, <1>4 DEF Ordered
<1>5. CASE k = i
  BY <1>1, <1>2, <1>3, <1>5
<1>6. CASE k > i
  <2>1. t[k] = s[k - 1] /\ k - 1 \in i..Len(s)
    BY <1>1, <1>3, <1>6
  <2>2. CASE j < i
    BY <1>1, <1>3, <2>1, <2>2 DEF Ordered
  <2>3. CASE j = i
    BY <1>1, <2>1, <2>3
  <2>4. CASE j > i
    <3>1. t[j] = s[j - 1] /\ j - 1 \in 1..Len(s) /\ j - 1 < k - 1 /\ k - 1 \in 1..Len(s)
      BY <1>1, <1>2, <1>3, <2>1, <2>4
    <3> QED
      BY <2>1, <3>1 DEF Ordered
  <2> QED
    BY <1>3, <2>2, <2>3, <2>4
<1> QED
  BY <1>1, <1>3, <1>4, <1>5, <1>6

LEMMA RemoveKeepsOrder ==
  ASSUME NEW s \in Seq(Slot), Ordered(s), NEW i \in 1..Len(s)
  PROVE  Ordered(RemoveAt(s, i))
<1> DEFINE t == RemoveAt(s, i)
           from(j) == IF j < i THEN j ELSE j + 1
<1>1. /\ Len(t) = Len(s) - 1
      /\ \A j \in 1..i - 1 : t[j] = s[j]
      /\ \A j \in i..Len(s) - 1 : t[j] = s[j + 1]
  <2>1. ASSUME NEW q \in Seq(Slot), NEW k \in 1..Len(q)
        PROVE  /\ Len(RemoveAt(q, k)) = Len(q) - 1
               /\ \A j \in 1..k - 1 : RemoveAt(q, k)[j] = q[j]
               /\ \A j \in k..Len(q) - 1 : RemoveAt(q, k)[j] = q[j + 1]
    BY RemoveAtIs
  <2> QED
    BY <2>1
<1> HIDE DEF t
<1>2. ASSUME NEW j \in 1..Len(t)
      PROVE  t[j] = s[from(j)] /\ from(j) \in 1..Len(s)
  BY <1>1
<1>3. SUFFICES ASSUME NEW j \in 1..Len(t), NEW k \in 1..Len(t), j < k
               PROVE  End(t[j]) <= t[k].key
  BY DEF Ordered, t
<1>4. from(j) < from(k)
  BY <1>1, <1>3
<1> HIDE DEF from
<1> QED
  BY <1>2, <1>4 DEF Ordered

LEMMA LowerIs ==
  ASSUME NEW s \in Seq(Slot), Ordered(s), NEW n \in 1..Len(s)
  PROVE  /\ SubSeq(s, 1, n) \in Seq(Slot) /\ Len(SubSeq(s, 1, n)) = n
         /\ \A j \in 1..n : SubSeq(s, 1, n)[j] = s[j]
         /\ Ordered(SubSeq(s, 1, n))
<1> DEFINE t == SubSeq(s, 1, n)
<1>1. t \in Seq(Slot) /\ Len(t) = n /\ \A j \in 1..n : t[j] = s[j]
  OBVIOUS
<1>2. \A j \in 1..n : j \in 1..Len(s)
  OBVIOUS
<1>3. Ordered(t)
  <2> HIDE DEF t
  <2> QED
    BY <1>1, <1>2 DEF Ordered
<1> QED
  BY <1>1, <1>3

LEMMA MidType == Mid \in Nat /\ 1 <= Mid /\ Mid < Cap
  BY CapAssumption DEF Mid

\* A full leaf without r, into which r fits at slot: the old leaf keeps the
\* lower half, and the new one gets the rest with r if it belongs there.
LEMMA SplitMovesIs ==
  ASSUME NEW slots \in Seq(Slot), Len(slots) = Cap, Ordered(slots), NEW r \in Slot,
         NEW slot \in 1..Cap,
         \A i \in 1..slot - 1 : End(slots[i]) <= r.key,
         \A i \in slot..Cap : End(r) <= slots[i].key,
         NEW moves, moves = SplitMoves(slots, slot, r)
  PROVE  /\ moves \in Seq(Slot) /\ moves # <<>> /\ Ordered(moves)
         /\ \A i \in Mid + 1..Cap : slots[i] \in ToSet(moves)
         /\ \A s \in ToSet(moves) : End(slots[Mid]) <= s.key
         /\ moves[Len(moves)] = slots[Cap]
<1>1. Mid \in Nat /\ 1 <= Mid /\ Mid < Cap /\ Cap \in Nat
  BY MidType, CapAssumption
<1>2. ASSUME NEW i \in 1..Cap
      PROVE  /\ slots[i] \in Slot /\ slots[i].key \in Nat /\ slots[i].size \in Nat \ {0}
             /\ End(slots[i]) \in Nat /\ End(slots[i]) > slots[i].key
  <2>1. slots[i] \in Slot
    OBVIOUS
  <2>2. QED
    BY <2>1 DEF Slot, End
<1>3. r.key \in Nat /\ End(r) \in Nat /\ r.key < End(r)
  BY DEF Slot, End
<1>4. CASE slot > Mid
  <2> DEFINE whole == InsertAt(slots, slot, r)
  <2>1. /\ whole \in Seq(Slot) /\ Len(whole) = Cap + 1
        /\ \A j \in 1..slot - 1 : whole[j] = slots[j]
        /\ whole[slot] = r
        /\ \A j \in slot + 1..Cap + 1 : whole[j] = slots[j - 1]
    BY InsertIntoFull
  <2>2. moves = SubSeq(whole, Mid + 1, Cap + 1)
    BY <1>1, <1>4 DEF SplitMoves
  <2> HIDE DEF whole
  <2>3. /\ moves \in Seq(Slot) /\ Len(moves) = Cap + 1 - Mid
        /\ \A j \in 1..Cap + 1 - Mid : moves[j] = whole[Mid + j]
    <3>1. whole \in Seq(Slot) /\ Len(whole) = Cap + 1
      BY <2>1
    <3>2. \A j \in Mid + 1..Cap + 1 : whole[j] \in Slot
      BY <3>1, <1>1
    <3>3. Mid + 1 \in Int /\ Cap + 1 \in Int /\ Mid + 1 <= Cap + 1
      BY <1>1
    <3>4. /\ moves \in Seq(Slot)
          /\ Len(moves) = (Cap + 1) - (Mid + 1) + 1
          /\ \A j \in 1..(Cap + 1) - (Mid + 1) + 1 : moves[j] = whole[Mid + 1 + j - 1]
      BY <2>2, <3>2, <3>3, SubSeqProperties
    <3>5. /\ (Cap + 1) - (Mid + 1) + 1 = Cap + 1 - Mid
          /\ \A j \in 1..Cap + 1 - Mid : Mid + 1 + j - 1 = Mid + j
      BY <1>1
    <3> QED
      BY <3>4, <3>5
  <2>4. \A j \in 1..Cap + 1 - Mid :
          moves[j] = IF Mid + j < slot THEN slots[Mid + j]
                     ELSE IF Mid + j = slot THEN r ELSE slots[Mid + j - 1]
    <3>1. SUFFICES ASSUME NEW j \in 1..Cap + 1 - Mid
                   PROVE  moves[j] = IF Mid + j < slot THEN slots[Mid + j]
                                     ELSE IF Mid + j = slot THEN r ELSE slots[Mid + j - 1]
      OBVIOUS
    <3>2. moves[j] = whole[Mid + j] /\ Mid + j \in 1..Cap + 1
      BY <2>3, <1>1
    <3>3. CASE Mid + j < slot
      BY <3>2, <3>3, <2>1, <1>1
    <3>4. CASE Mid + j = slot
      <4>1. whole[Mid + j] = r
        BY <3>4, <2>1
      <4>2. QED
        BY <4>1, <3>2, <3>4, <1>1
    <3>5. CASE Mid + j > slot
      <4>1. Mid + j \in slot + 1..Cap + 1
        BY <3>2, <3>5, <1>1
      <4>2. whole[Mid + j] = slots[(Mid + j) - 1]
        BY <4>1, <2>1
      <4>3. QED
        BY <4>2, <3>2, <3>5, <1>1
    <3>6. QED
      BY <3>3, <3>4, <3>5, <1>1
  <2>5. Ordered(moves)
    <3>1. SUFFICES ASSUME NEW i \in 1..Len(moves), NEW j \in 1..Len(moves), i < j
                   PROVE  End(moves[i]) <= moves[j].key
      BY DEF Ordered
    <3>2. /\ i \in 1..Cap + 1 - Mid /\ j \in 1..Cap + 1 - Mid
          /\ Mid + i \in 1..Cap /\ Mid + j - 1 \in 1..Cap
      BY <2>3, <1>1, <3>1
    <3>3. CASE Mid + j < slot
      BY <3>1, <3>2, <3>3, <2>4, <1>1 DEF Ordered
    <3>4. CASE Mid + j = slot
      BY <3>1, <3>2, <3>4, <2>4, <1>1
    <3>5. CASE Mid + j > slot /\ Mid + i < slot
      BY <3>1, <3>2, <3>5, <2>4, <1>1 DEF Ordered
    <3>6. CASE Mid + j > slot /\ Mid + i = slot
      <4>1. moves[i] = r /\ moves[j] = slots[Mid + j - 1] /\ Mid + j - 1 \in slot..Cap
        BY <3>2, <3>6, <2>4, <1>1
      <4>2. QED
        BY <4>1
    <3>7. CASE Mid + j > slot /\ Mid + i > slot
      BY <3>1, <3>2, <3>7, <2>4, <1>1 DEF Ordered
    <3>8. QED
      BY <3>2, <3>3, <3>4, <3>5, <3>6, <3>7, <1>1
  <2>6. ASSUME NEW i \in Mid + 1..Cap PROVE slots[i] \in ToSet(moves)
    <3>1. slots[i] = moves[IF i < slot THEN i - Mid ELSE i - Mid + 1]
      BY <2>4, <1>1
    <3>2. (IF i < slot THEN i - Mid ELSE i - Mid + 1) \in 1..Len(moves)
      BY <2>3, <1>1
    <3>3. QED
      BY <3>1, <3>2, <2>3 DEF ToSet
  <2>7. ASSUME NEW s \in ToSet(moves) PROVE End(slots[Mid]) <= s.key
    <3>1. PICK j \in 1..Cap + 1 - Mid : s = moves[j]
      BY <2>3 DEF ToSet
    <3>2. CASE Mid + j < slot
      <4>1. Mid + j \in 1..Cap /\ Mid \in 1..Cap /\ s = slots[Mid + j]
        BY <3>1, <3>2, <2>4, <1>1
      <4>2. QED
        BY <4>1, <1>1 DEF Ordered
    <3>3. CASE Mid + j = slot
      BY <3>1, <3>3, <2>4, <1>1, <1>4
    <3>4. CASE Mid + j > slot
      <4>1. Mid + j - 1 \in 1..Cap /\ Mid \in 1..Cap /\ s = slots[Mid + j - 1]
            /\ Mid < Mid + j - 1
        BY <3>1, <3>4, <2>4, <1>1, <1>4
      <4>2. QED
        BY <4>1, <1>1 DEF Ordered
    <3>5. QED
      BY <3>2, <3>3, <3>4, <1>1
  <2>8. moves # <<>>
    BY <2>3, <1>1
  <2>9. moves[Len(moves)] = slots[Cap]
    BY <2>3, <2>4, <1>1
  <2>10. QED
    BY <2>3, <2>5, <2>6, <2>7, <2>8, <2>9
<1>5. CASE slot <= Mid
  <2>1. moves = SubSeq(slots, Mid + 1, Cap)
    BY <1>1, <1>5 DEF SplitMoves
  <2>2. /\ moves \in Seq(Slot) /\ Len(moves) = Cap - Mid
        /\ \A j \in 1..Cap - Mid : moves[j] = slots[Mid + j]
    BY <2>1, <1>1
  <2>3. Ordered(moves)
    <3>1. SUFFICES ASSUME NEW i \in 1..Len(moves), NEW j \in 1..Len(moves), i < j
                   PROVE  End(moves[i]) <= moves[j].key
      BY DEF Ordered
    <3>2. /\ Mid + i \in 1..Cap /\ Mid + j \in 1..Cap /\ Mid + i < Mid + j
          /\ moves[i] = slots[Mid + i] /\ moves[j] = slots[Mid + j]
      BY <2>2, <1>1, <3>1
    <3>3. QED
      BY <3>2 DEF Ordered
  <2>4. ASSUME NEW i \in Mid + 1..Cap PROVE slots[i] \in ToSet(moves)
    <3>1. i - Mid \in 1..Len(moves) /\ slots[i] = moves[i - Mid]
      BY <2>2, <1>1
    <3>2. QED
      BY <3>1, <2>2 DEF ToSet
  <2>5. ASSUME NEW s \in ToSet(moves) PROVE End(slots[Mid]) <= s.key
    <3>1. PICK j \in 1..Cap - Mid : s = moves[j]
      BY <2>2 DEF ToSet
    <3>2. Mid + j \in 1..Cap /\ Mid \in 1..Cap /\ Mid < Mid + j /\ s = slots[Mid + j]
      BY <3>1, <2>2, <1>1
    <3>3. QED
      BY <3>2 DEF Ordered
  <2>6. moves # <<>> /\ moves[Len(moves)] = slots[Cap]
    BY <2>2, <1>1
  <2>7. QED
    BY <2>2, <2>3, <2>4, <2>5, <2>6
<1>6. QED
  BY <1>1, <1>4, <1>5
=============================================================================
